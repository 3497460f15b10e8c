-------------------------- MODULE RunLifecycle_proofs --------------------------
(***************************************************************************)
(* What becomes of a run: that the table tells the truth about how its     *)
(* pipeline ended, and that the queue implements RunLifecycle.             *)
(***************************************************************************)
EXTENDS RunQueue_proofs

-----------------------------------------------------------------------------
(* How a pipeline ended.  The outcome goes from the runner to the done      *)
(* event, through the inbox, to the table; what it is about stays as it is  *)
(* on the way.                                                              *)

\* What an outcome says is true.
OutcomeTrue(r, outcome) ==
    /\ outcome = "accepted" => r \in pushed
    /\ outcome = "rejected" => r \notin pushed /\ try[r] = RetriesMax

\* A branch is pushed at one place of the pipeline.
PushedOnce ==
    \A r \in Runs :
        /\ phase[r] = "pushed" => r \in pushed
        /\ r \in pushed => phase[r] \in {"pushed", "reporting", "ended"}

ReportsTrue ==
    \A r \in Runs : phase[r] = "reporting" => OutcomeTrue(r, report[r].outcome)

DoneTrue ==
    \A i \in 1 .. Len(inbox) :
        inbox[i].type = "done" => OutcomeTrue(inbox[i].run, inbox[i].outcome)

\* A run that succeeded or was rejected has a goroutine that is gone, so what its
\* status says cannot become untrue.
EndingsTrue ==
    \A r \in Runs :
        /\ runs[r].status = "succeeded" => phase[r] = "ended" /\ OutcomeTrue(r, "accepted")
        /\ runs[r].status = "rejected"  => phase[r] = "ended" /\ OutcomeTrue(r, "rejected")

OutcomeInv == PushedOnce /\ ReportsTrue /\ DoneTrue /\ EndingsTrue

-----------------------------------------------------------------------------
(* Where a run is in its course.  Its stages have a rank: the one it starts *)
(* from, the planner, then two for each attempt.                            *)

Rank(stage, attempt) ==
    CASE stage = "planner"  -> 1
      [] stage = "executor" -> 2 * attempt
      [] stage = "reviewer" -> 2 * attempt + 1

\* The rank the table shows for an active run.
TableRank(r) ==
    CASE runs[r].status = "started"   -> 0
      [] runs[r].status = "planning"  -> 1
      [] runs[r].status = "coding"    -> 2 * runs[r].attempt
      [] runs[r].status = "reviewing" -> 2 * runs[r].attempt + 1

IsStage(ev, r) == ev.type = "stage" /\ ev.run = r

\* The stages of run r that the table is still to show.
Underway(r) ==
    {Rank(inbox[i].stage, inbox[i].attempt) :
       i \in {k \in 1 .. Len(inbox) : IsStage(inbox[k], r)}}

\* They follow without a gap on the one it shows, up to rank m.
Reaches(r, m) ==
    /\ TableRank(r) <= m
    /\ Underway(r) = (TableRank(r) + 1) .. m

\* The goroutine has got to a stage whose event was sent and not abandoned: its
\* context was alive then.
Placed(r) ==
    \/ phase[r] \in Stages \cup {"starting", "planned", "accepted", "declined", "pushed"}
    \/ phase[r] = "reporting" /\ report[r].outcome # "error"
    \/ \E i \in 1 .. Len(inbox) :
         inbox[i].type = "done" /\ inbox[i].run = r /\ inbox[i].outcome # "error"

Place(r) ==
    CASE phase[r] = "starting" -> 0
      [] phase[r] \in {"planner", "planned"} -> 1
      [] phase[r] = "executor" -> 2 * try[r]
      [] OTHER -> 2 * try[r] + 1

\* The table, the inbox and the goroutine of an active run are in one course.
\* Attempts are counted from one, and from the executor on.
CourseOf(r) ==
    Active(r) =>
        /\ \E m \in Nat : Reaches(r, m)
        /\ Placed(r) =>
             /\ Reaches(r, Place(r))
             /\ phase[r] \notin {"starting", "planner", "planned"} => try[r] >= 1

\* Stage events keep the order of the pipeline.
StagesOrdered ==
    \A i, j \in 1 .. Len(inbox) : \A r \in Runs :
        i < j /\ IsStage(inbox[i], r) /\ IsStage(inbox[j], r)
          => Rank(inbox[i].stage, inbox[i].attempt) < Rank(inbox[j].stage, inbox[j].attempt)

\* The planner's event has no attempt, the others have one.
Counted(ev) ==
    ev.type = "stage" => IF ev.stage = "planner" THEN ev.attempt = 0 ELSE ev.attempt >= 1

StagesCounted == \A i \in 1 .. Len(inbox) : Counted(inbox[i])

TableCounted ==
    \A r \in Runs :
        /\ runs[r].status \in {"none", "queued", "started", "planning"} => runs[r].attempt = 0
        /\ runs[r].status \in {"coding", "reviewing"} => runs[r].attempt >= 1

\* Whoever waits has a ticket.
WaitingTicketed ==
    \A r \in Runs : Waiting(r) => \E i \in 1 .. Len(tickets) : tickets[i] = r

CourseInv ==
    /\ \A r \in Runs : CourseOf(r)
    /\ StagesOrdered
    /\ StagesCounted
    /\ TableCounted
    /\ WaitingTicketed

-----------------------------------------------------------------------------
(* What a step of the loop may do to the table, one way at a time.          *)

Shown(r) == <<runs[r].status, runs[r].attempt, runs[r].started>>

OthersKept(r) == \A s \in Runs : s # r => runs'[s] = runs[s]

\* An event was taken, or none.
TakesNoStage == Popped(inbox, inbox') /\ (inbox' # inbox => Head(inbox).type # "stage")

\* Nothing a watcher sees: an answer, an activity, a summary, a stale ticket.
Unseen ==
    /\ \A s \in Runs : Shown(s)' = Shown(s)
    /\ TakesNoStage /\ Popped(tickets, tickets')
    /\ tickets' # tickets => ~Waiting(Head(tickets))
    /\ UNCHANGED phase

Added(r) ==
    /\ OthersKept(r) /\ ~Known(r) /\ runs'[r] = NewEntry("queued")
    /\ \A k \in 1 .. Len(tickets) : tickets[k] # r
    /\ TakesNoStage /\ tickets' = Append(tickets, r)
    /\ UNCHANGED phase

Retired(r) ==
    /\ OthersKept(r) /\ Waiting(r) /\ ~runs[r].started
    /\ Shown(r)' = <<"cancelled", runs[r].attempt, FALSE>>
    /\ TakesNoStage
    /\ tickets' = tickets \/ (tickets # <<>> /\ tickets' = Tail(tickets) /\ Head(tickets) = r)
    /\ UNCHANGED phase

Started(r) ==
    /\ OthersKept(r) /\ Waiting(r) /\ ~runs[r].started /\ phase[r] = "none"
    /\ ActiveCount < MaxContainers
    /\ Shown(r)' = <<"started", runs[r].attempt, TRUE>>
    /\ tickets # <<>> /\ Head(tickets) = r /\ tickets' = Tail(tickets)
    /\ phase' = [phase EXCEPT ![r] = "starting"]
    /\ UNCHANGED inbox

\* The event a handler takes is about an active run.
Takes(r, type) ==
    /\ OthersKept(r) /\ Active(r)
    /\ inbox # <<>> /\ inbox' = Tail(inbox)
    /\ Head(inbox) \in Events /\ Head(inbox).type = type /\ Head(inbox).run = r
    /\ UNCHANGED <<tickets, phase>>

Staged(r) ==
    /\ Takes(r, "stage")
    /\ Shown(r)' = <<StatusForStage(Head(inbox).stage),
                     IF Head(inbox).attempt > 0 THEN Head(inbox).attempt ELSE runs[r].attempt,
                     TRUE>>

Finished(r) ==
    /\ Takes(r, "done") /\ phase[r] = "ended"
    /\ Shown(r)' = <<DoneStatus(Head(inbox).outcome, Head(inbox).cancelled),
                     runs[r].attempt, TRUE>>

Evicted(gone) ==
    /\ \A s \in Runs : runs'[s] = IF s \in gone THEN Absent ELSE runs[s]
    /\ \A s \in gone : IsFinilised(runs[s].status)
    /\ UNCHANGED <<inbox, tickets, phase>>

\* A waiting run was not started, and it shows as queued.
LEMMA WaitingEntry ==
    ASSUME IndInv, NEW r \in Runs, Known(r), ~IsFinilised(runs[r].status), ~runs[r].started
    PROVE  Waiting(r) /\ runs[r] \in Entry
<1>1. runs[r] \in Entry
  BY DEF IndInv, TypeInv, TypeOK
<1>2. runs[r].status \in Statuses /\ runs[r].status \notin Running
  BY <1>1 DEF Entry, IndInv, TableShape
<1>3. QED
  BY <1>1, <1>2 DEF Statuses, Known, IsFinilised, Waiting

\* What Queue.done shows of a run.
LEMMA DoneShows ==
    ASSUME IndInv, NEW r \in Runs, NEW o \in Outcomes, NEW b \in BOOLEAN, Done(r, o, b)
    PROVE  /\ Shown(r)' = <<DoneStatus(o, b), runs[r].attempt, runs[r].started>>
           /\ OthersKept(r)
<1>1. runs \in [Runs -> Entry]
  BY DEF IndInv, TypeInv, TypeOK
<1>2. runs'[r] = DoneEntry(runs[r], o, b) /\ OthersKept(r)
  BY <1>1 DEF Done, Change, OthersKept
<1> DEFINE text == IF ~b /\ o = "error" THEN "error" ELSE runs[r].summary
<1>3. runs'[r] = [runs[r] EXCEPT !.finished = TRUE, !.activity = "",
                                 !.status = DoneStatus(o, b), !.summary = text]
  BY <1>2, Zenon DEF DoneEntry
<1>4. runs[r] \in Entry
  BY <1>1
<1> HIDE DEF text
<1>5. QED
  BY <1>2, <1>3, <1>4 DEF Entry, Shown

\* Taking an event or a ticket from the front, or none.
LEMMA HeadTaken ==
    ASSUME IndInv, NEW type \in {"add", "cancel", "activity", "summary"}, Receive(type)
    PROVE  TakesNoStage
BY HeadReport DEF Receive, TakesNoStage

\* The handlers of a run's reports.
LEMMA KindOfReport ==
    ASSUME IndInv, HandleStage \/ HandleActivity \/ HandleSummary \/ HandleDone
    PROVE  Unseen \/ \E r \in Runs : Staged(r) \/ Finished(r)
<1> USE DEF pipeVars, callerVars
<1>0. runs \in [Runs -> Entry]
  BY DEF IndInv, TypeInv, TypeOK
<1>1. ASSUME NEW type \in ReportTypes, Receive(type)
      PROVE  \E r \in Runs :
               /\ r = Head(inbox).run /\ Active(r)
               /\ inbox # <<>> /\ inbox' = Tail(inbox)
               /\ Head(inbox) \in Events /\ Head(inbox).type = type
               /\ runs[r] \in Entry /\ runs[r].started = TRUE
               /\ Known(r) /\ ~IsFinilised(runs[r].status)
  BY <1>1, HeadReport, ActiveEntry DEF Receive
<1>2. CASE HandleStage
  <2>1. PICK r \in Runs :
          /\ r = Head(inbox).run /\ Active(r)
          /\ inbox # <<>> /\ inbox' = Tail(inbox)
          /\ Head(inbox) \in Events /\ Head(inbox).type = "stage"
          /\ runs[r] \in Entry /\ runs[r].started = TRUE /\ Known(r)
    BY <1>1, <1>2 DEF HandleStage, ReportTypes
  <2> DEFINE status == StatusForStage(Head(inbox).stage)
             attempt == IF Head(inbox).attempt > 0 THEN Head(inbox).attempt
                                                   ELSE runs[r].attempt
  <2>2. /\ runs' = [runs EXCEPT ![r] = [runs[r] EXCEPT !.status = status,
                                           !.attempt = attempt, !.activity = ""]]
        /\ UNCHANGED <<tickets, phase>>
    BY <1>2, <2>1 DEF HandleStage, Change
  <2> HIDE DEF status, attempt
  <2>3. /\ runs'[r] = [runs[r] EXCEPT !.status = status, !.attempt = attempt,
                                      !.activity = ""]
        /\ OthersKept(r)
    BY <1>0, <2>2 DEF OthersKept
  <2>4. Shown(r)' = <<status, attempt, TRUE>>
    BY <2>1, <2>3 DEF Shown, Entry
  <2>5. Staged(r)
    BY <2>1, <2>2, <2>3, <2>4 DEF Staged, Takes, status, attempt
  <2>6. QED
    BY <2>5
<1>3. CASE HandleActivity \/ HandleSummary
  <2>1. PICK type \in {"activity", "summary"} : Receive(type)
    BY <1>3 DEF HandleActivity, HandleSummary
  <2>2. PICK r \in Runs : r = Head(inbox).run
    BY <1>1, <2>1 DEF ReportTypes
  <2>3. \/ UNCHANGED runs
        \/ runs' = [runs EXCEPT ![r] = [runs[r] EXCEPT !.activity = Head(inbox).text]]
        \/ runs' = [runs EXCEPT ![r] = [runs[r] EXCEPT !.summary = Head(inbox).text]]
    BY <1>3, <2>2 DEF HandleActivity, HandleSummary, Change
  <2>4. ASSUME NEW s \in Runs PROVE Shown(s)' = Shown(s)
    <3>1. runs[s] \in Entry
      BY <1>0
    <3>2. \/ runs'[s] = runs[s]
          \/ runs'[s] = [runs[s] EXCEPT !.activity = Head(inbox).text]
          \/ runs'[s] = [runs[s] EXCEPT !.summary = Head(inbox).text]
      BY <1>0, <2>3
    <3>3. QED
      BY <3>1, <3>2 DEF Shown, Entry
  <2>5. TakesNoStage
    BY <2>1, HeadTaken
  <2>6. UNCHANGED <<tickets, phase>>
    BY <1>3 DEF HandleActivity, HandleSummary
  <2>7. QED
    BY <2>4, <2>5, <2>6 DEF Unseen, Popped
<1>4. CASE HandleDone
  <2>0. Receive("done") /\ "done" \in ReportTypes
    BY <1>4 DEF HandleDone, ReportTypes
  <2>1. PICK r \in Runs :
          /\ r = Head(inbox).run /\ Active(r)
          /\ inbox # <<>> /\ inbox' = Tail(inbox)
          /\ Head(inbox) \in Events /\ Head(inbox).type = "done"
          /\ runs[r].started = TRUE /\ Known(r)
    BY <1>1, <2>0
  <2>2. phase[r] = "ended"
    BY <2>0, <2>1, HeadReport
  <2>3. Head(inbox).outcome \in Outcomes /\ Head(inbox).cancelled \in BOOLEAN
    BY <2>1 DEF Events, AddEvents, CancelEvents, StageEvents, ActivityEvents,
                SummaryEvents, DoneEvents
  <2>4. Done(r, Head(inbox).outcome, Head(inbox).cancelled)
        /\ UNCHANGED <<tickets, phase>>
    BY <1>4, <2>1 DEF HandleDone
  <2>5. /\ Shown(r)' = <<DoneStatus(Head(inbox).outcome, Head(inbox).cancelled),
                        runs[r].attempt, runs[r].started>>
        /\ OthersKept(r)
    BY <2>3, <2>4, DoneShows
  <2>6. Finished(r)
    BY <2>1, <2>2, <2>4, <2>5 DEF Finished, Takes
  <2>7. QED
    BY <2>6
<1>5. QED
  BY <1>2, <1>3, <1>4

\* The handlers of the callers' events.
LEMMA KindOfCall ==
    ASSUME IndInv, HandleAdd \/ HandleCancel
    PROVE  Unseen \/ \E r \in Runs : Added(r) \/ Retired(r)
<1> USE DEF pipeVars, callerVars
<1>0. runs \in [Runs -> Entry] /\ TypeOK
  BY DEF IndInv, TypeInv, TypeOK
<1>1. CASE HandleAdd
  <2>1. Receive("add") /\ TakesNoStage
    BY <1>1, HeadTaken DEF HandleAdd
  <2>2. /\ Head(inbox).run \in Runs /\ Head(inbox).type = "add"
        /\ Head(inbox) = inbox[1] /\ 1 \in 1 .. Len(inbox)
    BY <1>0, <2>1, HeadReport, ReceiveTyped
  <2>3. PICK r \in Runs : r = Head(inbox).run
    BY <2>2
  <2>4. Untouched(r)
    BY <2>2, <2>3 DEF IndInv, AddsOnce, AddsUntouched
  <2>5. /\ runs' = [runs EXCEPT ![r] = NewEntry("queued")]
        /\ tickets' = Append(tickets, r) /\ UNCHANGED phase
    BY <1>1, <2>3 DEF HandleAdd, Change
  <2>6. Added(r)
    BY <1>0, <2>1, <2>4, <2>5 DEF Added, Untouched, OthersKept
  <2>7. QED
    BY <2>6
<1>2. CASE HandleCancel
  <2>1. TakesNoStage
    BY <1>2, HeadTaken DEF HandleCancel
  <2>2. PICK r \in Runs : r = Head(inbox).run
    BY <1>2, HeadReport DEF HandleCancel
  <2>3. UNCHANGED <<tickets, phase>>
    BY <1>2 DEF HandleCancel
  <2>4. CASE UNCHANGED runs
    BY <2>1, <2>3, <2>4 DEF Unseen, Shown, Popped
  <2>5. CASE Known(r) /\ ~IsFinilised(runs[r].status) /\ ~runs[r].started
             /\ Done(r, "error", TRUE)
    <3>1. /\ Shown(r)' = <<DoneStatus("error", TRUE), runs[r].attempt, runs[r].started>>
          /\ OthersKept(r)
      BY <2>5, DoneShows DEF Outcomes
    <3>2. Waiting(r) /\ runs[r].started = FALSE
      BY <2>5, WaitingEntry DEF Entry
    <3>3. Retired(r)
      BY <2>1, <2>3, <3>1, <3>2 DEF Retired, DoneStatus
    <3>4. QED
      BY <3>3
  <2>6. QED
    BY <1>2, <2>2, <2>4, <2>5 DEF HandleCancel, CancelRefused, CancelAccepted, Retires
<1>3. QED
  BY <1>1, <1>2

\* A tick.
LEMMA KindOfTick ==
    ASSUME IndInv,
           \/ \E S \in SUBSET FinishedRuns : TickEvict(S)
           \/ ScheduleSkip \/ ScheduleRetire \/ ScheduleStart \/ TickPublish \/ LoopStop
    PROVE  \/ Unseen
           \/ \E r \in Runs : Retired(r) \/ Started(r)
           \/ \E gone \in SUBSET Runs : Evicted(gone)
<1> USE DEF pipeVars, callerVars
<1>0. runs \in [Runs -> Entry] /\ TypeOK /\ phase \in [Runs -> Phases]
  BY DEF IndInv, TypeInv, TypeOK
<1>1. CASE \E S \in SUBSET FinishedRuns : TickEvict(S)
  <2>1. PICK S \in SUBSET FinishedRuns : TickEvict(S)
    BY <1>1
  <2>2. S \in SUBSET Runs /\ \A s \in S : IsFinilised(runs[s].status)
    BY DEF FinishedRuns, IndInv, TableShape
  <2>3. Evicted(S)
    BY <2>1, <2>2 DEF TickEvict, Evicted
  <2>4. QED
    BY <2>2, <2>3
<1>2. CASE ScheduleSkip
  <2>1. ~Waiting(Head(tickets))
    BY <1>2 DEF ScheduleSkip, Waiting, Known, IsFinilised, Terminal
  <2>2. QED
    BY <1>2, <2>1
    DEF ScheduleSkip, MoreToSchedule, Unseen, TakesNoStage, Shown, Popped
<1>3. CASE TickPublish \/ LoopStop
  BY <1>3 DEF TickPublish, LoopStop, Unseen, TakesNoStage, Shown, Popped
<1>4. CASE ScheduleRetire \/ ScheduleStart
  <2>1. tickets # <<>> /\ tickets' = Tail(tickets) /\ UNCHANGED inbox
    BY <1>4 DEF ScheduleRetire, ScheduleStart, MoreToSchedule
  <2>2. PICK r \in Runs : r = Head(tickets) /\ phase[r] = "none" /\ ~runs[r].started
    BY <2>1, FirstTicket
  <2>3. Known(r) /\ ~IsFinilised(runs[r].status)
    BY <1>4, <2>2 DEF ScheduleRetire, ScheduleStart
  <2>4. Waiting(r) /\ runs[r] \in Entry /\ runs[r].started = FALSE
    BY <2>2, <2>3, WaitingEntry DEF Entry
  <2>5. CASE ScheduleRetire
    <3>1. Done(r, "error", TRUE) /\ UNCHANGED phase
      BY <2>2, <2>5 DEF ScheduleRetire
    <3>2. /\ Shown(r)' = <<DoneStatus("error", TRUE), runs[r].attempt, runs[r].started>>
          /\ OthersKept(r)
      BY <3>1, DoneShows DEF Outcomes
    <3>3. Retired(r)
      BY <2>1, <2>2, <2>4, <3>1, <3>2 DEF Retired, DoneStatus, TakesNoStage, Popped
    <3>4. QED
      BY <3>3
  <2>6. CASE ScheduleStart
    <3>1. /\ runs' = [runs EXCEPT ![r] = [runs[r] EXCEPT !.status = "started",
                                                         !.started = TRUE]]
          /\ phase' = [phase EXCEPT ![r] = "starting"]
          /\ ActiveCount < MaxContainers
      BY <2>2, <2>6 DEF ScheduleStart, Change, MoreToSchedule
    <3>2. Shown(r)' = <<"started", runs[r].attempt, TRUE>> /\ OthersKept(r)
      BY <1>0, <2>4, <3>1 DEF Shown, OthersKept, Entry
    <3>3. Started(r)
      BY <2>1, <2>2, <2>4, <3>1, <3>2 DEF Started
    <3>4. QED
      BY <3>3
  <2>7. QED
    BY <1>4, <2>5, <2>6
<1>5. QED
  BY <1>1, <1>2, <1>3, <1>4

LEMMA KindOfLoop ==
    ASSUME IndInv, LoopNext
    PROVE  /\ UNCHANGED <<try, pushed, report>>
           /\ \/ Unseen
              \/ \E r \in Runs : \/ Added(r) \/ Retired(r) \/ Started(r)
                                 \/ Staged(r) \/ Finished(r)
              \/ \E gone \in SUBSET Runs : Evicted(gone)
<1>1. UNCHANGED <<try, pushed, report>>
  BY DEF LoopNext, Handle, HandleAdd, HandleCancel, HandleStage, HandleActivity,
         HandleSummary, HandleDone, TickEvict, ScheduleSkip, ScheduleRetire,
         ScheduleStart, TickPublish, LoopStop, pipeVars
<1>2. QED
  BY <1>1, KindOfReport, KindOfCall, KindOfTick DEF LoopNext, Handle

-----------------------------------------------------------------------------
(* OutcomeInv is inductive.  What an ended goroutine did does not change,   *)
(* so neither does the truth of what was said about it.                     *)

Settled == \A s \in Runs : phase[s] = "ended" =>
               (s \in pushed' <=> s \in pushed) /\ try'[s] = try[s]

LEMMA DoneTrueKept ==
    ASSUME IndInv, OutcomeInv, Settled,
           \/ Popped(inbox, inbox')
           \/ \E ev \in Events :
                /\ inbox' = Append(inbox, ev)
                /\ ev.type = "done" => OutcomeTrue(ev.run, ev.outcome)'
    PROVE  DoneTrue'
<1>1. inbox \in Seq(Events) /\ TypeOK
  BY DEF IndInv, TypeInv, TypeOK
<1>2. ASSUME NEW i \in 1 .. Len(inbox), inbox[i].type = "done",
             NEW s \in Runs, s = inbox[i].run, NEW o, o = inbox[i].outcome
      PROVE  /\ o = "accepted" => s \in pushed'
             /\ o = "rejected" => s \notin pushed' /\ try'[s] = RetriesMax
  <2>1. phase[s] = "ended" /\ OutcomeTrue(s, o)
    BY <1>2 DEF IndInv, DoneIsLast, OutcomeInv, DoneTrue
  <2>2. QED
    BY <2>1 DEF Settled, OutcomeTrue
<1>3. SUFFICES ASSUME NEW i \in 1 .. Len(inbox'), inbox'[i].type = "done",
                      NEW s, s = inbox'[i].run, NEW o, o = inbox'[i].outcome
               PROVE  /\ o = "accepted" => s \in pushed'
                      /\ o = "rejected" => s \notin pushed' /\ try'[s] = RetriesMax
  BY DEF DoneTrue, OutcomeTrue
<1>4. CASE Popped(inbox, inbox')
  <2>1. PICK k \in {0, 1} :
          \A j \in 1 .. Len(inbox') :
            j + k \in 1 .. Len(inbox) /\ inbox'[j] = inbox[j + k]
    BY <1>1, <1>4, PoppedShift
  <2>2. i + k \in 1 .. Len(inbox) /\ inbox'[i] = inbox[i + k]
    BY <2>1
  <2>3. s \in Runs
    BY <1>1, <1>3, <2>2, InboxAt
  <2>4. QED
    BY <1>2, <1>3, <2>2, <2>3
<1>5. CASE \E ev \in Events :
             /\ inbox' = Append(inbox, ev)
             /\ ev.type = "done" => OutcomeTrue(ev.run, ev.outcome)'
  <2>1. PICK ev \in Events :
          /\ inbox' = Append(inbox, ev)
          /\ ev.type = "done" => OutcomeTrue(ev.run, ev.outcome)'
    BY <1>5
  <2>2. /\ Len(inbox') = Len(inbox) + 1 /\ Len(inbox) \in Nat
        /\ \A j \in 1 .. Len(inbox) : inbox'[j] = inbox[j]
        /\ inbox'[Len(inbox) + 1] = ev
    BY <1>1, <2>1, AppendedAt
  <2>3. CASE i \in 1 .. Len(inbox)
    <3>1. inbox'[i] = inbox[i] /\ s \in Runs
      BY <1>1, <1>3, <2>2, <2>3, InboxAt
    <3>2. QED
      BY <1>2, <1>3, <2>3, <3>1
  <2>4. CASE i = Len(inbox) + 1
    BY <1>3, <2>1, <2>2, <2>4 DEF OutcomeTrue
  <2>5. QED
    BY <2>2, <2>3, <2>4
<1>6. QED
  BY <1>4, <1>5

\* A step of the goroutine of run r.
LEMMA OutcomePipe ==
    ASSUME IndInv, OutcomeInv, NEW r \in Runs, Executing(r), UNCHANGED runs,
           \A s \in Runs : s # r =>
             /\ phase'[s] = phase[s] /\ try'[s] = try[s] /\ report'[s] = report[s]
             /\ s \in pushed' <=> s \in pushed,
           phase'[r] = "pushed" => r \in pushed',
           r \in pushed' => phase'[r] \in {"pushed", "reporting", "ended"},
           NEW outcome,
           phase'[r] = "reporting" =>
             report'[r].outcome = outcome /\ OutcomeTrue(r, outcome)',
           \/ Popped(inbox, inbox')
           \/ \E ev \in Events :
                /\ inbox' = Append(inbox, ev)
                /\ ev.type = "done" => OutcomeTrue(ev.run, ev.outcome)'
    PROVE  OutcomeInv'
<1>1. phase[r] # "ended" /\ ~IsFinilised(runs[r].status)
  BY DEF Executing, IndInv, ExecLive, Active
<1>2. Settled /\ DoneTrue'
  <2>1. Settled
    BY <1>1 DEF Settled
  <2>2. QED
    BY <2>1, DoneTrueKept
<1>3. PushedOnce'
  BY DEF OutcomeInv, PushedOnce
<1>4. ReportsTrue'
  BY DEF OutcomeInv, ReportsTrue, OutcomeTrue
<1>5. EndingsTrue'
  BY <1>1 DEF OutcomeInv, EndingsTrue, OutcomeTrue, IsFinilised, Terminal
<1>6. QED
  BY <1>2, <1>3, <1>4, <1>5 DEF OutcomeInv

\* A step of the loop.
LEMMA OutcomeLoop ==
    ASSUME IndInv, OutcomeInv, UNCHANGED <<try, pushed, report>>,
           Popped(inbox, inbox'),
           \A s \in Runs : \/ phase'[s] = phase[s]
                           \/ phase[s] = "none" /\ phase'[s] = "starting",
           \A s \in Runs :
             /\ runs'[s].status = "succeeded" =>
                  \/ runs[s].status = "succeeded"
                  \/ phase[s] = "ended" /\ s \in pushed
             /\ runs'[s].status = "rejected" =>
                  \/ runs[s].status = "rejected"
                  \/ phase[s] = "ended" /\ s \notin pushed /\ try[s] = RetriesMax
    PROVE  OutcomeInv'
<1>1. DoneTrue'
  BY DoneTrueKept DEF Settled
<1>2. PushedOnce'
  BY DEF OutcomeInv, PushedOnce
<1>3. ReportsTrue'
  BY DEF OutcomeInv, ReportsTrue, OutcomeTrue
<1>4. EndingsTrue'
  BY DEF OutcomeInv, EndingsTrue, OutcomeTrue
<1>5. QED
  BY <1>1, <1>2, <1>3, <1>4 DEF OutcomeInv

LEMMA OutcomeCaller == IndInv /\ OutcomeInv /\ CallerNext => OutcomeInv'
<1> SUFFICES ASSUME IndInv, OutcomeInv, CallerNext PROVE OutcomeInv'
  OBVIOUS
<1>1. UNCHANGED <<runs, phase, try, pushed, report>>
  BY DEF CallerNext, AddSend, AddStopped, CancelSend, CancelLeft, loopVars, pipeVars
<1>2. inbox' = inbox \/ \E ev \in Events : inbox' = Append(inbox, ev) /\ ev.type # "done"
  <2>1. \A r \in Runs : [type |-> "add", run |-> r] \in Events
    BY EventTypes DEF AddEvents
  <2>2. \A c \in CancelCalls : [type |-> "cancel", run |-> target[c], call |-> c] \in Events
    BY EventTypes DEF CancelEvents, IndInv, TypeInv, TypeOK
  <2>3. QED
    BY <2>1, <2>2 DEF CallerNext, AddSend, AddStopped, CancelSend, CancelLeft
<1>3. DoneTrue'
  BY <1>1, <1>2, DoneTrueKept DEF Settled, Popped
<1>4. QED
  BY <1>1, <1>3
  DEF OutcomeInv, PushedOnce, ReportsTrue, EndingsTrue, OutcomeTrue

LEMMA OutcomePipeline == IndInv /\ OutcomeInv /\ PipelineNext => OutcomeInv'
<1> SUFFICES ASSUME IndInv, OutcomeInv, NEW r \in Runs,
                    \/ BeginPlanner(r) \/ BeginExecutor(r) \/ BeginReviewer(r)
                    \/ EndPlanner(r) \/ EndReviewer(r) \/ ReportActivity(r)
                    \/ PushBranch(r) \/ RunnerReturn(r) \/ SendDone(r)
             PROVE  OutcomeInv'
  BY DEF PipelineNext
<1> USE DEF loopVars, pipeVars
<1>0. /\ phase \in [Runs -> Phases] /\ try \in [Runs -> 0 .. RetriesMax]
      /\ report \in [Runs -> DoneEvents \cup {NoReport}] /\ TypeInv
  BY DEF IndInv, TypeInv, TypeOK
<1>1. phase[r] = "pushed" => r \in pushed
  BY DEF OutcomeInv, PushedOnce
<1>2. r \in pushed => phase[r] \in {"pushed", "reporting", "ended"}
  BY DEF OutcomeInv, PushedOnce
<1>3. CASE BeginPlanner(r) \/ BeginExecutor(r) \/ BeginReviewer(r)
  <2>1. PICK stage \in Stages, attempt \in 0 .. RetriesMax :
          BeginStage(r, stage, attempt)
    <3>1. RetriesMax \in Nat \ {0} /\ try[r] \in 0 .. RetriesMax
      BY <1>0, RunQueueAssumption
    <3>2. phase[r] = "planned" => try[r] = 0
      BY DEF IndInv, TypeInv, FirstAttempt
    <3>3. BeginExecutor(r) => try[r] + 1 \in 0 .. RetriesMax
      BY <3>1, <3>2 DEF BeginExecutor
    <3>4. QED
      BY <1>3, <3>1, <3>3 DEF BeginPlanner, BeginExecutor, BeginReviewer, Stages
  <2>2. phase[r] \in {"starting", "planned", "declined", "executor"} /\ Executing(r)
    BY <1>3 DEF BeginPlanner, BeginExecutor, BeginReviewer, Executing
  <2>3. [type |-> "stage", run |-> r, stage |-> stage, attempt |-> attempt] \in Events
    BY EventTypes DEF StageEvents
  <2>4. /\ phase'[r] \notin {"pushed", "reporting"}
        /\ \A s \in Runs : s # r => phase'[s] = phase[s] /\ try'[s] = try[s]
        /\ UNCHANGED <<runs, pushed, report>>
    BY <1>0, <2>1 DEF BeginStage, Stages
  <2>5. \/ Popped(inbox, inbox')
        \/ \E ev \in Events : inbox' = Append(inbox, ev) /\ ev.type # "done"
    BY <2>1, <2>3 DEF BeginStage, SendOrAbandon, Popped
  <2>6. QED
    BY <1>2, <2>2, <2>4, <2>5, OutcomePipe
<1>4. CASE EndPlanner(r) \/ EndReviewer(r)
  <2>1. PICK text \in {"plan", "review"}, next \in {"planned", "accepted", "declined"} :
          EndStage(r, text, next)
    BY <1>4 DEF EndPlanner, EndReviewer
  <2>2. phase[r] \in {"planner", "reviewer"} /\ Executing(r)
    BY <1>4 DEF EndPlanner, EndReviewer, Executing
  <2>3. [type |-> "summary", run |-> r, text |-> text] \in Events
    BY EventTypes DEF SummaryEvents
  <2>4. /\ phase'[r] \notin {"pushed", "reporting"}
        /\ \A s \in Runs : s # r => phase'[s] = phase[s]
        /\ UNCHANGED <<runs, try, pushed, report>>
    BY <1>0, <2>1 DEF EndStage
  <2>5. \/ Popped(inbox, inbox')
        \/ \E ev \in Events : inbox' = Append(inbox, ev) /\ ev.type # "done"
    BY <2>1, <2>3 DEF EndStage, SendOrAbandon, Popped
  <2>6. QED
    BY <1>2, <2>2, <2>4, <2>5, OutcomePipe
<1>5. CASE ReportActivity(r)
  <2>1. \A text \in Activities : [type |-> "activity", run |-> r, text |-> text] \in Events
    BY EventTypes DEF ActivityEvents
  <2>2. \E ev \in Events : inbox' = Append(inbox, ev) /\ ev.type # "done"
    BY <1>5, <2>1 DEF ReportActivity
  <2>3. Executing(r) /\ phase[r] \notin {"pushed", "reporting"} /\ UNCHANGED <<runs, pipeVars>>
    BY <1>5 DEF ReportActivity, Executing, Stages
  <2>4. QED
    BY <1>2, <2>2, <2>3, OutcomePipe
<1>6. CASE PushBranch(r)
  <2>1. /\ phase[r] = "accepted" /\ phase'[r] = "pushed" /\ pushed' = pushed \cup {r}
        /\ \A s \in Runs : s # r => phase'[s] = phase[s]
        /\ UNCHANGED <<runs, inbox, try, report>>
    BY <1>0, <1>6 DEF PushBranch
  <2>2. QED
    BY <2>1, OutcomePipe DEF Executing, Popped
<1>7. CASE RunnerReturn(r)
  <2>1. PICK outcome \in Outcomes :
          /\ MayReturn(r, outcome)
          /\ report' = [report EXCEPT ![r] =
                          [type |-> "done", run |-> r, outcome |-> outcome,
                           cancelled |-> CtxErr(r)]]
    BY <1>7 DEF RunnerReturn
  <2>2. /\ phase'[r] = "reporting" /\ report'[r].outcome = outcome
        /\ \A s \in Runs : s # r => phase'[s] = phase[s] /\ report'[s] = report[s]
        /\ UNCHANGED <<runs, inbox, try, pushed>>
    BY <1>0, <1>7, <2>1 DEF RunnerReturn
  <2>3. Executing(r) /\ OutcomeTrue(r, outcome)'
    BY <1>1, <1>2, <2>1, <2>2 DEF MayReturn, Working, Executing, OutcomeTrue
  <2>4. QED
    BY <2>2, <2>3, OutcomePipe DEF Popped
<1>8. CASE SendDone(r)
  <2>1. report[r] \in DoneEvents /\ report[r].run = r /\ report[r] \in Events
    BY <1>0, <1>8, EventTypes DEF SendDone, TypeInv, ReportReady
  <2>2. PICK ev \in Events : ev = report[r]
    BY <2>1
  <2>3. OutcomeTrue(r, ev.outcome) /\ ev.run = r
    BY <1>8, <2>1, <2>2 DEF SendDone, OutcomeInv, ReportsTrue
  <2>4. /\ phase[r] = "reporting" /\ phase'[r] = "ended"
        /\ \A s \in Runs : s # r => phase'[s] = phase[s] /\ report'[s] = report[s]
        /\ UNCHANGED <<runs, try, pushed>>
    BY <1>0, <1>8 DEF SendDone
  <2>5. OutcomeTrue(ev.run, ev.outcome)'
    BY <2>3, <2>4 DEF OutcomeTrue
  <2>6. inbox' = Append(inbox, ev) \/ inbox' = inbox
    BY <1>8, <2>2 DEF SendDone, SendOrAbandon
  <2>7. QED
    BY <2>4, <2>5, <2>6, OutcomePipe DEF Executing, Popped
<1>9. QED
  BY <1>3, <1>4, <1>5, <1>6, <1>7, <1>8

LEMMA OutcomeLoopNext == IndInv /\ OutcomeInv /\ LoopNext => OutcomeInv'
<1> SUFFICES ASSUME IndInv, OutcomeInv, LoopNext PROVE OutcomeInv'
  OBVIOUS
<1>0. UNCHANGED <<try, pushed, report>> /\ phase \in [Runs -> Phases]
  BY KindOfLoop DEF IndInv, TypeInv, TypeOK
<1>1. CASE Unseen
  BY <1>0, <1>1, OutcomeLoop DEF Unseen, TakesNoStage, Shown
<1>2. CASE \E r \in Runs : Added(r) \/ Retired(r) \/ Started(r)
  <2>1. PICK r \in Runs : Added(r) \/ Retired(r) \/ Started(r)
    BY <1>2
  <2>2. runs'[r].status \notin {"succeeded", "rejected"}
    BY <2>1, QueuedEntry DEF Added, Retired, Started, Shown
  <2>3. \A s \in Runs : s # r => runs'[s] = runs[s]
    BY <2>1 DEF Added, Retired, Started, OthersKept
  <2>4. Popped(inbox, inbox')
    BY <2>1 DEF Added, Retired, Started, TakesNoStage, Popped
  <2>5. \A s \in Runs : \/ phase'[s] = phase[s]
                        \/ phase[s] = "none" /\ phase'[s] = "starting"
    BY <1>0, <2>1 DEF Added, Retired, Started
  <2>6. QED
    BY <1>0, <2>2, <2>3, <2>4, <2>5, OutcomeLoop
<1>3. CASE \E r \in Runs : Staged(r)
  <2>1. PICK r \in Runs : Staged(r)
    BY <1>3
  <2>2. Head(inbox).stage \in Stages
    BY <2>1 DEF Staged, Takes, Events, AddEvents, CancelEvents, StageEvents,
                ActivityEvents, SummaryEvents, DoneEvents
  <2>3. runs'[r].status \notin {"succeeded", "rejected"}
    BY <2>1, <2>2 DEF Staged, Shown, StatusForStage, Stages
  <2>4. /\ \A s \in Runs : s # r => runs'[s] = runs[s]
        /\ Popped(inbox, inbox') /\ UNCHANGED phase
    BY <2>1 DEF Staged, Takes, OthersKept, Popped
  <2>5. QED
    BY <1>0, <2>3, <2>4, OutcomeLoop
<1>4. CASE \E r \in Runs : Finished(r)
  <2>1. PICK r \in Runs : Finished(r)
    BY <1>4
  <2>2. /\ Head(inbox).type = "done" /\ Head(inbox).run = r /\ inbox # <<>>
        /\ Head(inbox) \in Events /\ phase[r] = "ended"
    BY <2>1 DEF Finished, Takes
  <2>3. Head(inbox) = inbox[1] /\ 1 \in 1 .. Len(inbox)
    BY <2>2 DEF IndInv, TypeInv, TypeOK
  <2>4. PICK o : o = Head(inbox).outcome
    OBVIOUS
  <2>5. OutcomeTrue(r, o)
    BY <2>2, <2>3, <2>4 DEF OutcomeInv, DoneTrue
  <2>6. o \in Outcomes /\ Head(inbox).cancelled \in BOOLEAN
    BY <2>2, <2>4 DEF Events, AddEvents, CancelEvents, StageEvents,
                      ActivityEvents, SummaryEvents, DoneEvents
  <2>7. runs'[r].status = DoneStatus(o, Head(inbox).cancelled)
    BY <2>1, <2>4 DEF Finished, Shown
  <2>8. /\ runs'[r].status = "succeeded" => o = "accepted"
        /\ runs'[r].status = "rejected" => o = "rejected"
    BY <2>6, <2>7 DEF DoneStatus, Outcomes
  <2>9. /\ \A s \in Runs : s # r => runs'[s] = runs[s]
        /\ Popped(inbox, inbox') /\ UNCHANGED phase
    BY <2>1 DEF Finished, Takes, OthersKept, Popped
  <2>10. \A s \in Runs :
           /\ runs'[s].status = "succeeded" =>
                \/ runs[s].status = "succeeded"
                \/ phase[s] = "ended" /\ s \in pushed
           /\ runs'[s].status = "rejected" =>
                \/ runs[s].status = "rejected"
                \/ phase[s] = "ended" /\ s \notin pushed /\ try[s] = RetriesMax
    BY <2>2, <2>5, <2>8, <2>9 DEF OutcomeTrue
  <2>11. QED
    BY <1>0, <2>9, <2>10, OutcomeLoop
<1>5. CASE \E gone \in SUBSET Runs : Evicted(gone)
  <2>1. PICK gone \in SUBSET Runs : Evicted(gone)
    BY <1>5
  <2>2. \A s \in Runs : runs'[s].status = runs[s].status \/ runs'[s].status = "none"
    BY <2>1, AbsentEntry DEF Evicted
  <2>3. Popped(inbox, inbox') /\ UNCHANGED phase
    BY <2>1 DEF Evicted, Popped
  <2>4. \A s \in Runs :
          /\ runs'[s].status = "succeeded" => runs[s].status = "succeeded"
          /\ runs'[s].status = "rejected"  => runs[s].status = "rejected"
    BY <2>2
  <2>5. QED
    BY <1>0, <2>3, <2>4, OutcomeLoop
<1>6. QED
  BY <1>1, <1>2, <1>3, <1>4, <1>5, KindOfLoop

LEMMA OutcomeInit == Init => OutcomeInv
<1> SUFFICES ASSUME Init PROVE OutcomeInv
  OBVIOUS
<1>1. \A r \in Runs : runs[r] = Absent /\ phase[r] = "none" /\ r \notin pushed
  BY DEF Init
<1>2. inbox = <<>> /\ Len(inbox) = 0
  BY DEF Init
<1>3. DoneTrue
  BY <1>2 DEF DoneTrue
<1>4. QED
  BY <1>1, <1>3, AbsentEntry DEF OutcomeInv, PushedOnce, ReportsTrue, EndingsTrue

LEMMA OutcomeStep == IndInv /\ OutcomeInv /\ [Next]_vars => OutcomeInv'
<1> SUFFICES ASSUME IndInv, OutcomeInv, [Next]_vars PROVE OutcomeInv'
  OBVIOUS
<1>1. CASE UNCHANGED vars \/ Shutdown
  <2>1. UNCHANGED <<runs, inbox, phase, try, pushed, report>>
    BY <1>1 DEF vars, Shutdown, loopVars, pipeVars
  <2>2. QED
    BY <2>1
    DEF OutcomeInv, PushedOnce, ReportsTrue, DoneTrue, EndingsTrue, OutcomeTrue
<1>2. QED
  BY <1>1, OutcomeCaller, OutcomePipeline, OutcomeLoopNext DEF Next, Terminated

\* Success in the table means the branch is on the remote, rejection that every
\* round was used and nothing was pushed, whenever the done event is handled, and
\* a run that was not admitted never executes.
THEOREM OutcomesTrue == Spec => []OutcomeMatchesPipeline
<1>1. Init => IndInv /\ OutcomeInv
  BY IndInit, OutcomeInit
<1>2. IndInv /\ OutcomeInv /\ [Next]_vars => (IndInv /\ OutcomeInv)'
  BY IndStep, OutcomeStep
<1>3. IndInv /\ OutcomeInv => OutcomeMatchesPipeline
  BY DEF IndInv, WaitingIdle, OutcomeInv, EndingsTrue, OutcomeTrue, OutcomeMatchesPipeline
<1>4. QED
  BY <1>1, <1>2, <1>3, PTL DEF Spec

-----------------------------------------------------------------------------
(* CourseInv is inductive.                                                  *)

\* What an append and a pop do to the stages under way.
LEMMA UnderwaySent ==
    ASSUME IndInv, NEW r \in Runs, NEW ev, inbox' = Append(inbox, ev)
    PROVE  /\ IsStage(ev, r) => Underway(r)' = Underway(r) \cup {Rank(ev.stage, ev.attempt)}
           /\ ~IsStage(ev, r) => Underway(r)' = Underway(r)
<1>1. /\ Len(inbox') = Len(inbox) + 1 /\ Len(inbox) \in Nat
      /\ \A i \in 1 .. Len(inbox) : inbox'[i] = inbox[i]
      /\ inbox'[Len(inbox) + 1] = ev
  BY AppendedAt DEF IndInv, TypeInv
<1>2. \A i : i \in 1 .. Len(inbox') <=> i \in 1 .. Len(inbox) \/ i = Len(inbox) + 1
  BY <1>1
<1>3. \A e : e \in Underway(r)' <=>
               \E i \in 1 .. Len(inbox') : /\ IsStage(inbox'[i], r)
                                          /\ e = Rank(inbox'[i].stage, inbox'[i].attempt)
  BY DEF Underway
<1>4. \A e : e \in Underway(r) <=>
               \E i \in 1 .. Len(inbox) : /\ IsStage(inbox[i], r)
                                         /\ e = Rank(inbox[i].stage, inbox[i].attempt)
  BY DEF Underway
<1>5. \A e : e \in Underway(r)' <=>
               e \in Underway(r) \/ (IsStage(ev, r) /\ e = Rank(ev.stage, ev.attempt))
  BY <1>1, <1>2, <1>3, <1>4
<1>6. QED
  BY <1>5

LEMMA UnderwayTaken ==
    ASSUME IndInv, NEW r \in Runs, inbox # <<>>, inbox' = Tail(inbox),
           NEW ev, ev = Head(inbox)
    PROVE  /\ ~IsStage(ev, r) => Underway(r)' = Underway(r)
           /\ IsStage(ev, r) =>
                Underway(r) = Underway(r)' \cup {Rank(ev.stage, ev.attempt)}
           /\ IsStage(ev, r) /\ StagesOrdered =>
                \A e \in Underway(r)' : Rank(ev.stage, ev.attempt) < e
<1>1. /\ Len(inbox') = Len(inbox) - 1 /\ Len(inbox) \in Nat \ {0}
      /\ \A i \in 1 .. Len(inbox') :
           inbox'[i] = inbox[i + 1] /\ i + 1 \in 1 .. Len(inbox)
      /\ ev = inbox[1]
  BY PoppedAt DEF IndInv, TypeInv
<1>2. \A i \in 1 .. Len(inbox) :
        i = 1 \/ (i - 1 \in 1 .. Len(inbox') /\ inbox[i] = inbox'[i - 1])
  BY <1>1
<1>3. \A e : e \in Underway(r)' <=>
               \E i \in 1 .. Len(inbox') : /\ IsStage(inbox'[i], r)
                                          /\ e = Rank(inbox'[i].stage, inbox'[i].attempt)
  BY DEF Underway
<1>4. \A e : e \in Underway(r) <=>
               \E i \in 1 .. Len(inbox) : /\ IsStage(inbox[i], r)
                                         /\ e = Rank(inbox[i].stage, inbox[i].attempt)
  BY DEF Underway
<1>5. \A e \in Underway(r)' : e \in Underway(r)
  BY <1>1, <1>3, <1>4
<1>6. \A e \in Underway(r) :
        e \in Underway(r)' \/ (IsStage(ev, r) /\ e = Rank(ev.stage, ev.attempt))
  <2> SUFFICES ASSUME NEW e \in Underway(r)
               PROVE  e \in Underway(r)' \/ (IsStage(ev, r) /\ e = Rank(ev.stage, ev.attempt))
    OBVIOUS
  <2>1. PICK i \in 1 .. Len(inbox) : /\ IsStage(inbox[i], r)
                                     /\ e = Rank(inbox[i].stage, inbox[i].attempt)
    BY <1>4
  <2>2. CASE i = 1
    BY <1>1, <2>1, <2>2
  <2>3. CASE i - 1 \in 1 .. Len(inbox') /\ inbox[i] = inbox'[i - 1]
    BY <1>3, <2>1, <2>3
  <2>4. QED
    BY <1>2, <2>2, <2>3
<1>7. IsStage(ev, r) => Rank(ev.stage, ev.attempt) \in Underway(r)
  <2>1. 1 \in 1 .. Len(inbox)
    BY <1>1
  <2>2. QED
    BY <1>1, <1>4, <2>1
<1>8. ASSUME IsStage(ev, r), StagesOrdered, NEW e \in Underway(r)'
      PROVE  Rank(ev.stage, ev.attempt) < e
  <2>1. PICK i \in 1 .. Len(inbox') : /\ IsStage(inbox'[i], r)
                                      /\ e = Rank(inbox'[i].stage, inbox'[i].attempt)
    BY <1>3, <1>8
  <2>2. inbox'[i] = inbox[i + 1] /\ i + 1 \in 1 .. Len(inbox) /\ 1 < i + 1
        /\ 1 \in 1 .. Len(inbox)
    BY <1>1
  <2>3. QED
    BY <1>1, <1>8, <2>1, <2>2 DEF StagesOrdered
<1>9. QED
  BY <1>5, <1>6, <1>7, <1>8

\* The order and the counts of the stage events.
LEMMA StagesPopped ==
    ASSUME IndInv, StagesOrdered, StagesCounted, Popped(inbox, inbox')
    PROVE  StagesOrdered' /\ StagesCounted'
<1>1. inbox \in Seq(Events)
  BY DEF IndInv, TypeInv, TypeOK
<1>2. PICK k \in {0, 1} :
        /\ Len(inbox') \in Nat
        /\ \A i \in 1 .. Len(inbox') :
             i + k \in 1 .. Len(inbox) /\ inbox'[i] = inbox[i + k]
  BY <1>1, PoppedShift
<1>3. StagesCounted'
  BY <1>2 DEF StagesCounted
<1>4. ASSUME NEW i \in 1 .. Len(inbox'), NEW j \in 1 .. Len(inbox'), NEW r \in Runs,
             i < j, IsStage(inbox'[i], r), IsStage(inbox'[j], r)
      PROVE  Rank(inbox'[i].stage, inbox'[i].attempt) < Rank(inbox'[j].stage, inbox'[j].attempt)
  <2>1. /\ i + k \in 1 .. Len(inbox) /\ inbox'[i] = inbox[i + k]
        /\ j + k \in 1 .. Len(inbox) /\ inbox'[j] = inbox[j + k]
        /\ i + k < j + k
    BY <1>2, <1>4
  <2>2. QED
    BY <1>4, <2>1 DEF StagesOrdered
<1>5. StagesOrdered'
  BY <1>4 DEF StagesOrdered
<1>6. QED
  BY <1>3, <1>5

LEMMA StagesSent ==
    ASSUME IndInv, StagesOrdered, StagesCounted, NEW ev, inbox' = Append(inbox, ev),
           Counted(ev),
           \A r \in Runs : IsStage(ev, r) =>
             \A e \in Underway(r) : e < Rank(ev.stage, ev.attempt)
    PROVE  StagesOrdered' /\ StagesCounted'
<1>1. /\ Len(inbox') = Len(inbox) + 1 /\ Len(inbox) \in Nat
      /\ \A i \in 1 .. Len(inbox) : inbox'[i] = inbox[i]
      /\ inbox'[Len(inbox) + 1] = ev
  BY AppendedAt DEF IndInv, TypeInv
<1>2. \A i \in 1 .. Len(inbox') : i \in 1 .. Len(inbox) \/ i = Len(inbox) + 1
  BY <1>1
<1>3. StagesCounted'
  BY <1>1, <1>2 DEF StagesCounted
<1>4. ASSUME NEW i \in 1 .. Len(inbox'), NEW j \in 1 .. Len(inbox'), NEW r \in Runs,
             i < j, IsStage(inbox'[i], r), IsStage(inbox'[j], r)
      PROVE  Rank(inbox'[i].stage, inbox'[i].attempt) < Rank(inbox'[j].stage, inbox'[j].attempt)
  <2>1. i \in 1 .. Len(inbox) /\ inbox'[i] = inbox[i]
    BY <1>1, <1>2, <1>4
  <2>2. CASE j \in 1 .. Len(inbox)
    BY <1>1, <1>4, <2>1, <2>2 DEF StagesOrdered
  <2>3. CASE j = Len(inbox) + 1
    <3>1. Rank(inbox[i].stage, inbox[i].attempt) \in Underway(r)
      BY <1>4, <2>1 DEF Underway
    <3>2. QED
      BY <1>1, <1>4, <2>1, <2>3, <3>1
  <2>4. QED
    BY <1>2, <2>2, <2>3
<1>5. StagesOrdered'
  BY <1>4 DEF StagesOrdered
<1>6. QED
  BY <1>3, <1>5

\* A goroutine that is still there has no done event in the inbox.
LEMMA NoDoneYet ==
    ASSUME IndInv, NEW r \in Runs, phase[r] # "ended"
    PROVE  \A i \in 1 .. Len(inbox) : inbox[i].type = "done" => inbox[i].run # r
BY DEF IndInv, DoneIsLast

LEMMA PlacedPopped ==
    ASSUME IndInv, NEW r \in Runs, Popped(inbox, inbox'),
           phase'[r] = phase[r], report'[r] = report[r], Placed(r)'
    PROVE  Placed(r)
<1>1. inbox \in Seq(Events)
  BY DEF IndInv, TypeInv, TypeOK
<1>2. PICK k \in {0, 1} :
        \A i \in 1 .. Len(inbox') :
          i + k \in 1 .. Len(inbox) /\ inbox'[i] = inbox[i + k]
  BY <1>1, PoppedShift
<1>3. CASE \E i \in 1 .. Len(inbox') :
             inbox'[i].type = "done" /\ inbox'[i].run = r /\ inbox'[i].outcome # "error"
  BY <1>2, <1>3 DEF Placed
<1>4. QED
  BY <1>3 DEF Placed

LEMMA PlacedSent ==
    ASSUME IndInv, NEW r \in Runs, NEW ev,
           inbox' = inbox \/ inbox' = Append(inbox, ev),
           Placed(r)'
    PROVE  \/ phase'[r] \in Stages \cup {"starting", "planned", "accepted", "declined", "pushed"}
           \/ phase'[r] = "reporting" /\ report'[r].outcome # "error"
           \/ \E i \in 1 .. Len(inbox) :
                inbox[i].type = "done" /\ inbox[i].run = r /\ inbox[i].outcome # "error"
           \/ ev.type = "done" /\ ev.run = r /\ ev.outcome # "error" /\ inbox' = Append(inbox, ev)
<1>1. CASE inbox' = inbox
  BY <1>1 DEF Placed
<1>2. CASE inbox' = Append(inbox, ev)
  <2>1. /\ Len(inbox') = Len(inbox) + 1 /\ Len(inbox) \in Nat
        /\ \A i \in 1 .. Len(inbox) : inbox'[i] = inbox[i]
        /\ inbox'[Len(inbox) + 1] = ev
    BY <1>2, AppendedAt DEF IndInv, TypeInv
  <2>2. \A i \in 1 .. Len(inbox') : i \in 1 .. Len(inbox) \/ i = Len(inbox) + 1
    BY <2>1
  <2>3. QED
    BY <1>2, <2>1, <2>2 DEF Placed
<1>3. QED
  BY <1>1, <1>2

LEMMA TableRankType ==
    ASSUME IndInv, NEW r \in Runs, Active(r)
    PROVE  TableRank(r) \in Nat
<1>1. runs[r].status \in Running /\ runs[r].attempt \in 0 .. RetriesMax
  BY ActiveEntry DEF Entry
<1>2. runs[r].attempt \in Nat
  BY <1>1, ConstantTypes
<1>3. QED
  BY <1>1, <1>2 DEF TableRank, Running

\* A run that none of this is about: its entry shows the same, no stage or done
\* event of it is sent or taken, its goroutine stays where it is.
LEMMA CourseApart ==
    ASSUME NEW r \in Runs, CourseOf(r), Shown(r)' = Shown(r), Underway(r)' = Underway(r),
           phase'[r] = phase[r], try'[r] = try[r], Placed(r)' => Placed(r)
    PROVE  CourseOf(r)'
<1>1. /\ runs'[r].status = runs[r].status /\ runs'[r].attempt = runs[r].attempt
      /\ runs'[r].started = runs[r].started
  BY DEF Shown
<1>2. TableRank(r)' = TableRank(r) /\ Place(r)' = Place(r) /\ (Active(r)' <=> Active(r))
  BY <1>1 DEF TableRank, Place, Active
<1>3. \A m : Reaches(r, m)' <=> Reaches(r, m)
  BY <1>2 DEF Reaches
<1>4. QED
  BY <1>2, <1>3 DEF CourseOf

\* The goroutine goes on to place m, and what it sends takes the course that far.
LEMMA CourseGoesOn ==
    ASSUME IndInv, NEW r \in Runs, CourseOf(r), runs'[r] = runs[r],
           Placed(r)' => Placed(r) /\ Reaches(r, Place(r))',
           Placed(r)' /\ phase'[r] \notin {"starting", "planner", "planned"} => try'[r] >= 1,
           \/ Underway(r)' = Underway(r)
           \/ \E m \in Nat : Reaches(r, m) /\ Underway(r)' = Underway(r) \cup {m + 1}
    PROVE  CourseOf(r)'
<1> SUFFICES ASSUME Active(r) PROVE CourseOf(r)'
  BY DEF CourseOf, Active
<1>1. TableRank(r)' = TableRank(r) /\ TableRank(r) \in Nat
  BY TableRankType DEF TableRank
<1>2. \E m \in Nat : Reaches(r, m)'
  <2>1. CASE Underway(r)' = Underway(r)
    BY <1>1, <2>1 DEF CourseOf, Reaches
  <2>2. CASE \E m \in Nat : Reaches(r, m) /\ Underway(r)' = Underway(r) \cup {m + 1}
    <3>1. PICK m \in Nat : Reaches(r, m) /\ Underway(r)' = Underway(r) \cup {m + 1}
      BY <2>2
    <3>2. Reaches(r, m + 1)'
      BY <1>1, <3>1 DEF Reaches
    <3>3. QED
      BY <3>2
  <2>3. QED
    BY <2>1, <2>2
<1>3. QED
  BY <1>2 DEF CourseOf

\* The loop shows the next stage.
LEMMA CourseShown ==
    ASSUME IndInv, CourseInv, NEW r \in Runs, Staged(r), UNCHANGED <<try, report>>
    PROVE  /\ CourseOf(r)'
           /\ TableRank(r)' = TableRank(r) + 1
           /\ TableRank(r)' = Rank(Head(inbox).stage, Head(inbox).attempt)
           /\ Head(inbox).stage = "planner" => runs'[r].attempt = runs[r].attempt
           /\ Head(inbox).stage # "planner" => runs'[r].attempt = Head(inbox).attempt
           /\ Head(inbox).attempt \in Nat /\ Head(inbox).stage \in Stages
           /\ Counted(Head(inbox))
<1>1. PICK ev : ev = Head(inbox)
  OBVIOUS
<1>2. /\ Active(r) /\ inbox # <<>> /\ inbox' = Tail(inbox)
      /\ ev \in Events /\ IsStage(ev, r) /\ UNCHANGED phase
  BY <1>1 DEF Staged, Takes, IsStage
<1>3. ev.stage \in Stages /\ ev.attempt \in 0 .. RetriesMax
  BY <1>2 DEF Events, AddEvents, CancelEvents, StageEvents, ActivityEvents,
              SummaryEvents, DoneEvents, IsStage
<1>4. ev.attempt \in Nat
  BY <1>3, ConstantTypes
<1>5. ev = inbox[1] /\ 1 \in 1 .. Len(inbox)
  BY <1>1, <1>2 DEF IndInv, TypeInv, TypeOK
<1>6. Counted(ev) /\ ev.type = "stage"
  BY <1>2, <1>5 DEF CourseInv, StagesCounted, IsStage
<1>7. /\ runs'[r].status = StatusForStage(ev.stage)
      /\ runs'[r].attempt = IF ev.attempt > 0 THEN ev.attempt ELSE runs[r].attempt
      /\ runs'[r].started = TRUE
  BY <1>1 DEF Staged, Shown
<1>8. /\ ev.stage = "planner" => runs'[r].attempt = runs[r].attempt
      /\ ev.stage # "planner" => runs'[r].attempt = ev.attempt /\ ev.attempt >= 1
  BY <1>4, <1>6, <1>7 DEF Counted
<1> DEFINE n == Rank(ev.stage, ev.attempt)
<1>9. TableRank(r)' = n
  BY <1>3, <1>7, <1>8 DEF TableRank, Rank, StatusForStage, Stages
<1>10. n \in Nat
  BY <1>3, <1>4 DEF Rank, Stages
<1>11. /\ Underway(r) = Underway(r)' \cup {n}
       /\ \A e \in Underway(r)' : n < e
  BY <1>1, <1>2, UnderwayTaken DEF CourseInv
<1>12. TableRank(r) \in Nat
  BY <1>2, TableRankType
<1> HIDE DEF n
<1>13. PICK m \in Nat : Reaches(r, m)
  BY <1>2 DEF CourseInv, CourseOf
<1>14. n = TableRank(r) + 1
  <2>1. n \in (TableRank(r) + 1) .. m
    BY <1>11, <1>13 DEF Reaches
  <2>2. TableRank(r) + 1 \in Underway(r)
    BY <1>10, <1>12, <1>13, <2>1 DEF Reaches
  <2>3. QED
    BY <1>10, <1>11, <1>12, <2>1, <2>2
<1>15. ASSUME NEW k \in Nat, Reaches(r, k) PROVE Reaches(r, k)'
  <2>1. Underway(r)' = Underway(r) \ {n}
    BY <1>10, <1>11
  <2>2. n <= k
    BY <1>10, <1>11, <1>12, <1>15 DEF Reaches
  <2>3. Underway(r)' = (n + 1) .. k
    BY <1>10, <1>12, <1>14, <1>15, <2>1 DEF Reaches
  <2>4. QED
    BY <1>9, <2>2, <2>3 DEF Reaches, n
<1>16. Placed(r)' => Placed(r)
  BY <1>2, PlacedPopped DEF Popped
<1>17. Place(r)' = Place(r) /\ (Placed(r) => Place(r) \in Nat)
  <2>1. try[r] \in Nat
    BY ConstantTypes DEF IndInv, TypeInv, TypeOK
  <2>2. QED
    BY <1>2, <2>1 DEF Place
<1>18. CourseOf(r)'
  BY <1>2, <1>13, <1>15, <1>16, <1>17 DEF CourseInv, CourseOf
<1>19. QED
  BY <1>1, <1>3, <1>4, <1>6, <1>8, <1>9, <1>14, <1>18 DEF n

\* The runs a step of another goroutine or a caller is not about.
LEMMA CourseOthers ==
    ASSUME IndInv, NEW s \in Runs, CourseOf(s), NEW ev,
           inbox' = inbox \/ inbox' = Append(inbox, ev), ~IsStage(ev, s),
           ~(ev.type = "done" /\ ev.run = s),
           runs'[s] = runs[s], phase'[s] = phase[s], try'[s] = try[s],
           report'[s] = report[s]
    PROVE  CourseOf(s)'
<1>1. Underway(s)' = Underway(s)
  <2>1. CASE inbox' = inbox
    BY <2>1 DEF Underway
  <2>2. CASE inbox' = Append(inbox, ev)
    BY <2>2, UnderwaySent
  <2>3. QED
    BY <2>1, <2>2
<1>2. Placed(s)' => Placed(s)
  BY PlacedSent DEF Placed
<1>3. QED
  BY <1>1, <1>2, CourseApart DEF Shown

\* What is left of CourseInv when the table and the tickets stay.
LEMMA TableKept ==
    ASSUME CourseInv, UNCHANGED <<runs, tickets>>
    PROVE  TableCounted' /\ WaitingTicketed'
BY DEF CourseInv, TableCounted, WaitingTicketed, Waiting

LEMMA CourseCaller == IndInv /\ CourseInv /\ CallerNext => CourseInv'
<1> SUFFICES ASSUME IndInv, CourseInv, CallerNext PROVE CourseInv'
  OBVIOUS
<1>1. UNCHANGED <<runs, tickets, phase, try, report>>
  BY DEF CallerNext, AddSend, AddStopped, CancelSend, CancelLeft, loopVars, pipeVars
<1>2. PICK ev : /\ ev.type \in {"add", "cancel"}
                /\ inbox' = inbox \/ inbox' = Append(inbox, ev)
  <2>1. \A r \in Runs : [type |-> "add", run |-> r].type = "add"
    OBVIOUS
  <2>2. \A c \in CancelCalls : [type |-> "cancel", run |-> target[c], call |-> c].type = "cancel"
    OBVIOUS
  <2>3. PICK ev : ev = [type |-> "add"]
    OBVIOUS
  <2>4. CASE inbox' = inbox
    BY <2>3, <2>4
  <2>5. CASE \E r \in Runs : inbox' = Append(inbox, [type |-> "add", run |-> r])
    BY <2>1, <2>5
  <2>6. CASE \E c \in CancelCalls :
               inbox' = Append(inbox, [type |-> "cancel", run |-> target[c], call |-> c])
    BY <2>2, <2>6
  <2>7. QED
    BY <2>4, <2>5, <2>6 DEF CallerNext, AddSend, AddStopped, CancelSend, CancelLeft
<1>3. Counted(ev) /\ \A r \in Runs : ~IsStage(ev, r) /\ ev.type # "done"
  BY <1>2 DEF Counted, IsStage
<1>4. ASSUME NEW s \in Runs PROVE CourseOf(s)'
  BY <1>1, <1>2, <1>3, CourseOthers DEF CourseInv
<1>5. StagesOrdered' /\ StagesCounted'
  <2>1. CASE inbox' = inbox
    BY <2>1, StagesPopped DEF CourseInv, Popped
  <2>2. CASE inbox' = Append(inbox, ev)
    BY <1>3, <2>2, StagesSent DEF CourseInv
  <2>3. QED
    BY <1>2, <2>1, <2>2
<1>6. QED
  BY <1>1, <1>4, <1>5, TableKept DEF CourseInv

\* A stage is begun: its rank is the one after the place its goroutine is at.
LEMMA CourseBegins ==
    ASSUME IndInv, CourseInv, NEW r \in Runs, NEW stage \in Stages,
           NEW attempt \in 0 .. RetriesMax, BeginStage(r, stage, attempt),
           phase[r] \in {"starting", "planned", "declined", "executor"},
           Rank(stage, attempt) = Place(r) + 1,
           stage = "planner" => attempt = 0,
           stage # "planner" => attempt >= 1
    PROVE  CourseInv'
<1> DEFINE ev == [type |-> "stage", run |-> r, stage |-> stage, attempt |-> attempt]
<1>0. phase \in [Runs -> Phases] /\ try \in [Runs -> 0 .. RetriesMax]
  BY DEF IndInv, TypeInv, TypeOK
<1>1. /\ ev.type = "stage" /\ ev.run = r /\ ev.stage = stage /\ ev.attempt = attempt
      /\ IsStage(ev, r) /\ \A s \in Runs : s # r => ~IsStage(ev, s)
      /\ Counted(ev)
  BY DEF IsStage, Counted
<1>2. /\ phase'[r] = IF CtxErr(r) THEN "doomed" ELSE stage
      /\ try'[r] = attempt
      /\ \A s \in Runs : s # r => phase'[s] = phase[s] /\ try'[s] = try[s]
      /\ UNCHANGED <<runs, tickets, report>>
  BY <1>0 DEF BeginStage, loopVars
<1>3. \/ inbox' = Append(inbox, ev)
      \/ CtxErr(r) /\ inbox' = inbox
  BY DEF BeginStage, SendOrAbandon, CtxErr
<1> HIDE DEF ev
<1>4. Active(r) /\ Placed(r)
  BY DEF IndInv, ExecLive, Executing, Placed, Stages
<1>5. Reaches(r, Place(r)) /\ Place(r) \in Nat
  <2>1. try[r] \in Nat
    BY <1>0, ConstantTypes
  <2>2. QED
    BY <1>4, <2>1 DEF CourseInv, CourseOf, Place
<1>6. TableRank(r) \in Nat /\ TableRank(r)' = TableRank(r)
  BY <1>2, <1>4, TableRankType DEF TableRank
<1>7. ASSUME Placed(r)' PROVE phase'[r] = stage /\ inbox' = Append(inbox, ev)
  <2>1. \A i \in 1 .. Len(inbox) : inbox[i].type = "done" => inbox[i].run # r
    BY NoDoneYet
  <2>2. phase'[r] # "doomed"
    <3>1. ev.type # "done" /\ (inbox' = inbox \/ inbox' = Append(inbox, ev))
      BY <1>1, <1>3
    <3>2. QED
      BY <1>7, <2>1, <3>1, PlacedSent DEF Stages
  <2>3. QED
    BY <1>2, <1>3, <2>2
<1>8. inbox' = Append(inbox, ev) =>
        Underway(r)' = Underway(r) \cup {Place(r) + 1}
  BY <1>1, UnderwaySent
<1>9. ASSUME Placed(r)' PROVE Reaches(r, Place(r))'
  <2>1. Place(r)' = Place(r) + 1
    <3>1. Place(r)' = Rank(stage, attempt)
      BY <1>2, <1>7, <1>9 DEF Place, Rank, Stages
    <3>2. QED
      BY <3>1
  <2>2. Underway(r)' = Underway(r) \cup {Place(r) + 1}
    BY <1>7, <1>8, <1>9
  <2>3. QED
    BY <1>5, <1>6, <2>1, <2>2 DEF Reaches
<1>10. Underway(r)' = Underway(r)
         \/ \E m \in Nat : Reaches(r, m) /\ Underway(r)' = Underway(r) \cup {m + 1}
  <2>1. inbox' = inbox => Underway(r)' = Underway(r)
    BY DEF Underway
  <2>2. QED
    BY <1>3, <1>5, <1>8, <2>1
<1>11. Placed(r)' /\ phase'[r] \notin {"starting", "planner", "planned"} => try'[r] >= 1
  BY <1>2, <1>7
<1>12. CourseOf(r)'
  BY <1>2, <1>4, <1>9, <1>10, <1>11, CourseGoesOn DEF CourseInv
<1>13. ASSUME NEW s \in Runs, s # r PROVE CourseOf(s)'
  <2>1. /\ runs'[s] = runs[s] /\ phase'[s] = phase[s] /\ try'[s] = try[s]
        /\ report'[s] = report[s] /\ CourseOf(s)
    BY <1>2, <1>13 DEF CourseInv
  <2>2. ~IsStage(ev, s) /\ ev.type # "done" /\ (inbox' = inbox \/ inbox' = Append(inbox, ev))
    BY <1>1, <1>3, <1>13
  <2>3. QED
    BY <2>1, <2>2, CourseOthers
<1>14. StagesOrdered' /\ StagesCounted'
  <2>1. CASE inbox' = inbox
    BY <2>1, StagesPopped DEF CourseInv, Popped
  <2>2. CASE inbox' = Append(inbox, ev)
    <3>1. \A e \in Underway(r) : e < Rank(ev.stage, ev.attempt)
      BY <1>1, <1>5, <1>6 DEF Reaches
    <3>2. \A s \in Runs : IsStage(ev, s) => s = r
      BY <1>1
    <3>3. \A s \in Runs : IsStage(ev, s) =>
            \A e \in Underway(s) : e < Rank(ev.stage, ev.attempt)
      BY <3>1, <3>2
    <3>4. QED
      BY <1>1, <2>2, <3>3, StagesSent DEF CourseInv
  <2>3. QED
    BY <1>3, <2>1, <2>2
<1>15. TableCounted' /\ WaitingTicketed'
  BY <1>2, TableKept
<1>16. \A s \in Runs : CourseOf(s)'
  BY <1>12, <1>13
<1>17. QED
  BY <1>14, <1>15, <1>16 DEF CourseInv

\* The other steps of the goroutine of run r begin no stage.
LEMMA CourseStays ==
    ASSUME IndInv, CourseInv, NEW r \in Runs, NEW ev, ev.type # "stage",
           ev.type = "done" => ev.run = r,
           inbox' = inbox \/ inbox' = Append(inbox, ev),
           \A s \in Runs : s # r => phase'[s] = phase[s] /\ report'[s] = report[s],
           UNCHANGED <<runs, tickets, try>>,
           Placed(r)' => /\ Placed(r) /\ Place(r)' = Place(r)
                         /\ phase'[r] \in {"starting", "planner", "planned"}
                              \/ phase[r] \notin {"starting", "planner", "planned"}
    PROVE  CourseInv'
<1>1. \A s \in Runs : ~IsStage(ev, s)
  BY DEF IsStage
<1>2. \A s \in Runs : Underway(s)' = Underway(s)
  BY <1>1, UnderwaySent DEF Underway
<1>3. ASSUME Active(r) PROVE CourseOf(r)'
  <2>1. Placed(r)' => Reaches(r, Place(r))'
    BY <1>2, <1>3 DEF CourseInv, CourseOf, Reaches, TableRank
  <2>2. Placed(r)' /\ phase'[r] \notin {"starting", "planner", "planned"} => try'[r] >= 1
    BY <1>3 DEF CourseInv, CourseOf
  <2>3. QED
    BY <1>2, <2>1, <2>2, CourseGoesOn DEF CourseInv
<1>4. ~Active(r) => CourseOf(r)'
  BY DEF CourseOf, Active
<1>5. ASSUME NEW s \in Runs, s # r PROVE CourseOf(s)'
  BY <1>1, <1>5, CourseOthers DEF CourseInv
<1>6. StagesOrdered' /\ StagesCounted'
  <2>1. CASE inbox' = inbox
    BY <2>1, StagesPopped DEF CourseInv, Popped
  <2>2. CASE inbox' = Append(inbox, ev)
    BY <1>1, <2>2, StagesSent DEF CourseInv, Counted
  <2>3. QED
    BY <2>1, <2>2
<1>7. \A s \in Runs : CourseOf(s)'
  BY <1>3, <1>4, <1>5
<1>8. QED
  BY <1>6, <1>7, TableKept DEF CourseInv

LEMMA CoursePipeline == IndInv /\ CourseInv /\ PipelineNext => CourseInv'
<1> SUFFICES ASSUME IndInv, CourseInv, NEW r \in Runs,
                    \/ BeginPlanner(r) \/ BeginExecutor(r) \/ BeginReviewer(r)
                    \/ EndPlanner(r) \/ EndReviewer(r) \/ ReportActivity(r)
                    \/ PushBranch(r) \/ RunnerReturn(r) \/ SendDone(r)
             PROVE  CourseInv'
  BY DEF PipelineNext
<1> USE DEF loopVars, pipeVars
<1>0. /\ phase \in [Runs -> Phases] /\ try \in [Runs -> 0 .. RetriesMax]
      /\ report \in [Runs -> DoneEvents \cup {NoReport}] /\ TypeInv
  BY DEF IndInv, TypeInv, TypeOK
<1>1. RetriesMax \in Nat \ {0} /\ try[r] \in 0 .. RetriesMax /\ try[r] \in Nat
  <2>1. RetriesMax \in Nat \ {0} /\ try[r] \in 0 .. RetriesMax
    BY <1>0, RunQueueAssumption
  <2>2. QED
    BY <2>1
<1>2. Active(r) /\ Placed(r) /\ phase[r] \notin {"starting", "planner", "planned"} => try[r] >= 1
  BY DEF CourseInv, CourseOf
<1>3. Executing(r) => Active(r)
  BY DEF IndInv, ExecLive
<1>4. CASE BeginPlanner(r)
  <2>1. Rank("planner", 0) = Place(r) + 1 /\ "planner" \in Stages /\ 0 \in 0 .. RetriesMax
    BY <1>1, <1>4 DEF BeginPlanner, Rank, Place, Stages
  <2>2. QED
    BY <1>4, <2>1, CourseBegins DEF BeginPlanner
<1>5. CASE BeginExecutor(r)
  <2>1. phase[r] = "planned" => try[r] = 0
    BY <1>0 DEF TypeInv, FirstAttempt
  <2>2. try[r] + 1 \in 0 .. RetriesMax /\ try[r] + 1 >= 1
    BY <1>1, <1>5, <2>1 DEF BeginExecutor
  <2>3. Place(r) = IF phase[r] = "planned" THEN 1 ELSE 2 * try[r] + 1
    BY <1>5 DEF BeginExecutor, Place
  <2>4. Rank("executor", try[r] + 1) = 2 * (try[r] + 1)
    BY DEF Rank
  <2>5. Rank("executor", try[r] + 1) = Place(r) + 1
    BY <1>1, <2>1, <2>3, <2>4
  <2>6. "executor" \in Stages /\ "executor" # "planner"
    BY DEF Stages
  <2>7. QED
    BY <1>5, <2>2, <2>5, <2>6, CourseBegins DEF BeginExecutor
<1>6. CASE BeginReviewer(r)
  <2>1. phase[r] = "executor" /\ Active(r) /\ Placed(r)
    BY <1>3, <1>6 DEF BeginReviewer, Executing, Placed, Stages
  <2>2. try[r] >= 1
    BY <1>2, <2>1
  <2>3. Place(r) = 2 * try[r] /\ Rank("reviewer", try[r]) = 2 * try[r] + 1
    BY <2>1 DEF Place, Rank
  <2>4. "reviewer" \in Stages /\ "reviewer" # "planner"
    BY DEF Stages
  <2>5. QED
    BY <1>1, <1>6, <2>1, <2>2, <2>3, <2>4, CourseBegins DEF BeginReviewer
<1>7. CASE EndPlanner(r) \/ EndReviewer(r)
  <2>1. PICK text \in {"plan", "review"}, next \in {"planned", "accepted", "declined"} :
          /\ EndStage(r, text, next)
          /\ \/ phase[r] = "planner" /\ next = "planned"
             \/ phase[r] = "reviewer" /\ next \in {"accepted", "declined"}
    BY <1>7 DEF EndPlanner, EndReviewer
  <2> DEFINE ev == [type |-> "summary", run |-> r, text |-> text]
  <2>2. ev.type = "summary"
    OBVIOUS
  <2>3. /\ inbox' = inbox \/ inbox' = Append(inbox, ev)
        /\ phase'[r] = next
        /\ \A s \in Runs : s # r => phase'[s] = phase[s]
        /\ UNCHANGED <<runs, tickets, try, report>>
    BY <1>0, <2>1 DEF EndStage, SendOrAbandon
  <2> HIDE DEF ev
  <2>4. Placed(r)
    BY <2>1 DEF Placed, Stages
  <2>5. Place(r)' = Place(r)
    BY <2>1, <2>3 DEF Place
  <2>6. QED
    BY <2>1, <2>2, <2>3, <2>4, <2>5, CourseStays
<1>8. CASE ReportActivity(r)
  <2>1. PICK text \in Activities :
          inbox' = Append(inbox, [type |-> "activity", run |-> r, text |-> text])
    BY <1>8 DEF ReportActivity
  <2>2. PICK ev : ev = [type |-> "activity", run |-> r, text |-> text]
    OBVIOUS
  <2>3. ev.type = "activity" /\ inbox' = Append(inbox, ev)
    BY <2>1, <2>2
  <2>4. Placed(r) /\ UNCHANGED <<runs, tickets, phase, try, report>>
    BY <1>8 DEF ReportActivity, Placed, Stages
  <2>5. Place(r)' = Place(r)
    BY <2>4 DEF Place
  <2>6. QED
    BY <2>3, <2>4, <2>5, CourseStays
<1>9. CASE PushBranch(r)
  <2>1. /\ phase[r] = "accepted" /\ phase'[r] = "pushed"
        /\ \A s \in Runs : s # r => phase'[s] = phase[s]
        /\ UNCHANGED <<runs, tickets, inbox, try, report>>
    BY <1>0, <1>9 DEF PushBranch
  <2>2. Placed(r) /\ Place(r)' = Place(r) /\ NoReport.type = "none"
    BY <2>1 DEF Placed, Place, NoReport
  <2>3. QED
    BY <2>1, <2>2, CourseStays
<1>10. CASE RunnerReturn(r)
  <2>1. PICK outcome \in Outcomes :
          /\ MayReturn(r, outcome)
          /\ report' = [report EXCEPT ![r] =
                          [type |-> "done", run |-> r, outcome |-> outcome,
                           cancelled |-> CtxErr(r)]]
    BY <1>10 DEF RunnerReturn
  <2>2. /\ phase'[r] = "reporting" /\ report'[r].outcome = outcome
        /\ \A s \in Runs : s # r => phase'[s] = phase[s] /\ report'[s] = report[s]
        /\ UNCHANGED <<runs, tickets, inbox, try>>
    BY <1>0, <1>10, <2>1 DEF RunnerReturn
  <2>3. phase[r] \notin {"none", "reporting", "ended"} /\ NoReport.type = "none"
    BY <2>1 DEF MayReturn, Working, NoReport
  <2>4. \A i \in 1 .. Len(inbox) : inbox[i].type = "done" => inbox[i].run # r
    BY <2>3, NoDoneYet
  <2>5. Placed(r)' => outcome # "error"
    BY <2>2, <2>4 DEF Placed, Stages
  <2>6. outcome # "error" => phase[r] \in {"pushed", "declined"}
    BY <2>1 DEF MayReturn
  <2>7. Placed(r)' => Placed(r) /\ Place(r)' = Place(r)
                       /\ phase[r] \notin {"starting", "planner", "planned"}
    BY <2>2, <2>5, <2>6 DEF Placed, Place
  <2>8. QED
    BY <2>2, <2>3, <2>7, CourseStays
<1>11. CASE SendDone(r)
  <2>1. report[r] \in DoneEvents /\ report[r].run = r
    BY <1>0, <1>11 DEF SendDone, TypeInv, ReportReady
  <2>2. PICK ev \in DoneEvents : ev = report[r]
    BY <2>1
  <2>3. ev.type = "done" /\ ev.run = r
    BY <2>1, <2>2 DEF DoneEvents
  <2>4. /\ phase[r] = "reporting" /\ phase'[r] = "ended"
        /\ inbox' = inbox \/ inbox' = Append(inbox, ev)
        /\ \A s \in Runs : s # r => phase'[s] = phase[s] /\ report'[s] = report[s]
        /\ UNCHANGED <<runs, tickets, try>>
    BY <1>0, <1>11, <2>2 DEF SendDone, SendOrAbandon
  <2>5. \A i \in 1 .. Len(inbox) : inbox[i].type = "done" => inbox[i].run # r
    BY <2>4, NoDoneYet
  <2>6. Placed(r)' => ev.outcome # "error"
    BY <2>4, <2>5, PlacedSent DEF Stages
  <2>7. Placed(r)' => Placed(r) /\ Place(r)' = Place(r)
    BY <2>2, <2>4, <2>6 DEF Placed, Place
  <2>8. QED
    BY <2>3, <2>4, <2>7, CourseStays
<1>12. QED
  BY <1>4, <1>5, <1>6, <1>7, <1>8, <1>9, <1>10, <1>11

\* A run the loop's step is not about.
LEMMA CourseUnseen ==
    ASSUME IndInv, NEW s \in Runs, CourseOf(s), Shown(s)' = Shown(s),
           Popped(inbox, inbox'), inbox' # inbox => ~IsStage(Head(inbox), s),
           phase'[s] = phase[s], UNCHANGED <<try, report>>
    PROVE  CourseOf(s)'
<1>1. Underway(s)' = Underway(s)
  <2>1. CASE inbox' = inbox
    BY <2>1 DEF Underway
  <2>2. CASE inbox' # inbox
    <3>1. PICK ev : ev = Head(inbox)
      OBVIOUS
    <3>2. QED
      BY <2>2, <3>1, UnderwayTaken DEF Popped
  <2>3. QED
    BY <2>1, <2>2
<1>2. Placed(s)' => Placed(s)
  BY PlacedPopped
<1>3. QED
  BY <1>1, <1>2, CourseApart

\* A ticket is taken of a run that does not wait, or no more.
LEMMA TicketsPopped ==
    ASSUME IndInv, WaitingTicketed, Popped(tickets, tickets'),
           \A s \in Runs : Waiting(s)' => Waiting(s),
           \A s \in Runs : Waiting(s)' /\ tickets' # tickets => s # Head(tickets)
    PROVE  WaitingTicketed'
<1> SUFFICES ASSUME NEW s \in Runs, Waiting(s)'
             PROVE  \E i \in 1 .. Len(tickets') : tickets'[i] = s
  BY DEF WaitingTicketed
<1>1. tickets \in Seq(Runs)
  BY DEF IndInv, TypeInv, TypeOK
<1>2. PICK i \in 1 .. Len(tickets) : tickets[i] = s
  BY DEF WaitingTicketed
<1>3. CASE tickets' = tickets
  BY <1>2, <1>3
<1>4. CASE tickets' # tickets
  <2>1. tickets # <<>> /\ tickets' = Tail(tickets) /\ s # Head(tickets)
    BY <1>4 DEF Popped
  <2>2. /\ Len(tickets') = Len(tickets) - 1 /\ Len(tickets) \in Nat
        /\ \A j \in 1 .. Len(tickets') : tickets'[j] = tickets[j + 1]
        /\ Head(tickets) = tickets[1]
    BY <1>1, <2>1
  <2>3. i # 1
    BY <1>2, <2>1, <2>2
  <2>4. i - 1 \in 1 .. Len(tickets')
    BY <2>2, <2>3
  <2>5. tickets'[i - 1] = tickets[(i - 1) + 1] /\ (i - 1) + 1 = i
    BY <2>2, <2>4
  <2>6. QED
    BY <1>2, <2>4, <2>5
<1>5. QED
  BY <1>3, <1>4

LEMMA FreshEntry ==
    /\ NewEntry("queued").status = "queued" /\ NewEntry("queued").attempt = 0
    /\ Absent.status = "none" /\ Absent.attempt = 0
BY DEF Absent, NewEntry

LEMMA CourseAdded ==
    ASSUME IndInv, CourseInv, NEW r \in Runs, Added(r), UNCHANGED <<try, report>>
    PROVE  CourseInv'
<1>1. /\ runs'[r] = NewEntry("queued") /\ tickets' = Append(tickets, r) /\ UNCHANGED phase
      /\ \A s \in Runs : s # r => runs'[s] = runs[s]
      /\ Popped(inbox, inbox') /\ (inbox' # inbox => Head(inbox).type # "stage")
  BY DEF Added, OthersKept, TakesNoStage
<1>2. CourseOf(r)'
  BY <1>1, QueuedEntry DEF CourseOf, Active
<1>3. ASSUME NEW s \in Runs, s # r PROVE CourseOf(s)'
  BY <1>1, <1>3, CourseUnseen DEF CourseInv, Shown, IsStage
<1>4. TableCounted'
  BY <1>1, FreshEntry DEF CourseInv, TableCounted
<1>5. WaitingTicketed'
  <2>1. tickets \in Seq(Runs)
    BY DEF IndInv, TypeInv, TypeOK
  <2>2. /\ Len(tickets') = Len(tickets) + 1 /\ Len(tickets) \in Nat
        /\ \A i \in 1 .. Len(tickets) : tickets'[i] = tickets[i]
        /\ tickets'[Len(tickets) + 1] = r
    BY <1>1, <2>1
  <2>3. ASSUME NEW s \in Runs, Waiting(s)'
        PROVE  \E i \in 1 .. Len(tickets') : tickets'[i] = s
    <3>1. CASE s = r
      BY <2>2, <3>1
    <3>2. CASE s # r
      <4>1. PICK i \in 1 .. Len(tickets) : tickets[i] = s
        BY <1>1, <2>3, <3>2 DEF CourseInv, WaitingTicketed, Waiting
      <4>2. QED
        BY <2>2, <4>1
    <3>3. QED
      BY <3>1, <3>2
  <2>4. QED
    BY <2>3 DEF WaitingTicketed
<1>6. \A s \in Runs : CourseOf(s)'
  BY <1>2, <1>3
<1>7. QED
  BY <1>1, <1>4, <1>5, <1>6, StagesPopped DEF CourseInv

LEMMA CourseRetired ==
    ASSUME IndInv, CourseInv, NEW r \in Runs, Retired(r), UNCHANGED <<try, report>>
    PROVE  CourseInv'
<1>1. /\ runs'[r].status = "cancelled" /\ runs'[r].started = FALSE
      /\ UNCHANGED phase /\ Popped(tickets, tickets')
      /\ tickets' # tickets => Head(tickets) = r
      /\ \A s \in Runs : s # r => runs'[s] = runs[s]
      /\ Popped(inbox, inbox') /\ (inbox' # inbox => Head(inbox).type # "stage")
  BY DEF Retired, OthersKept, TakesNoStage, Shown, Popped
<1>2. CourseOf(r)'
  BY <1>1 DEF CourseOf, Active
<1>3. ASSUME NEW s \in Runs, s # r PROVE CourseOf(s)'
  BY <1>1, <1>3, CourseUnseen DEF CourseInv, Shown, IsStage
<1>4. TableCounted'
  BY <1>1 DEF CourseInv, TableCounted
<1>5. WaitingTicketed'
  BY <1>1, TicketsPopped DEF CourseInv, Waiting
<1>6. \A s \in Runs : CourseOf(s)'
  BY <1>2, <1>3
<1>7. QED
  BY <1>1, <1>4, <1>5, <1>6, StagesPopped DEF CourseInv

\* A run starts with nothing under way.
LEMMA CourseStarted ==
    ASSUME IndInv, CourseInv, NEW r \in Runs, Started(r), UNCHANGED <<try, report>>
    PROVE  CourseInv' /\ runs'[r].attempt = 0
<1>0. phase \in [Runs -> Phases]
  BY DEF IndInv, TypeInv, TypeOK
<1>1. /\ runs'[r].status = "started" /\ runs'[r].started = TRUE
      /\ runs'[r].attempt = runs[r].attempt
      /\ phase'[r] = "starting" /\ Popped(tickets, tickets') /\ Head(tickets) = r
      /\ \A s \in Runs : s # r => runs'[s] = runs[s] /\ phase'[s] = phase[s]
      /\ inbox' = inbox /\ Waiting(r) /\ ~runs[r].started
  BY <1>0 DEF Started, OthersKept, Shown, Popped
<1>2. runs[r].attempt = 0
  BY <1>1 DEF CourseInv, TableCounted, Waiting
<1>3. Underway(r)' = {}
  <2>1. \A i \in 1 .. Len(inbox) : inbox[i].type \in ReportTypes => inbox[i].run # r
    BY <1>1, NoReportsOfIdle DEF Popped
  <2>2. \A i \in 1 .. Len(inbox) : ~IsStage(inbox[i], r)
    BY <2>1 DEF IsStage, ReportTypes
  <2>3. QED
    BY <1>1, <2>2 DEF Underway
<1>4. CourseOf(r)'
  <2>1. TableRank(r)' = 0 /\ Place(r)' = 0
    BY <1>1 DEF TableRank, Place
  <2>2. Reaches(r, 0)'
    BY <1>3, <2>1 DEF Reaches
  <2>3. QED
    BY <1>1, <2>1, <2>2 DEF CourseOf
<1>5. ASSUME NEW s \in Runs, s # r PROVE CourseOf(s)'
  BY <1>1, <1>5, CourseUnseen DEF CourseInv, Shown, Popped
<1>6. TableCounted'
  BY <1>1, <1>2 DEF CourseInv, TableCounted
<1>7. WaitingTicketed'
  BY <1>1, TicketsPopped DEF CourseInv, Waiting
<1>8. \A s \in Runs : CourseOf(s)'
  BY <1>4, <1>5
<1>9. StagesOrdered' /\ StagesCounted'
  BY <1>1, StagesPopped DEF CourseInv, Popped
<1>10. QED
  BY <1>1, <1>2, <1>6, <1>7, <1>8, <1>9 DEF CourseInv

LEMMA CourseStaged ==
    ASSUME IndInv, CourseInv, NEW r \in Runs, Staged(r), UNCHANGED <<try, report>>
    PROVE  CourseInv'
<1>1. /\ inbox' = Tail(inbox) /\ inbox # <<>> /\ Head(inbox).run = r
      /\ UNCHANGED <<tickets, phase>> /\ Active(r)
      /\ \A s \in Runs : s # r => runs'[s] = runs[s]
      /\ runs'[r].status = StatusForStage(Head(inbox).stage)
  BY DEF Staged, Takes, OthersKept, Shown
<1>2. CourseOf(r)'
  BY CourseShown
<1>3. ASSUME NEW s \in Runs, s # r PROVE CourseOf(s)'
  BY <1>1, <1>3, CourseUnseen DEF CourseInv, Shown, Popped, IsStage
<1>4. PICK ev : ev = Head(inbox)
  OBVIOUS
<1>5. /\ ev.stage = "planner" => runs'[r].attempt = runs[r].attempt
      /\ ev.stage # "planner" => runs'[r].attempt = ev.attempt /\ ev.attempt >= 1
      /\ ev.stage \in Stages
  <2>1. ev.type = "stage"
    BY <1>4 DEF Staged, Takes
  <2>2. QED
    BY <1>4, <2>1, CourseShown DEF Counted
<1>6. ev.stage = "planner" => runs[r].status = "started"
  <2>1. TableRank(r)' = Rank(ev.stage, ev.attempt) /\ TableRank(r)' = TableRank(r) + 1
    BY <1>4, CourseShown
  <2>2. ev.stage = "planner" => TableRank(r) = 0
    BY <1>1, <2>1, TableRankType DEF Rank
  <2>3. runs[r].status \in Running /\ runs[r].attempt \in Nat
    <3>1. runs[r].status \in Running /\ runs[r].attempt \in 0 .. RetriesMax
      BY <1>1, ActiveEntry DEF Entry
    <3>2. QED
      BY <3>1, ConstantTypes
  <2>4. runs[r].status \in {"coding", "reviewing"} => runs[r].attempt >= 1
    BY DEF CourseInv, TableCounted
  <2>5. TableRank(r) = 0 => runs[r].status = "started"
    BY <2>3, <2>4 DEF TableRank, Running
  <2>6. QED
    BY <2>2, <2>5
<1>7. TableCounted'
  <2>1. runs'[r].status = StatusForStage(ev.stage)
    BY <1>1, <1>4
  <2>2. runs[r].status = "started" => runs[r].attempt = 0
    BY DEF CourseInv, TableCounted
  <2>3. /\ runs'[r].status \in {"none", "queued", "started", "planning"} => runs'[r].attempt = 0
        /\ runs'[r].status \in {"coding", "reviewing"} => runs'[r].attempt >= 1
    BY <1>5, <1>6, <2>1, <2>2 DEF StatusForStage, Stages
  <2>4. QED
    BY <1>1, <2>3 DEF CourseInv, TableCounted
<1>8. WaitingTicketed'
  <2>1. runs'[r].status # "queued"
    BY <1>1, <1>4, <1>5 DEF StatusForStage, Stages
  <2>2. \A s \in Runs : Waiting(s)' => Waiting(s)
    BY <1>1, <2>1 DEF Waiting
  <2>3. QED
    BY <1>1, <2>2, TicketsPopped DEF CourseInv, Popped
<1>9. \A s \in Runs : CourseOf(s)'
  BY <1>2, <1>3
<1>10. StagesOrdered' /\ StagesCounted'
  BY <1>1, StagesPopped DEF CourseInv, Popped
<1>11. QED
  BY <1>7, <1>8, <1>9, <1>10 DEF CourseInv

LEMMA CourseFinished ==
    ASSUME IndInv, CourseInv, NEW r \in Runs, Finished(r), UNCHANGED <<try, report>>
    PROVE  CourseInv' /\ runs'[r].status \in Terminal
<1>1. /\ inbox' = Tail(inbox) /\ inbox # <<>> /\ Head(inbox).type = "done"
      /\ Head(inbox) \in Events
      /\ UNCHANGED <<tickets, phase>>
      /\ \A s \in Runs : s # r => runs'[s] = runs[s]
      /\ runs'[r].status = DoneStatus(Head(inbox).outcome, Head(inbox).cancelled)
  BY DEF Finished, Takes, OthersKept, Shown
<1>2. PICK o \in Outcomes, b \in BOOLEAN : o = Head(inbox).outcome /\ b = Head(inbox).cancelled
  BY <1>1 DEF Events, AddEvents, CancelEvents, StageEvents, ActivityEvents,
              SummaryEvents, DoneEvents
<1>3. runs'[r].status \in Terminal
  BY <1>1, <1>2 DEF DoneStatus, Outcomes, Terminal
<1>4. CourseOf(r)'
  BY <1>3 DEF CourseOf, Active, IsFinilised
<1>5. ASSUME NEW s \in Runs, s # r PROVE CourseOf(s)'
  BY <1>1, <1>5, CourseUnseen DEF CourseInv, Shown, Popped, IsStage
<1>6. TableCounted'
  BY <1>1, <1>3 DEF CourseInv, TableCounted, Terminal
<1>7. WaitingTicketed'
  <2>1. \A s \in Runs : Waiting(s)' => Waiting(s)
    BY <1>1, <1>3 DEF Waiting, Terminal
  <2>2. QED
    BY <1>1, <2>1, TicketsPopped DEF CourseInv, Popped
<1>8. \A s \in Runs : CourseOf(s)'
  BY <1>4, <1>5
<1>9. StagesOrdered' /\ StagesCounted'
  BY <1>1, StagesPopped DEF CourseInv, Popped
<1>10. QED
  BY <1>3, <1>6, <1>7, <1>8, <1>9 DEF CourseInv

LEMMA CourseEvicted ==
    ASSUME IndInv, CourseInv, NEW gone \in SUBSET Runs, Evicted(gone),
           UNCHANGED <<try, report>>
    PROVE  CourseInv'
<1>1. /\ UNCHANGED <<inbox, tickets, phase>>
      /\ \A s \in gone : runs'[s] = Absent
      /\ \A s \in Runs : s \notin gone => runs'[s] = runs[s]
  BY DEF Evicted
<1>2. ASSUME NEW s \in Runs PROVE CourseOf(s)'
  <2>1. CASE s \in gone
    BY <1>1, <2>1, AbsentEntry DEF CourseOf, Active
  <2>2. CASE s \notin gone
    BY <1>1, <2>2, CourseUnseen DEF CourseInv, Shown, Popped
  <2>3. QED
    BY <2>1, <2>2
<1>3. TableCounted'
  BY <1>1, FreshEntry DEF CourseInv, TableCounted
<1>4. WaitingTicketed'
  <2>1. \A s \in Runs : Waiting(s)' => Waiting(s)
    BY <1>1, AbsentEntry DEF Waiting
  <2>2. QED
    BY <1>1, <2>1, TicketsPopped DEF CourseInv, Popped
<1>5. StagesOrdered' /\ StagesCounted'
  BY <1>1, StagesPopped DEF CourseInv, Popped
<1>6. QED
  BY <1>2, <1>3, <1>4, <1>5 DEF CourseInv

LEMMA CourseUnseenStep ==
    ASSUME IndInv, CourseInv, Unseen, UNCHANGED <<try, report>>
    PROVE  CourseInv'
<1>1. /\ UNCHANGED phase /\ Popped(tickets, tickets')
      /\ tickets' # tickets => ~Waiting(Head(tickets))
      /\ Popped(inbox, inbox') /\ (inbox' # inbox => Head(inbox).type # "stage")
      /\ \A s \in Runs : Shown(s)' = Shown(s)
  BY DEF Unseen, TakesNoStage
<1>2. \A s \in Runs : runs'[s].status = runs[s].status /\ runs'[s].attempt = runs[s].attempt
  BY <1>1 DEF Shown
<1>3. ASSUME NEW s \in Runs PROVE CourseOf(s)'
  BY <1>1, CourseUnseen DEF CourseInv, IsStage
<1>4. TableCounted'
  BY <1>2 DEF CourseInv, TableCounted
<1>5. WaitingTicketed'
  BY <1>1, <1>2, TicketsPopped DEF CourseInv, Waiting
<1>6. QED
  BY <1>1, <1>3, <1>4, <1>5, StagesPopped DEF CourseInv

LEMMA CourseInit == Init => CourseInv
<1> SUFFICES ASSUME Init PROVE CourseInv
  OBVIOUS
<1>1. /\ \A r \in Runs : runs[r] = Absent
      /\ inbox = <<>> /\ Len(inbox) = 0
  BY DEF Init
<1>2. \A r \in Runs : CourseOf(r)
  BY <1>1, AbsentEntry DEF CourseOf, Active
<1>3. StagesOrdered /\ StagesCounted
  BY <1>1 DEF StagesOrdered, StagesCounted
<1>4. TableCounted /\ WaitingTicketed
  BY <1>1, FreshEntry DEF TableCounted, WaitingTicketed, Waiting
<1>5. QED
  BY <1>2, <1>3, <1>4 DEF CourseInv

LEMMA CourseStep == IndInv /\ CourseInv /\ [Next]_vars => CourseInv'
<1> SUFFICES ASSUME IndInv, CourseInv, [Next]_vars PROVE CourseInv'
  OBVIOUS
<1>1. CASE UNCHANGED vars \/ Shutdown
  <2>1. UNCHANGED <<runs, inbox, tickets, phase, try, report>>
    BY <1>1 DEF vars, Shutdown, loopVars, pipeVars
  <2>2. Unseen
    BY <2>1 DEF Unseen, Shown, TakesNoStage, Popped
  <2>3. QED
    BY <2>1, <2>2, CourseUnseenStep
<1>2. CASE LoopNext
  BY <1>2, KindOfLoop, CourseUnseenStep, CourseAdded, CourseRetired, CourseStarted,
     CourseStaged, CourseFinished, CourseEvicted
<1>3. QED
  BY <1>1, <1>2, CourseCaller, CoursePipeline DEF Next, Terminated

-----------------------------------------------------------------------------
(* The queue implements RunLifecycle: what its line, its statuses and its   *)
(* attempts become in each way a step may change the table.                 *)

AheadOf(r) == {w \in Runs : WaitsBefore(w, r)}

\* Nobody enters or leaves the line.
LEMMA LineKept ==
    ASSUME IndInv, \A s \in Runs : Waiting(s)' <=> Waiting(s),
           Popped(tickets, tickets'), tickets' # tickets => ~Waiting(Head(tickets))
    PROVE  \A s \in Runs : AheadOf(s)' = AheadOf(s)
<1>1. tickets \in Seq(Runs)
  BY DEF IndInv, TypeInv, TypeOK
<1>2. CASE tickets' = tickets
  BY <1>2 DEF AheadOf, WaitsBefore
<1>3. CASE tickets' # tickets
  <2>1. tickets # <<>> /\ tickets' = Tail(tickets) /\ ~Waiting(Head(tickets))
    BY <1>3 DEF Popped
  <2>2. /\ Len(tickets') = Len(tickets) - 1 /\ Len(tickets) \in Nat \ {0}
        /\ \A j \in 1 .. Len(tickets') :
             tickets'[j] = tickets[j + 1] /\ j + 1 \in 1 .. Len(tickets)
        /\ Head(tickets) = tickets[1]
    BY <1>1, <2>1
  <2>3. ASSUME NEW w \in Runs, NEW s \in Runs, WaitsBefore(w, s)'
        PROVE  WaitsBefore(w, s)
    <3>1. PICK i, j \in 1 .. Len(tickets') : i < j /\ tickets'[i] = w /\ tickets'[j] = s
      BY <2>3 DEF WaitsBefore
    <3>2. /\ i + 1 \in 1 .. Len(tickets) /\ tickets[i + 1] = w
          /\ j + 1 \in 1 .. Len(tickets) /\ tickets[j + 1] = s /\ i + 1 < j + 1
      BY <2>2, <3>1
    <3>3. QED
      BY <2>3, <3>2 DEF WaitsBefore
  <2>4. ASSUME NEW w \in Runs, NEW s \in Runs, WaitsBefore(w, s)
        PROVE  WaitsBefore(w, s)'
    <3>1. PICK i, j \in 1 .. Len(tickets) : i < j /\ tickets[i] = w /\ tickets[j] = s
      BY <2>4 DEF WaitsBefore
    <3>2. i # 1 /\ j # 1
      BY <2>1, <2>2, <2>4, <3>1 DEF WaitsBefore
    <3>3. i - 1 \in 1 .. Len(tickets') /\ j - 1 \in 1 .. Len(tickets') /\ i - 1 < j - 1
      BY <2>2, <3>1, <3>2
    <3>4. /\ tickets'[i - 1] = tickets[(i - 1) + 1] /\ (i - 1) + 1 = i
          /\ tickets'[j - 1] = tickets[(j - 1) + 1] /\ (j - 1) + 1 = j
      BY <2>2, <3>3
    <3>5. QED
      BY <2>4, <3>1, <3>3, <3>4 DEF WaitsBefore
  <2>5. QED
    BY <2>3, <2>4 DEF AheadOf
<1>4. QED
  BY <1>2, <1>3

\* One run leaves the line; if it was the first, its ticket may be taken.
LEMMA LineLeft ==
    ASSUME IndInv, NEW r \in Runs, Waiting(r)' = FALSE,
           \A s \in Runs : s # r => (Waiting(s)' <=> Waiting(s)),
           Popped(tickets, tickets'), tickets' # tickets => Head(tickets) = r
    PROVE  \A s \in Runs : AheadOf(s)' = IF s = r THEN {} ELSE AheadOf(s) \ {r}
<1>1. tickets \in Seq(Runs)
  BY DEF IndInv, TypeInv, TypeOK
<1>2. PICK k \in {0, 1} :
        /\ Len(tickets) = Len(tickets') + k /\ Len(tickets') \in Nat
        /\ \A i \in 1 .. Len(tickets') :
             i + k \in 1 .. Len(tickets) /\ tickets'[i] = tickets[i + k]
  BY <1>1, PoppedShift
<1>3. k = 1 => tickets # <<>> /\ Head(tickets) = r /\ Head(tickets) = tickets[1]
  <2>1. k = 1 => tickets' # tickets
    BY <1>2
  <2>2. QED
    BY <1>1, <2>1 DEF Popped
<1>4. AheadOf(r)' = {}
  BY DEF AheadOf, WaitsBefore
<1>5. ASSUME NEW s \in Runs, s # r, NEW w \in Runs, WaitsBefore(w, s)'
      PROVE  WaitsBefore(w, s) /\ w # r
  <2>1. PICK i, j \in 1 .. Len(tickets') : i < j /\ tickets'[i] = w /\ tickets'[j] = s
    BY <1>5 DEF WaitsBefore
  <2>2. /\ i + k \in 1 .. Len(tickets) /\ tickets[i + k] = w
        /\ j + k \in 1 .. Len(tickets) /\ tickets[j + k] = s /\ i + k < j + k
    BY <1>2, <2>1
  <2>3. w # r
    BY <1>5 DEF WaitsBefore
  <2>4. QED
    BY <1>5, <2>2, <2>3 DEF WaitsBefore
<1>6. ASSUME NEW s \in Runs, s # r, NEW w \in Runs, w # r, WaitsBefore(w, s)
      PROVE  WaitsBefore(w, s)'
  <2>1. PICK i, j \in 1 .. Len(tickets) : i < j /\ tickets[i] = w /\ tickets[j] = s
    BY <1>6 DEF WaitsBefore
  <2>2. i - k \in 1 .. Len(tickets') /\ j - k \in 1 .. Len(tickets') /\ i - k < j - k
    <3>1. k = 1 => i # 1 /\ j # 1
      BY <1>3, <1>6, <2>1
    <3>2. QED
      BY <1>2, <2>1, <3>1
  <2>3. /\ tickets'[i - k] = tickets[(i - k) + k] /\ (i - k) + k = i
        /\ tickets'[j - k] = tickets[(j - k) + k] /\ (j - k) + k = j
    BY <1>2, <2>2
  <2>4. QED
    BY <1>6, <2>1, <2>2, <2>3 DEF WaitsBefore
<1>7. ASSUME NEW s \in Runs, s # r PROVE AheadOf(s)' = AheadOf(s) \ {r}
  BY <1>5, <1>6, <1>7 DEF AheadOf
<1>8. QED
  BY <1>4, <1>7

\* A run enters the line behind all that wait.
LEMMA LineJoined ==
    ASSUME IndInv, CourseInv, NEW r \in Runs, Added(r)
    PROVE  /\ AheadOf(r)' = {w \in Runs : Waiting(w)}
           /\ \A s \in Runs : s # r => AheadOf(s)' = AheadOf(s)
<1>1. tickets \in Seq(Runs)
  BY DEF IndInv, TypeInv, TypeOK
<1>2. /\ Len(tickets') = Len(tickets) + 1 /\ Len(tickets) \in Nat
      /\ \A i \in 1 .. Len(tickets) : tickets'[i] = tickets[i]
      /\ tickets'[Len(tickets) + 1] = r
  BY <1>1 DEF Added
<1>3. \A i \in 1 .. Len(tickets') : i \in 1 .. Len(tickets) \/ i = Len(tickets) + 1
  BY <1>2
<1>4. \A i \in 1 .. Len(tickets) : tickets[i] # r
  BY DEF Added
<1>5. Waiting(r)' /\ ~Waiting(r) /\ \A s \in Runs : s # r => (Waiting(s)' <=> Waiting(s))
  BY FreshEntry DEF Added, OthersKept, Waiting, Known
<1>6. ASSUME NEW w \in Runs PROVE WaitsBefore(w, r)' <=> Waiting(w)
  <2>1. ASSUME WaitsBefore(w, r)' PROVE Waiting(w)
    <3>1. PICK i, j \in 1 .. Len(tickets') : i < j /\ tickets'[i] = w /\ tickets'[j] = r
      BY <2>1 DEF WaitsBefore
    <3>2. i \in 1 .. Len(tickets) /\ w # r
      BY <1>2, <1>3, <1>4, <3>1
    <3>3. QED
      BY <1>5, <2>1, <3>2 DEF WaitsBefore
  <2>2. ASSUME Waiting(w) PROVE WaitsBefore(w, r)'
    <3>1. PICK i \in 1 .. Len(tickets) : tickets[i] = w
      BY <2>2 DEF CourseInv, WaitingTicketed
    <3>2. /\ i \in 1 .. Len(tickets') /\ Len(tickets) + 1 \in 1 .. Len(tickets')
          /\ i < Len(tickets) + 1 /\ tickets'[i] = w
      BY <1>2, <3>1
    <3>3. QED
      BY <1>2, <1>5, <2>2, <3>2 DEF WaitsBefore
  <2>3. QED
    BY <2>1, <2>2
<1>7. ASSUME NEW s \in Runs, s # r, NEW w \in Runs
      PROVE  WaitsBefore(w, s)' <=> WaitsBefore(w, s)
  <2>1. ASSUME WaitsBefore(w, s)' PROVE WaitsBefore(w, s)
    <3>1. PICK i, j \in 1 .. Len(tickets') : i < j /\ tickets'[i] = w /\ tickets'[j] = s
      BY <2>1 DEF WaitsBefore
    <3>2. i \in 1 .. Len(tickets) /\ j \in 1 .. Len(tickets)
      BY <1>2, <1>3, <1>7, <3>1
    <3>3. tickets[i] = w /\ tickets[j] = s /\ w # r
      BY <1>2, <1>4, <3>1, <3>2
    <3>4. QED
      BY <1>5, <1>7, <2>1, <3>1, <3>2, <3>3 DEF WaitsBefore
  <2>2. ASSUME WaitsBefore(w, s) PROVE WaitsBefore(w, s)'
    <3>1. PICK i, j \in 1 .. Len(tickets) : i < j /\ tickets[i] = w /\ tickets[j] = s
      BY <2>2 DEF WaitsBefore
    <3>2. /\ i \in 1 .. Len(tickets') /\ j \in 1 .. Len(tickets')
          /\ tickets'[i] = w /\ tickets'[j] = s
      BY <1>2, <3>1
    <3>3. w # r
      BY <1>4, <3>1
    <3>4. QED
      BY <1>5, <1>7, <2>2, <3>1, <3>2, <3>3 DEF WaitsBefore
  <2>3. QED
    BY <2>1, <2>2
<1>8. QED
  BY <1>6, <1>7 DEF AheadOf

\* The variables of RunLifecycle, as the table has them.
AheadMap   == [r \in Runs |-> {w \in Runs : WaitsBefore(w, r)}]
StatusMap  == [r \in Runs |-> runs[r].status]
AttemptMap == [r \in Runs |-> runs[r].attempt]

\* Each way a step may change the table is a step of RunLifecycle.
LEMMA MapAdded ==
    ASSUME IndInv, CourseInv, NEW r \in Runs, Added(r)
    PROVE  Lifecycle!Submit(r)
<1>1. /\ runs[r].status = "none" /\ runs[r].attempt = 0
      /\ runs'[r].status = "queued" /\ runs'[r].attempt = 0
      /\ \A s \in Runs : s # r => runs'[s] = runs[s]
  BY FreshEntry DEF Added, OthersKept, Known, CourseInv, TableCounted
<1>2. StatusMap' = [StatusMap EXCEPT ![r] = "queued"] /\ AttemptMap' = AttemptMap
  BY <1>1 DEF StatusMap, AttemptMap
<1>3. AheadMap' = [AheadMap EXCEPT ![r] = {w \in Runs : StatusMap[w] = "queued"}]
  BY LineJoined DEF AheadMap, AheadOf, StatusMap, Waiting
<1>4. StatusMap[r] = "none"
  BY <1>1 DEF StatusMap
<1>5. QED
  BY <1>2, <1>3, <1>4
  DEF Lifecycle!Submit, Lifecycle!Waiting, AheadMap, StatusMap, AttemptMap

LEMMA MapLeft ==
    ASSUME IndInv, NEW r \in Runs, Waiting(r)' = FALSE, OthersKept(r),
           Popped(tickets, tickets'), tickets' # tickets => Head(tickets) = r
    PROVE  Lifecycle!LeaveLine(r)
<1>1. \A s \in Runs : AheadOf(s)' = IF s = r THEN {} ELSE AheadOf(s) \ {r}
  BY LineLeft DEF OthersKept, Waiting
<1>2. AheadMap' = [w \in Runs |-> IF w = r THEN {} ELSE AheadMap[w] \ {r}]
  BY <1>1 DEF AheadMap, AheadOf
<1>3. QED
  BY <1>2 DEF Lifecycle!LeaveLine, AheadMap

LEMMA MapRetired ==
    ASSUME IndInv, NEW r \in Runs, Retired(r)
    PROVE  Lifecycle!Withdraw(r)
<1>1. /\ runs'[r].status = "cancelled" /\ runs'[r].attempt = runs[r].attempt
      /\ runs[r].status = "queued"
      /\ \A s \in Runs : s # r => runs'[s] = runs[s]
  BY DEF Retired, OthersKept, Shown, Waiting
<1>2. Lifecycle!LeaveLine(r)
  BY <1>1, MapLeft DEF Retired, Popped, Waiting
<1>3. StatusMap' = [StatusMap EXCEPT ![r] = "cancelled"] /\ AttemptMap' = AttemptMap
  BY <1>1 DEF StatusMap, AttemptMap
<1>4. StatusMap[r] = "queued"
  BY <1>1 DEF StatusMap
<1>5. QED
  BY <1>2, <1>3, <1>4 DEF Lifecycle!Withdraw, StatusMap, AttemptMap

LEMMA MapStarted ==
    ASSUME IndInv, NEW r \in Runs, Started(r)
    PROVE  Lifecycle!Start(r)
<1>1. /\ runs'[r].status = "started" /\ runs'[r].attempt = runs[r].attempt
      /\ runs[r].status = "queued"
      /\ \A s \in Runs : s # r => runs'[s] = runs[s]
      /\ tickets # <<>> /\ tickets' = Tail(tickets) /\ Head(tickets) = r
      /\ ActiveCount < MaxContainers
  BY DEF Started, OthersKept, Shown, Waiting
<1>2. Lifecycle!LeaveLine(r)
  BY <1>1, MapLeft DEF Started, Popped, Waiting
<1>3. StatusMap' = [StatusMap EXCEPT ![r] = "started"] /\ AttemptMap' = AttemptMap
  BY <1>1 DEF StatusMap, AttemptMap
<1>4. AheadMap[r] = {}
  <2>1. tickets \in Seq(Runs) /\ Head(tickets) = tickets[1] /\ 1 \in 1 .. Len(tickets)
    BY <1>1 DEF IndInv, TypeInv, TypeOK
  <2>2. \A j \in 1 .. Len(tickets) : tickets[j] = r => j = 1
    BY <1>1, <2>1 DEF IndInv, TicketsIdle
  <2>3. \A w \in Runs : ~WaitsBefore(w, r)
    BY <2>1, <2>2 DEF WaitsBefore
  <2>4. QED
    BY <2>3 DEF AheadMap
<1>5. {s \in Runs : StatusMap[s] \in Running} = ActiveRuns
  <2>1. \A s \in Runs : Active(s) => runs[s].status \in Running
    BY ActiveEntry
  <2>2. \A s \in Runs : runs[s].status \in Running => Active(s)
    BY DEF IndInv, TableShape, Active, IsFinilised, Running, Terminal
  <2>3. QED
    BY <2>1, <2>2 DEF StatusMap, ActiveRuns
<1>6. Cardinality(Lifecycle!Started) < MaxContainers
  BY <1>1, <1>5 DEF Lifecycle!Started, Lifecycle!Running, Running, ActiveCount, StatusMap
<1>7. StatusMap[r] = "queued"
  BY <1>1 DEF StatusMap
<1>8. Lifecycle!Cardinality(Lifecycle!Started) = Cardinality(Lifecycle!Started)
  BY DEF Lifecycle!Cardinality, Cardinality
<1>9. QED
  BY <1>2, <1>3, <1>4, <1>6, <1>7, <1>8 DEF Lifecycle!Start, AheadMap, StatusMap, AttemptMap

\* An active run is not in the line, so what is shown of it does not change the line.
LEMMA MapAside ==
    ASSUME IndInv, NEW r \in Runs, OthersKept(r), ~Waiting(r), Waiting(r)' = FALSE,
           UNCHANGED tickets
    PROVE  AheadMap' = AheadMap
<1>1. \A s \in Runs : AheadOf(s)' = AheadOf(s)
  BY LineKept DEF OthersKept, Waiting, Popped
<1>2. QED
  BY <1>1 DEF AheadMap, AheadOf

\* The rank of the next stage tells which one it is.
LEMMA MapStaged ==
    ASSUME IndInv, CourseInv, NEW r \in Runs, Staged(r), UNCHANGED <<try, report>>
    PROVE  Lifecycle!Plan(r) \/ Lifecycle!Code(r) \/ Lifecycle!Review(r)
<1>1. PICK ev : ev = Head(inbox)
  OBVIOUS
<1>2. /\ Active(r) /\ OthersKept(r) /\ UNCHANGED tickets /\ ev \in Events
      /\ ev.type = "stage" /\ runs'[r].status = StatusForStage(ev.stage)
  BY <1>1 DEF Staged, Takes, Shown
<1>3. /\ TableRank(r)' = TableRank(r) + 1 /\ TableRank(r)' = Rank(ev.stage, ev.attempt)
      /\ ev.stage = "planner" => runs'[r].attempt = runs[r].attempt
      /\ ev.stage # "planner" => runs'[r].attempt = ev.attempt /\ ev.attempt >= 1
      /\ ev.stage \in Stages /\ ev.attempt \in Nat
  BY <1>1, <1>2, CourseShown DEF Counted
<1>4. runs[r].status \in Running /\ runs[r].attempt \in Nat /\ TableRank(r) \in Nat
  <2>1. runs[r].status \in Running /\ runs[r].attempt \in 0 .. RetriesMax
    BY <1>2, ActiveEntry DEF Entry
  <2>2. QED
    BY <1>2, <2>1, ConstantTypes, TableRankType
<1>5. /\ runs[r].status \in {"started", "planning"} => runs[r].attempt = 0
      /\ runs[r].status \in {"coding", "reviewing"} => runs[r].attempt >= 1
  BY DEF CourseInv, TableCounted
<1>6. TableRank(r) + 1 = Rank(ev.stage, ev.attempt)
  BY <1>3
<1>7. ~Waiting(r) /\ Waiting(r)' = FALSE
  BY <1>2, <1>3, <1>4 DEF Waiting, Running, StatusForStage, Stages
<1>8. AheadMap' = AheadMap
  BY <1>2, <1>7, MapAside
<1>9. \A s \in Runs : s # r => runs'[s] = runs[s]
  BY <1>2 DEF OthersKept
<1>10. CASE ev.stage = "planner"
  <2>1. TableRank(r) = 0
    BY <1>4, <1>6, <1>10 DEF Rank
  <2>2. runs[r].status = "started"
    BY <1>4, <1>5, <2>1 DEF TableRank, Running
  <2>3. StatusMap' = [StatusMap EXCEPT ![r] = "planning"] /\ AttemptMap' = AttemptMap
    BY <1>2, <1>3, <1>9, <1>10 DEF StatusMap, AttemptMap, StatusForStage
  <2>4. Lifecycle!Plan(r)
    BY <1>8, <2>2, <2>3 DEF Lifecycle!Plan, AheadMap, StatusMap, AttemptMap
  <2>5. QED
    BY <2>4
<1>11. CASE ev.stage = "executor"
  <2>1. TableRank(r) + 1 = 2 * ev.attempt /\ ev.attempt >= 1
    BY <1>3, <1>6, <1>11 DEF Rank
  <2>2. /\ runs[r].status \in {"planning", "reviewing"}
        /\ ev.attempt = runs[r].attempt + 1
    BY <1>3, <1>4, <1>5, <2>1 DEF TableRank, Running
  <2>3. runs[r].attempt < RetriesMax
    <3>1. ev.attempt \in 0 .. RetriesMax
      BY <1>2 DEF Events, AddEvents, CancelEvents, StageEvents, ActivityEvents,
                  SummaryEvents, DoneEvents
    <3>2. QED
      BY <1>4, <2>2, <3>1, ConstantTypes
  <2>4. /\ StatusMap' = [StatusMap EXCEPT ![r] = "coding"]
        /\ AttemptMap' = [AttemptMap EXCEPT ![r] = AttemptMap[r] + 1]
    BY <1>2, <1>3, <1>9, <1>11, <2>2 DEF StatusMap, AttemptMap, StatusForStage
  <2>5. Lifecycle!Code(r)
    BY <1>8, <2>2, <2>3, <2>4 DEF Lifecycle!Code, AheadMap, StatusMap, AttemptMap
  <2>6. QED
    BY <2>5
<1>12. CASE ev.stage = "reviewer"
  <2>1. TableRank(r) + 1 = 2 * ev.attempt + 1 /\ ev.attempt >= 1
    BY <1>3, <1>6, <1>12 DEF Rank
  <2>2. runs[r].status = "coding" /\ ev.attempt = runs[r].attempt
    BY <1>3, <1>4, <1>5, <2>1 DEF TableRank, Running
  <2>3. StatusMap' = [StatusMap EXCEPT ![r] = "reviewing"] /\ AttemptMap' = AttemptMap
    BY <1>2, <1>3, <1>9, <1>12, <2>2 DEF StatusMap, AttemptMap, StatusForStage
  <2>4. Lifecycle!Review(r)
    BY <1>8, <2>2, <2>3 DEF Lifecycle!Review, AheadMap, StatusMap, AttemptMap
  <2>5. QED
    BY <2>4
<1>13. QED
  BY <1>3, <1>10, <1>11, <1>12 DEF Stages

\* When the done event of a run is handled, every stage of it has been shown: a
\* success follows a review, a rejection the last one.
LEMMA MapFinished ==
    ASSUME IndInv, CourseInv, OutcomeInv, NEW r \in Runs, Finished(r),
           UNCHANGED <<try, report>>
    PROVE  Lifecycle!End(r)
<1>1. PICK ev : ev = Head(inbox)
  OBVIOUS
<1>2. /\ Active(r) /\ OthersKept(r) /\ UNCHANGED tickets /\ ev \in Events
      /\ ev.type = "done" /\ ev.run = r /\ inbox # <<>> /\ phase[r] = "ended"
      /\ runs'[r].status = DoneStatus(ev.outcome, ev.cancelled)
      /\ runs'[r].attempt = runs[r].attempt
  BY <1>1 DEF Finished, Takes, Shown
<1>3. ev = inbox[1] /\ 1 \in 1 .. Len(inbox)
  BY <1>1, <1>2 DEF IndInv, TypeInv, TypeOK
<1>4. ev.outcome \in Outcomes /\ ev.cancelled \in BOOLEAN
  BY <1>2 DEF Events, AddEvents, CancelEvents, StageEvents, ActivityEvents,
              SummaryEvents, DoneEvents
<1>5. runs[r].status \in Running /\ runs[r].attempt \in Nat /\ TableRank(r) \in Nat
  <2>1. runs[r].status \in Running /\ runs[r].attempt \in 0 .. RetriesMax
    BY <1>2, ActiveEntry DEF Entry
  <2>2. QED
    BY <1>2, <2>1, ConstantTypes, TableRankType
<1>6. try[r] \in Nat
  <2>1. try[r] \in 0 .. RetriesMax
    BY DEF IndInv, TypeInv, TypeOK
  <2>2. QED
    BY <2>1, ConstantTypes
<1>7. ASSUME ev.outcome # "error"
      PROVE  runs[r].status = "reviewing" /\ runs[r].attempt = try[r]
  <2>1. Placed(r)
    BY <1>2, <1>3, <1>7 DEF Placed
  <2>2. Reaches(r, Place(r)) /\ try[r] >= 1
    BY <1>2, <2>1 DEF CourseInv, CourseOf
  <2>3. Underway(r) = {}
    <3>1. \A j \in 1 .. Len(inbox) :
            inbox[j].type \in ReportTypes /\ inbox[j].run = r => j <= 1
      BY <1>2, <1>3 DEF IndInv, DoneIsLast
    <3>2. \A j \in 1 .. Len(inbox) : ~IsStage(inbox[j], r)
      BY <1>2, <1>3, <3>1 DEF IsStage, ReportTypes
    <3>3. QED
      BY <3>2 DEF Underway
  <2>4. Place(r) = 2 * try[r] + 1
    BY <1>2 DEF Place
  <2>5. TableRank(r) = 2 * try[r] + 1
    <3>1. Place(r) \in Nat
      BY <1>6, <2>4
    <3>2. TableRank(r) <= Place(r) /\ (TableRank(r) + 1) .. Place(r) = {}
      BY <2>2, <2>3 DEF Reaches
    <3>3. ~(TableRank(r) < Place(r))
      <4>1. TableRank(r) < Place(r) => Place(r) \in (TableRank(r) + 1) .. Place(r)
        BY <1>5, <3>1
      <4>2. QED
        BY <3>2, <4>1
    <3>4. QED
      BY <1>5, <2>4, <3>1, <3>2, <3>3
  <2>6. QED
    BY <1>5, <1>6, <2>2, <2>5 DEF TableRank, Running
<1>8. ev.outcome = "rejected" => try[r] = RetriesMax
  BY <1>2, <1>3 DEF OutcomeInv, DoneTrue, OutcomeTrue
<1>9. PICK ending \in Terminal : ending = DoneStatus(ev.outcome, ev.cancelled)
  BY <1>4 DEF DoneStatus, Outcomes, Terminal
<1>10. /\ ending = "succeeded" => ev.outcome = "accepted"
       /\ ending = "rejected" => ev.outcome = "rejected"
  BY <1>4, <1>9 DEF DoneStatus, Outcomes
<1>11. \A s \in Runs : s # r => runs'[s] = runs[s]
  BY <1>2 DEF OthersKept
<1>12. ~Waiting(r) /\ Waiting(r)' = FALSE
  BY <1>2, <1>5, <1>9 DEF Waiting, Running, Terminal
<1>13. AheadMap' = AheadMap
  BY <1>2, <1>12, MapAside
<1>14. StatusMap' = [StatusMap EXCEPT ![r] = ending] /\ AttemptMap' = AttemptMap
  BY <1>2, <1>9, <1>11 DEF StatusMap, AttemptMap
<1>15. StatusMap[r] = runs[r].status /\ AttemptMap[r] = runs[r].attempt
  BY DEF StatusMap, AttemptMap
<1>16. Lifecycle!MayEnd(r, ending)
  BY <1>5, <1>7, <1>8, <1>9, <1>10, <1>15
  DEF Lifecycle!MayEnd, Lifecycle!Running, Running, Terminal, StatusMap, AttemptMap
<1>17. ending \in Lifecycle!Terminal
  BY DEF Lifecycle!Terminal, Terminal
<1>18. QED
  BY <1>13, <1>14, <1>16, <1>17 DEF Lifecycle!End, AheadMap, StatusMap, AttemptMap

LEMMA MapEvicted ==
    ASSUME IndInv, NEW gone \in SUBSET Runs, Evicted(gone)
    PROVE  Lifecycle!Forget(gone)
<1>1. /\ UNCHANGED tickets
      /\ \A s \in gone : runs[s].status \in Terminal
      /\ \A s \in Runs : runs'[s] = IF s \in gone THEN Absent ELSE runs[s]
  BY DEF Evicted, IsFinilised
<1>2. \A s \in Runs : Waiting(s)' <=> Waiting(s)
  BY <1>1, FreshEntry DEF Waiting, Terminal
<1>3. \A s \in Runs : AheadOf(s)' = AheadOf(s)
  BY <1>1, <1>2, LineKept DEF Popped
<1>4. AheadMap' = AheadMap
  BY <1>3 DEF AheadMap, AheadOf
<1>5. /\ StatusMap'  = [s \in Runs |-> IF s \in gone THEN "none" ELSE StatusMap[s]]
      /\ AttemptMap' = [s \in Runs |-> IF s \in gone THEN 0 ELSE AttemptMap[s]]
  BY <1>1, FreshEntry DEF StatusMap, AttemptMap
<1>6. gone \subseteq {s \in Runs : StatusMap[s] \in Terminal}
  BY <1>1 DEF StatusMap
<1>7. QED
  BY <1>4, <1>5, <1>6
  DEF Lifecycle!Forget, Lifecycle!Terminal, Terminal, AheadMap, StatusMap, AttemptMap

LEMMA MapUnseen ==
    ASSUME IndInv, Unseen
    PROVE  UNCHANGED Lifecycle!vars
<1>1. \A s \in Runs : runs'[s].status = runs[s].status /\ runs'[s].attempt = runs[s].attempt
  BY DEF Unseen, Shown
<1>2. \A s \in Runs : AheadOf(s)' = AheadOf(s)
  BY <1>1, LineKept DEF Unseen, Waiting
<1>3. AheadMap' = AheadMap
  BY <1>2 DEF AheadMap, AheadOf
<1>4. StatusMap' = StatusMap /\ AttemptMap' = AttemptMap
  BY <1>1 DEF StatusMap, AttemptMap
<1>5. QED
  BY <1>3, <1>4 DEF Lifecycle!vars, AheadMap, StatusMap, AttemptMap

LEMMA MapStep ==
    IndInv /\ CourseInv /\ OutcomeInv /\ [Next]_vars => [Lifecycle!Next]_(Lifecycle!vars)
<1> SUFFICES ASSUME IndInv, CourseInv, OutcomeInv, [Next]_vars
             PROVE  [Lifecycle!Next]_(Lifecycle!vars)
  OBVIOUS
<1>1. CASE CallerNext \/ PipelineNext \/ Shutdown \/ UNCHANGED vars
  <2>1. UNCHANGED <<runs, tickets>>
    BY <1>1
    DEF CallerNext, AddSend, AddStopped, CancelSend, CancelLeft, PipelineNext,
        BeginPlanner, BeginExecutor, BeginReviewer, BeginStage, EndPlanner,
        EndReviewer, EndStage, ReportActivity, PushBranch, RunnerReturn, SendDone,
        Shutdown, vars, loopVars
  <2>2. UNCHANGED Lifecycle!vars
    BY <2>1 DEF Lifecycle!vars, WaitsBefore, Waiting
  <2>3. QED
    BY <2>2
<1>2. CASE LoopNext
  <2>0. UNCHANGED <<try, report>>
    BY <1>2, KindOfLoop
  <2>1. CASE Unseen
    BY <2>1, MapUnseen
  <2>2. ASSUME NEW r \in Runs, Added(r) PROVE Lifecycle!Next
    BY <2>2, MapAdded DEF Lifecycle!Next
  <2>3. ASSUME NEW r \in Runs, Retired(r) PROVE Lifecycle!Next
    BY <2>3, MapRetired DEF Lifecycle!Next
  <2>4. ASSUME NEW r \in Runs, Started(r) PROVE Lifecycle!Next
    BY <2>4, MapStarted DEF Lifecycle!Next
  <2>5. ASSUME NEW r \in Runs, Staged(r) PROVE Lifecycle!Next
    BY <2>0, <2>5, MapStaged DEF Lifecycle!Next
  <2>6. ASSUME NEW r \in Runs, Finished(r) PROVE Lifecycle!Next
    BY <2>0, <2>6, MapFinished DEF Lifecycle!Next
  <2>7. ASSUME NEW gone \in SUBSET Runs, Evicted(gone) PROVE Lifecycle!Next
    BY <2>7, MapEvicted DEF Lifecycle!Next
  <2>8. QED
    BY <1>2, <2>1, <2>2, <2>3, <2>4, <2>5, <2>6, <2>7, KindOfLoop
<1>3. QED
  BY <1>1, <1>2 DEF Next, Terminated

LEMMA MapInit == Init => Lifecycle!Init
<1> SUFFICES ASSUME Init PROVE Lifecycle!Init
  OBVIOUS
<1>1. \A r \in Runs : runs[r] = Absent
  BY DEF Init
<1>2. \A w \in Runs, r \in Runs : ~WaitsBefore(w, r)
  BY <1>1, FreshEntry DEF WaitsBefore, Waiting
<1>3. AheadMap = [r \in Runs |-> {}]
  BY <1>2 DEF AheadMap
<1>4. StatusMap = [r \in Runs |-> "none"] /\ AttemptMap = [r \in Runs |-> 0]
  BY <1>1, FreshEntry DEF StatusMap, AttemptMap
<1>5. QED
  BY <1>3, <1>4 DEF Lifecycle!Init, AheadMap, StatusMap, AttemptMap

\* The queue implements RunLifecycle: whatever the inbox, the goroutines, the
\* cancellations and the tickets do, what a watcher sees of a run is its way from
\* the line through the stages in order to one ending.
THEOREM LifecycleImplemented == Spec => ImplementsLifecycle
<1>1. Init => IndInv /\ CourseInv /\ OutcomeInv
  BY IndInit, CourseInit, OutcomeInit
<1>2. IndInv /\ CourseInv /\ OutcomeInv /\ [Next]_vars
        => (IndInv /\ CourseInv /\ OutcomeInv)'
  BY IndStep, CourseStep, OutcomeStep
<1>3. QED
  BY <1>1, <1>2, MapInit, MapStep, PTL
  DEF Spec, ImplementsLifecycle, Lifecycle!Spec
=============================================================================
