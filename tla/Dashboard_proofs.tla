--------------------------- MODULE Dashboard_proofs ---------------------------
(***************************************************************************)
(* Theorems about Dashboard, for any number of runs and requests: the      *)
(* cursor stays on its run, the notes are true, App tells how it ended.    *)
(***************************************************************************)
EXTENDS Dashboard, FiniteSetTheorems, TLAPS

USE DEF None, Empty

LEMMA IndexType ==
    ASSUME NEW live \in SUBSET Runs, NEW r \in Runs
    PROVE  /\ IsFiniteSet(live) /\ IsFiniteSet({s \in live : s < r})
           /\ Index(live, r) \in Nat /\ Cardinality(live) \in Nat
<1>1. IsFiniteSet(Runs)
  BY DashboardAssumption, FS_Interval DEF Runs
<1>2. IsFiniteSet(live) /\ IsFiniteSet({s \in live : s < r})
  BY <1>1, FS_Subset
<1> QED BY <1>2, FS_CardinalityType DEF Index

\* Two runs of the list have different places: the set before the one is a proper
\* part of the set before the other.
LEMMA IndexBefore ==
    ASSUME NEW live \in SUBSET Runs, NEW r \in live, NEW s \in live, r < s
    PROVE  Index(live, r) # Index(live, s)
<1> DEFINE R == {x \in live : x < r}
           S == {x \in live : x < s}
<1>1. live \subseteq Int
  BY DashboardAssumption DEF Runs
<1>2. R \subseteq S
  <2>1. ASSUME NEW x \in live, x < r
        PROVE  x < s
    BY <1>1, <2>1
  <2> QED BY <2>1
<1>3. r \in S /\ r \notin R
  BY <1>1
<1>4. IsFiniteSet(S)
  BY IndexType
<1> HIDE DEF R, S
<1>5. Cardinality(R) # Cardinality(S)
  BY <1>2, <1>3, <1>4, FS_Subset
<1> QED BY <1>5 DEF Index, R, S

LEMMA IndexInjective ==
    ASSUME NEW live \in SUBSET Runs, NEW r \in live, NEW s \in live,
           Index(live, r) = Index(live, s)
    PROVE  r = s
<1>1. r \in Int /\ s \in Int
  BY DashboardAssumption DEF Runs
<1>2. ~(r < s) /\ ~(s < r)
  BY IndexBefore
<1> QED BY <1>1, <1>2

LEMMA RunAtIndex ==
    ASSUME NEW live \in SUBSET Runs, NEW r \in live
    PROVE  RunAt(live, Index(live, r)) = r
<1> DEFINE c == CHOOSE s \in live : Index(live, s) = Index(live, r)
<1>1. c \in live /\ Index(live, c) = Index(live, r)
  OBVIOUS
<1> HIDE DEF c
<1>2. c = r
  BY <1>1, IndexInjective
<1> QED BY <1>2 DEF RunAt, c

LEMMA RunAtType ==
    ASSUME NEW live \in SUBSET Runs, NEW i
    PROVE  RunAt(live, i) \in Runs \cup {None}
BY DEF RunAt

LEMMA AtMostType ==
    ASSUME NEW live \in SUBSET Runs, live # {}, NEW i \in Nat
    PROVE  AtMost(i, live) \in Nat
<1>1. PICK r \in live : TRUE
  OBVIOUS
<1>2. IsFiniteSet(live) /\ Cardinality(live) \in Nat
  BY IndexType, <1>1
<1>3. Cardinality(live) # 0
  BY <1>2, FS_EmptySet
<1> QED BY <1>2, <1>3 DEF AtMost

-----------------------------------------------------------------------------
(* Types.                                                                   *)

CursorOK == selecting \in BOOLEAN /\ cursor \in Nat /\ cursorID \in Runs \cup {None}

LEMMA StopSelectingType == ASSUME StopSelecting PROVE CursorOK'
BY DEF StopSelecting, CursorOK

LEMMA SelectAtType ==
    ASSUME NEW live \in SUBSET Runs, NEW i \in Nat, SelectAt(live, i)
    PROVE  CursorOK'
BY RunAtType DEF SelectAt, CursorOK

LEMMA SyncCursorType ==
    ASSUME CursorOK, NEW runs, SyncCursor(runs)
    PROVE  CursorOK'
<1> DEFINE live == Cancellable(runs)
<1>1. live \in SUBSET Runs
  BY DEF Cancellable
<1>2. CASE UNCHANGED cursorVars
  BY <1>2 DEF cursorVars, CursorOK
<1>3. CASE StopSelecting
  BY <1>3, StopSelectingType
<1>4. CASE cursorID \in live /\ SelectAt(live, Index(live, cursorID))
  <2>1. Index(live, cursorID) \in Nat
    BY <1>1, <1>4, IndexType
  <2> QED BY <1>1, <1>4, <2>1, SelectAtType
<1>5. CASE live # {} /\ SelectAt(live, AtMost(cursor, live))
  <2>1. AtMost(cursor, live) \in Nat
    BY <1>1, <1>5, AtMostType DEF CursorOK
  <2> QED BY <1>1, <1>5, <2>1, SelectAtType
<1> QED BY <1>2, <1>3, <1>4, <1>5 DEF SyncCursor

LEMMA MoveType ==
    ASSUME CursorOK, NEW delta, Move(delta)
    PROVE  CursorOK'
<1> DEFINE live == Cancellable(view)
           next == IF delta = "down" THEN cursor + 1
                   ELSE IF cursor > 0 THEN cursor - 1 ELSE 0
<1>1. live \in SUBSET Runs
  BY DEF Cancellable
<1>2. next \in Nat
  BY DEF CursorOK
<1>3. CASE StopSelecting
  BY <1>3, StopSelectingType
<1>4. CASE live # {} /\ SelectAt(live, AtMost(next, live))
  <2>1. AtMost(next, live) \in Nat
    BY <1>1, <1>2, <1>4, AtMostType
  <2> QED BY <1>1, <1>4, <2>1, SelectAtType
<1> QED BY <1>3, <1>4 DEF Move

USE DEF Runs

LEMMA TypeInit == Init => TypeOK
<1> SUFFICES ASSUME Init PROVE TypeOK
  OBVIOUS
<1>1. selecting \in BOOLEAN
  BY Zenon DEF Init
<1>2. table \in Tables /\ view \in Tables /\ wire \subseteq Tables
  BY DEF Init, Tables, NoRuns
<1> QED BY <1>1, <1>2 DEF Init, TypeOK, NoRequests

LEMMA TypeStep == TypeOK /\ [Next]_vars => TypeOK'
<1> SUFFICES ASSUME TypeOK, [Next]_vars
             PROVE  TypeOK'
  OBVIOUS
<1> USE DEF TypeOK, Tables, Waiting
<1>0. CursorOK
  BY DEF CursorOK
<1> DEFINE Rest == /\ table' \in Tables /\ wire' \subseteq Tables /\ view' \in Tables
                   /\ mode' \in {"prompt", "watch"}
                   /\ notice' \in {Empty, "nothing to cancel", "cancel failed"}
                   /\ submits' \in [Runs -> {"idle", "queued", "failed", "open"}
                                               \cup Waiting]
                   /\ cancels' \in [Runs -> {"idle", "sent", "done", "refused"}]
                   /\ app' \in {"running", "quitting", "leaving", "waiting",
                                "returned", "failed"}
                   /\ quit' \in {"none", "user", "stream", "killed", "program"}
                   /\ stream' \in {"reading", "error", "nil", "telling", "gone"}
                   /\ streamErr' \in {Empty, "nil", "error"}
<1>q. ASSUME Rest, CursorOK' PROVE TypeOK'
  BY <1>q DEF CursorOK
<1>s. ASSUME UNCHANGED cursorVars PROVE CursorOK'
  BY <1>0, <1>s DEF CursorOK, cursorVars
<1> USE DEF daemonVars, watchVars, requestVars, exitVars
<1>1. CASE TakeSnapshot
  <2>1. Rest
    BY <1>1 DEF TakeSnapshot
  <2>2. PICK snap \in wire : SyncCursor(snap)
    BY <1>1 DEF TakeSnapshot
  <2> QED BY <1>0, <1>q, <2>1, <2>2, SyncCursorType
<1>2. CASE PromptKey
  <2>3. submits' \in [Runs -> {"idle", "queued", "failed", "open"} \cup Waiting]
    BY <1>2 DEF PromptKey, Quit
  <2>4. /\ app' \in {"running", "quitting", "leaving", "waiting", "returned", "failed"}
        /\ quit' \in {"none", "user", "stream", "killed", "program"}
        /\ mode' \in {"prompt", "watch"}
    BY <1>2 DEF PromptKey, Quit
  <2>1. Rest
    BY <1>2, <2>3, <2>4 DEF PromptKey, Quit
  <2>2. UNCHANGED cursorVars
    BY <1>2 DEF PromptKey
  <2> QED BY <1>q, <1>s, <2>1, <2>2
<1>3. CASE WatchKey
  <2>1. Rest
    BY <1>3 DEF WatchKey, Quit
  <2>2. CASE UNCHANGED cursorVars
    BY <1>q, <1>s, <2>1, <2>2
  <2>3. CASE SelectAt(Cancellable(view), 0)
    <3>1. Cancellable(view) \in SUBSET Runs
      BY DEF Cancellable
    <3> QED BY <1>q, <2>1, <2>3, <3>1, SelectAtType
  <2> QED BY <1>3, <2>2, <2>3 DEF WatchKey
<1>4. CASE CancelKey
  <2>1. Rest
    BY <1>4 DEF CancelKey, Quit, Cancellable
  <2>2. CASE \E delta \in {"up", "down"} : Move(delta)
    BY <1>0, <1>q, <2>1, <2>2, MoveType
  <2>3. CASE StopSelecting
    BY <1>q, <2>1, <2>3, StopSelectingType
  <2>4. CASE UNCHANGED cursorVars
    BY <1>q, <1>s, <2>1, <2>4
  <2> QED BY <1>4, <2>2, <2>3, <2>4 DEF CancelKey
<1>5. CASE ProgramEnds
  <2>1. Rest
    BY <1>5 DEF ProgramEnds, NoRuns, NoRequests
  <2> QED BY <1>5, <1>q, <2>1, StopSelectingType DEF ProgramEnds
<1>6. CASE Daemon
  <2>1. CASE TableChanges
    <3>1. table' \in Tables
      <4>1. PICK r \in Runs : \/ table' = [table EXCEPT ![r] = "live"]
                             \/ table' = [table EXCEPT ![r] = "ended"]
        BY <2>1 DEF TableChanges
      <4> QED BY <4>1
    <3>3. Rest
      BY <2>1, <3>1 DEF TableChanges
    <3>2. UNCHANGED cursorVars
      BY <2>1 DEF TableChanges
    <3> QED BY <1>q, <1>s, <3>3, <3>2
  <2>2. CASE Publish
    <3>1. Rest
      BY <2>2 DEF Publish
    <3>2. UNCHANGED cursorVars
      BY <2>2 DEF Publish
    <3> QED BY <1>q, <1>s, <3>1, <3>2
  <2>3. CASE ServeRun
    <3>1. table' \in Tables
      <4>1. PICK r \in Runs : \/ table' = [table EXCEPT ![r] = "live"]
                             \/ UNCHANGED table
        BY <2>3 DEF ServeRun
      <4> QED BY <4>1
    <3>4. submits' \in [Runs -> {"idle", "queued", "failed", "open"} \cup Waiting]
      <4>1. PICK r \in Runs : \/ submits' = [submits EXCEPT ![r] = "created"]
                             \/ submits' = [submits EXCEPT ![r] = "refused"]
                             \/ submits' = [submits EXCEPT ![r] = "stopped"]
        BY <2>3 DEF ServeRun
      <4> QED BY <4>1
    <3>3. Rest
      BY <2>3, <3>1, <3>4 DEF ServeRun
    <3>2. UNCHANGED cursorVars
      BY <2>3 DEF ServeRun
    <3> QED BY <1>q, <1>s, <3>3, <3>2
  <2>4. CASE ServeCancel
    <3>0. PICK r \in Runs :
            /\ \/ cancels' = [cancels EXCEPT ![r] = "done"]
               \/ cancels' = [cancels EXCEPT ![r] = "refused"]
            /\ table' \in {table, [table EXCEPT ![r] = "ended"]}
      BY <2>4 DEF ServeCancel
    <3>1. table' \in Tables
      BY <3>0
    <3>4. cancels' \in [Runs -> {"idle", "sent", "done", "refused"}]
      BY <3>0
    <3>3. Rest
      BY <2>4, <3>1, <3>4 DEF ServeCancel
    <3>2. UNCHANGED cursorVars
      BY <2>4 DEF ServeCancel
    <3> QED BY <1>q, <1>s, <3>3, <3>2
  <2>5. CASE AddLate
    <3>1. table' \in Tables
      <4>1. PICK r \in Runs : table' = [table EXCEPT ![r] = "live"]
        BY <2>5 DEF AddLate
      <4> QED BY <4>1
    <3>3. Rest
      BY <2>5, <3>1 DEF AddLate
    <3>2. UNCHANGED cursorVars
      BY <2>5 DEF AddLate
    <3> QED BY <1>q, <1>s, <3>3, <3>2
  <2> QED BY <1>6, <2>1, <2>2, <2>3, <2>4, <2>5 DEF Daemon
<1>7. CASE Requests
  <2>1. CASE SubmitAnswered
    <3>4. submits' \in [Runs -> {"idle", "queued", "failed", "open"} \cup Waiting]
      <4>1. PICK r \in Mine : \/ submits' = [submits EXCEPT ![r] = "queued"]
                             \/ submits' = [submits EXCEPT ![r] = "failed"]
                             \/ submits' = [submits EXCEPT ![r] = "open"]
        BY <2>1 DEF SubmitAnswered
      <4> QED BY <4>1
    <3>3. Rest
      BY <2>1, <3>4 DEF SubmitAnswered
    <3>2. UNCHANGED cursorVars
      BY <2>1 DEF SubmitAnswered
    <3> QED BY <1>q, <1>s, <3>3, <3>2
  <2>2. CASE SubmitTimesOut
    <3>1. Rest
      BY <2>2 DEF SubmitTimesOut
    <3>2. UNCHANGED cursorVars
      BY <2>2 DEF SubmitTimesOut
    <3> QED BY <1>q, <1>s, <3>1, <3>2
  <2>3. CASE CancelAnswered
    <3>1. Rest
      BY <2>3 DEF CancelAnswered
    <3>2. UNCHANGED cursorVars
      BY <2>3 DEF CancelAnswered
    <3> QED BY <1>q, <1>s, <3>1, <3>2
  <2> QED BY <1>7, <2>1, <2>2, <2>3 DEF Requests
<1>8. CASE TakeStreamFailed \/ StreamReturns \/ StreamResult \/ TellNobody
  <2>3. ASSUME TakeStreamFailed PROVE Rest
    BY <2>3 DEF TakeStreamFailed
  <2>4. ASSUME StreamReturns \/ StreamResult \/ TellNobody PROVE Rest
    BY <2>4 DEF StreamReturns, StreamResult, TellNobody
  <2>1. Rest
    BY <1>8, <2>3, <2>4
  <2>2. UNCHANGED cursorVars
    BY <1>8 DEF TakeStreamFailed, StreamReturns, StreamResult, TellNobody
  <2> QED BY <1>q, <1>s, <2>1, <2>2
<1>9. CASE Leaving
  <2>1. Rest
    BY <1>9 DEF Leaving, CancelContext, AppReturns
  <2>2. UNCHANGED cursorVars
    BY <1>9 DEF Leaving, CancelContext, AppReturns
  <2> QED BY <1>q, <1>s, <2>1, <2>2
<1>10. CASE UNCHANGED vars
  <2>1. Rest
    BY <1>10 DEF vars
  <2>2. UNCHANGED cursorVars
    BY <1>10 DEF vars
  <2> QED BY <1>q, <1>s, <2>1, <2>2
<1> QED BY <1>1, <1>2, <1>3, <1>4, <1>5, <1>6, <1>7, <1>8, <1>9, <1>10 DEF Next, Keys

\* Every variable keeps its type.
THEOREM TypesHold == Spec => []TypeOK
BY TypeInit, TypeStep, PTL DEF Spec

-----------------------------------------------------------------------------
(* The cursor.                                                              *)

LEMMA SnapshotKeepsRun ==
    ASSUME NEW snap, SyncCursor(snap), cursorID \in Cancellable(snap)
    PROVE  UNCHANGED cursorID
<1> DEFINE live == Cancellable(snap)
<1>1. live \in SUBSET Runs
  BY DEF Cancellable
<1>2. CASE UNCHANGED cursorVars
  BY <1>2 DEF cursorVars
<1>3. CASE SelectAt(live, Index(live, cursorID))
  <2>1. RunAt(live, Index(live, cursorID)) = cursorID
    BY <1>1, RunAtIndex
  <2> QED BY <1>3, <2>1 DEF SelectAt
<1> QED BY <1>2, <1>3 DEF SyncCursor

\* Whatever runs appear above it, end or leave, a snapshot leaves the cursor on a run
\* that is still cancellable (syncCursor looks its ID up).
THEOREM CursorStaysHolds == Spec => CursorStays
<1>1. ASSUME [Next]_vars, view' # view, cursorID \in Cancellable(view')
      PROVE  UNCHANGED cursorID
  <2> USE DEF daemonVars, watchVars, requestVars, exitVars
  <2>1. CASE TakeSnapshot
    <3>1. PICK snap \in wire : view' = snap /\ SyncCursor(snap)
      BY <2>1 DEF TakeSnapshot
    <3> QED BY <1>1, <3>1, SnapshotKeepsRun
  <2>2. CASE ProgramEnds
    BY <1>1, <2>2 DEF ProgramEnds, NoRuns, Cancellable
  <2>3. CASE UNCHANGED view
    BY <1>1, <2>3
  <2>4. CASE Keys
    BY <2>3, <2>4 DEF Keys, PromptKey, WatchKey, CancelKey
  <2>5. CASE Daemon \/ Requests \/ Leaving
    BY <2>3, <2>5 DEF Daemon, TableChanges, Publish, ServeRun, AddLate, ServeCancel, Requests,
       SubmitAnswered, SubmitTimesOut, CancelAnswered, Leaving, CancelContext, AppReturns
  <2>6. CASE TakeStreamFailed \/ StreamReturns \/ StreamResult \/ TellNobody
    BY <2>3, <2>6 DEF TakeStreamFailed, StreamReturns, StreamResult, TellNobody
  <2> QED BY <1>1, <2>1, <2>2, <2>3, <2>4, <2>5, <2>6 DEF Next, vars
<1>2. [Next]_vars => [view' # view /\ cursorID \in Cancellable(view')
                        => UNCHANGED cursorID]_vars
  BY <1>1
<1> QED BY <1>2, PTL DEF Spec, CursorStays

-----------------------------------------------------------------------------
(* The two halves of the cursor.  The places of the n runs of a list are n  *)
(* different numbers below n, so every number below n is a run's place.     *)

LEMMA IndexBelow ==
    ASSUME NEW live \in SUBSET Runs, NEW r \in live
    PROVE  Index(live, r) \in Nat /\ Index(live, r) < Cardinality(live)
<1> DEFINE R == {x \in live : x < r}
<1>1. R \in SUBSET live /\ r \notin R
  BY DashboardAssumption
<1>2. /\ IsFiniteSet(live) /\ Cardinality(live) \in Nat
      /\ Cardinality(R) \in Nat /\ Index(live, r) = Cardinality(R)
  BY IndexType DEF Index
<1> HIDE DEF R
<1>3. Cardinality(R) <= Cardinality(live) /\ Cardinality(R) # Cardinality(live)
  BY <1>1, <1>2, FS_Subset
<1> QED BY <1>2, <1>3

LEMMA RunAtEvery ==
    ASSUME NEW live \in SUBSET Runs, NEW i \in Nat, i < Cardinality(live)
    PROVE  RunAt(live, i) \in live /\ Index(live, RunAt(live, i)) = i
<1> DEFINE n == Cardinality(live)
           others == (0 .. n - 1) \ {i}
           place == [r \in live |-> Index(live, r)]
<1>1. IsFiniteSet(live) /\ n \in Nat
  <2>1. live # {}
    BY FS_EmptySet
  <2>2. PICK r \in live : TRUE
    BY <2>1
  <2> QED BY <2>2, IndexType
<1>2. \E r \in live : Index(live, r) = i
  <2> SUFFICES ASSUME \A r \in live : Index(live, r) # i
               PROVE  FALSE
    OBVIOUS
  <2>1. place \in [live -> others]
    <3>1. ASSUME NEW r \in live
          PROVE  Index(live, r) \in others
      <4>1. Index(live, r) \in Nat /\ Index(live, r) < n /\ Index(live, r) # i
        BY IndexBelow
      <4> HIDE DEF n
      <4> QED BY <4>1, <1>1
    <3> QED BY <3>1
  <2>2. IsFiniteSet(others) /\ Cardinality(others) = n - 1
    <3> HIDE DEF n
    <3>1. IsFiniteSet(0 .. n - 1) /\ Cardinality(0 .. n - 1) = n
      <4>1. 0 \in Int /\ n - 1 \in Int
        BY <1>1
      <4>2. /\ IsFiniteSet(0 .. n - 1)
            /\ Cardinality(0 .. n - 1) = IF 0 > n - 1 THEN 0 ELSE (n - 1) - 0 + 1
        BY <4>1, FS_Interval
      <4> QED BY <4>2, <1>1
    <3>2. i \in 0 .. n - 1
      BY <1>1 DEF n
    <3> QED BY <3>1, <3>2, FS_RemoveElement
  <2>3. Cardinality(others) < Cardinality(live)
    BY <1>1, <2>2
  <2>4. \E r, s \in live : r # s /\ place[r] = place[s]
    <3> HIDE DEF others, place, n
    <3> QED BY <1>1, <2>1, <2>2, <2>3, FS_PigeonHole
  <2>5. PICK r \in live, s \in live : r # s /\ place[r] = place[s]
    BY <2>4
  <2>6. Index(live, r) = Index(live, s)
    BY <2>5
  <2> QED BY <2>5, <2>6, IndexInjective
<1> DEFINE c == CHOOSE r \in live : Index(live, r) = i
<1>3. c \in live /\ Index(live, c) = i
  BY <1>2
<1>4. RunAt(live, i) = c
  BY <1>2 DEF RunAt
<1> QED BY <1>3, <1>4

LEMMA AtMostBelow ==
    ASSUME NEW live \in SUBSET Runs, live # {}, NEW i \in Nat
    PROVE  /\ AtMost(i, live) \in Nat /\ AtMost(i, live) < Cardinality(live)
           /\ 0 < Cardinality(live)
<1>1. PICK r \in live : TRUE
  OBVIOUS
<1>2. Cardinality(live) \in Nat
  BY IndexType, <1>1
<1> QED BY <1>2, AtMostType DEF AtMost

LEMMA SelectAtSteady ==
    ASSUME NEW runs, NEW i \in Nat, i < Cardinality(Cancellable(runs)),
           SelectAt(Cancellable(runs), i)
    PROVE  /\ cursorID' \in Cancellable(runs)
           /\ cursor' = Index(Cancellable(runs), cursorID')
<1>1. Cancellable(runs) \in SUBSET Runs
  BY DEF Cancellable
<1> QED BY <1>1, RunAtEvery DEF SelectAt

LEMMA SyncCursorSteady ==
    ASSUME CursorOK, NEW snap, SyncCursor(snap), selecting'
    PROVE  /\ selecting
           /\ cursorID' \in Cancellable(snap)
           /\ cursor' = Index(Cancellable(snap), cursorID')
<1> DEFINE live == Cancellable(snap)
<1>1. live \in SUBSET Runs
  BY DEF Cancellable
<1>2. ~(~selecting /\ UNCHANGED cursorVars) /\ ~StopSelecting
  BY DEF cursorVars, StopSelecting
<1>3. selecting
  BY <1>2 DEF SyncCursor
<1>4. CASE cursorID \in live /\ SelectAt(live, Index(live, cursorID))
  <2>1. Index(live, cursorID) \in Nat /\ Index(live, cursorID) < Cardinality(live)
    BY <1>1, <1>4, IndexBelow
  <2> QED BY <1>3, <1>4, <2>1, SelectAtSteady
<1>5. CASE live # {} /\ SelectAt(live, AtMost(cursor, live))
  <2>1. AtMost(cursor, live) \in Nat /\ AtMost(cursor, live) < Cardinality(live)
    BY <1>1, <1>5, AtMostBelow DEF CursorOK
  <2> QED BY <1>3, <1>5, <2>1, SelectAtSteady
<1> QED BY <1>2, <1>4, <1>5 DEF SyncCursor

LEMMA MoveSteady ==
    ASSUME CursorOK, NEW delta, Move(delta), selecting'
    PROVE  /\ cursorID' \in Cancellable(view)
           /\ cursor' = Index(Cancellable(view), cursorID')
<1> DEFINE live == Cancellable(view)
           next == IF delta = "down" THEN cursor + 1
                   ELSE IF cursor > 0 THEN cursor - 1 ELSE 0
<1>1. live \in SUBSET Runs /\ next \in Nat
  BY DEF Cancellable, CursorOK
<1>2. live # {} /\ SelectAt(live, AtMost(next, live))
  BY DEF Move, StopSelecting
<1>3. AtMost(next, live) \in Nat /\ AtMost(next, live) < Cardinality(live)
  BY <1>1, <1>2, AtMostBelow
<1> QED BY <1>2, <1>3, SelectAtSteady

LEMMA StepStep == TypeOK /\ CursorInStep /\ [Next]_vars => CursorInStep'
<1> SUFFICES ASSUME TypeOK, CursorInStep, [Next]_vars, selecting'
             PROVE  /\ mode' = "watch"
                    /\ cursorID' \in Cancellable(view)'
                    /\ cursor' = Index(Cancellable(view), cursorID)'
  BY Zenon DEF CursorInStep
<1> USE DEF daemonVars, watchVars, requestVars, exitVars
<1>0. CursorOK
  BY DEF CursorOK, TypeOK
<1>u. CASE UNCHANGED <<view, cursorVars, mode>>
  BY <1>u DEF CursorInStep, cursorVars, Cancellable, Index
<1>n. ~StopSelecting
  BY DEF StopSelecting
<1>1. CASE TakeSnapshot
  <2>1. PICK snap \in wire : view' = snap /\ SyncCursor(snap)
    BY <1>1 DEF TakeSnapshot
  <2>2. mode' = mode
    BY <1>1 DEF TakeSnapshot
  <2>3. /\ selecting
        /\ cursorID' \in Cancellable(snap)
        /\ cursor' = Index(Cancellable(snap), cursorID')
    BY <1>0, <2>1, SyncCursorSteady
  <2> QED BY <2>1, <2>2, <2>3 DEF CursorInStep, Cancellable, Index
<1>2. CASE PromptKey
  BY <1>2 DEF PromptKey, CursorInStep, cursorVars
<1>3. CASE WatchKey
  <2>1. /\ Cancellable(view) # {} /\ SelectAt(Cancellable(view), 0)
        /\ mode' = mode /\ mode = "watch" /\ view' = view
    BY <1>3 DEF WatchKey, cursorVars
  <2>2. Cancellable(view) \in SUBSET Runs
    BY DEF Cancellable
  <2>3. 0 < Cardinality(Cancellable(view))
    BY <2>1, <2>2, AtMostBelow
  <2>4. /\ cursorID' \in Cancellable(view)
        /\ cursor' = Index(Cancellable(view), cursorID')
    BY <2>1, <2>3, SelectAtSteady
  <2> QED BY <2>1, <2>4 DEF Cancellable, Index
<1>4. CASE CancelKey
  <2>1. mode' = mode /\ mode = "watch" /\ view' = view
    BY <1>4 DEF CancelKey
  <2>2. CASE \E delta \in {"up", "down"} : Move(delta)
    <3>1. /\ cursorID' \in Cancellable(view)
          /\ cursor' = Index(Cancellable(view), cursorID')
      BY <1>0, <2>2, MoveSteady
    <3> QED BY <2>1, <3>1 DEF Cancellable, Index
  <2>3. CASE UNCHANGED cursorVars
    BY <1>u, <2>1, <2>3
  <2> QED BY <1>4, <1>n, <2>2, <2>3 DEF CancelKey
<1>5. CASE ProgramEnds
  BY <1>5, <1>n DEF ProgramEnds
<1>6. CASE Daemon
  BY <1>6, <1>u DEF Daemon, TableChanges, Publish, ServeRun, AddLate, ServeCancel
<1>7. CASE Requests
  BY <1>7, <1>u DEF Requests, SubmitAnswered, SubmitTimesOut, CancelAnswered
<1>8. CASE TakeStreamFailed \/ StreamReturns \/ StreamResult \/ TellNobody
  BY <1>8, <1>u DEF TakeStreamFailed, StreamReturns, StreamResult, TellNobody
<1>9. CASE Leaving
  BY <1>9, <1>u DEF Leaving, CancelContext, AppReturns
<1>10. CASE UNCHANGED vars
  BY <1>10, <1>u DEF vars
<1> QED BY <1>1, <1>2, <1>3, <1>4, <1>5, <1>6, <1>7, <1>8, <1>9, <1>10 DEF Next, Keys

\* While the user selects, the cursor's index and its run are the same entry of the
\* list on the screen (move and syncCursor set them together): no key indexes past it.
THEOREM CursorInStepHolds == Spec => []CursorInStep
<1>1. Init => CursorInStep
  BY DEF Init, CursorInStep
<1>2. TypeOK /\ CursorInStep /\ [Next]_vars => CursorInStep'
  BY StepStep
<1> QED BY <1>1, <1>2, TypesHold, PTL DEF Spec

-----------------------------------------------------------------------------
(* The notes.                                                               *)

\* What the daemon's table holds of a run follows from how far its submission is: only
\* this terminal can submit it, so until it is served there is no such run.
SubmissionFollows ==
    \A r \in Runs :
        /\ submits[r] \in {"created", "queued"} => table[r] # "none"
        /\ submits[r] \in {"sent", "refused", "failed"} => r \in Mine /\ table[r] = "none"
        /\ Handles /\ r \in Mine /\ submits[r] = "idle" => table[r] = "none"

LEMMA SubmissionStep == TypeOK /\ SubmissionFollows /\ [Next]_vars => SubmissionFollows'
<1> SUFFICES ASSUME TypeOK, SubmissionFollows, [Next]_vars
             PROVE  SubmissionFollows'
  OBVIOUS
<1> SUFFICES ASSUME NEW r \in Runs
             PROVE  /\ submits'[r] \in {"created", "queued"} => table'[r] # "none"
                    /\ submits'[r] \in {"sent", "refused", "failed"}
                         => r \in Mine /\ table'[r] = "none"
                    /\ Handles' /\ r \in Mine /\ submits'[r] = "idle" => table'[r] = "none"
  BY DEF SubmissionFollows
<1>t. table \in [Runs -> {"none", "live", "ended"}] /\ DOMAIN submits = Runs
  BY DEF TypeOK, Tables
<1>f. /\ submits[r] \in {"created", "queued"} => table[r] # "none"
      /\ submits[r] \in {"sent", "refused", "failed"} => r \in Mine /\ table[r] = "none"
      /\ Handles /\ r \in Mine /\ submits[r] = "idle" => table[r] = "none"
  BY DEF SubmissionFollows
<1> USE DEF daemonVars, watchVars, requestVars, exitVars
<1>1. CASE UNCHANGED <<table, submits>> /\ (Handles' => Handles)
  BY <1>1, <1>f
<1>2. CASE TableChanges
  BY <1>2, <1>t, <1>f DEF TableChanges, Handles
<1>3. CASE ServeRun
  <2>1. PICK s \in Runs :
          /\ submits[s] = "sent"
          /\ \/ /\ table' = [table EXCEPT ![s] = "live"]
                /\ submits' = [submits EXCEPT ![s] = "created"]
             \/ submits' = [submits EXCEPT ![s] = "refused"] /\ table' = table
             \/ /\ table' \in {table, [table EXCEPT ![s] = "live"]}
                /\ submits' = [submits EXCEPT ![s] = "stopped"]
    BY <1>3, Zenon DEF ServeRun
  <2>2. Handles
    BY <1>3 DEF ServeRun
  <2>3. CASE r = s
    BY <1>t, <1>f, <2>1, <2>2, <2>3
  <2>4. CASE r # s
    BY <1>t, <1>f, <2>1, <2>2, <2>4
  <2> QED BY <2>3, <2>4
<1>4. CASE ServeCancel
  <2>1. PICK s \in Runs :
          \/ table[s] = "live" /\ table' \in {table, [table EXCEPT ![s] = "ended"]}
          \/ UNCHANGED table
    BY <1>4, Zenon DEF ServeCancel
  <2>2. UNCHANGED submits /\ Handles
    BY <1>4 DEF ServeCancel
  <2> QED BY <1>t, <1>f, <2>1, <2>2
<1>5. CASE PromptKey
  <2>1. Handles
    BY <1>5 DEF PromptKey
  <2> QED BY <1>5, <1>t, <1>f, <2>1 DEF PromptKey
<1>6. CASE SubmitAnswered
  BY <1>6, <1>t, <1>f DEF SubmitAnswered, Handles
<1>7. CASE SubmitTimesOut
  BY <1>7, <1>t, <1>f DEF SubmitTimesOut, Handles
<1>13. CASE AddLate
  BY <1>13, <1>t, <1>f DEF AddLate, Handles
<1>8. CASE ProgramEnds
  BY <1>8, <1>f DEF ProgramEnds, NoRequests, Handles
<1>9. CASE WatchKey \/ CancelKey \/ TakeSnapshot \/ TakeStreamFailed
  BY <1>1, <1>9 DEF WatchKey, CancelKey, TakeSnapshot, TakeStreamFailed, Handles
<1>10. CASE Publish \/ CancelAnswered \/ StreamReturns \/ StreamResult \/ TellNobody
  BY <1>1, <1>10
     DEF Publish, CancelAnswered, StreamReturns, StreamResult, TellNobody, Handles
<1>11. CASE Leaving
  BY <1>1, <1>11 DEF Leaving, CancelContext, AppReturns, Handles
<1>12. CASE UNCHANGED vars
  BY <1>1, <1>12 DEF vars, Handles
<1> QED BY <1>2, <1>3, <1>4, <1>5, <1>6, <1>7, <1>8, <1>9, <1>10, <1>11, <1>12, <1>13
        DEF Next, Keys, Daemon, Requests

\* A run noted as queued is one of the daemon's, one noted as refused is not: a client
\* that gave up notes neither.
THEOREM NotesHold == Spec => []NotesAreTrue
<1>1. Init => SubmissionFollows
  BY DEF Init, SubmissionFollows, NoRequests, NoRuns
<1>2. SubmissionFollows => NotesAreTrue
  BY DEF SubmissionFollows, NotesAreTrue
<1> QED BY <1>1, <1>2, TypesHold, SubmissionStep, PTL DEF Spec

-----------------------------------------------------------------------------
(* The end of App.                                                          *)

\* Where App and the stream's goroutine are, and what has been left in the channel.
ExitFollows ==
    /\ stream \in {"reading", "error", "nil"} => streamErr = Empty
    /\ stream = "telling" => streamErr = "error"
    /\ stream = "gone" => streamErr # Empty
    /\ streamErr = "nil" => ctxDone
    /\ quit = "stream" => streamErr = "error"
    /\ app = "quitting" => quit \in {"user", "stream"}
    /\ app = "running" => quit = "none"
    /\ app \in {"leaving", "waiting", "returned", "failed"} => quit # "none"
    /\ app = "returned" => quit # "program" /\ streamErr = "nil"
    /\ app = "failed" => quit = "program" \/ streamErr = "error"

LEMMA ExitStep == TypeOK /\ ExitFollows /\ [Next]_vars => ExitFollows'
<1> SUFFICES ASSUME TypeOK, ExitFollows, [Next]_vars
             PROVE  ExitFollows'
  OBVIOUS
<1> USE DEF ExitFollows, ctxDone, Handles
<1>t. /\ stream \in {"reading", "error", "nil", "telling", "gone"}
      /\ streamErr \in {"empty", "nil", "error"}
      /\ app \in {"running", "quitting", "leaving", "waiting", "returned", "failed"}
      /\ quit \in {"none", "user", "stream", "killed", "program"}
  BY DEF TypeOK
<1>1. CASE UNCHANGED exitVars
  BY <1>1 DEF exitVars
<1>2. CASE Quit("user") /\ Handles
  BY <1>2, <1>t DEF Quit
<1>3. CASE TakeStreamFailed
  BY <1>3, <1>t DEF TakeStreamFailed
<1>4. CASE StreamReturns
  BY <1>4, <1>t DEF StreamReturns
<1>5. CASE StreamResult
  BY <1>5, <1>t DEF StreamResult
<1>6. CASE TellNobody
  BY <1>6, <1>t DEF TellNobody
<1>7. CASE ProgramEnds
  BY <1>7, <1>t DEF ProgramEnds
<1>8. CASE Leaving
  BY <1>8, <1>t DEF Leaving, CancelContext, AppReturns
<1>9. CASE Keys
  BY <1>1, <1>2, <1>9 DEF Keys, PromptKey, WatchKey, CancelKey
<1>10. CASE Daemon \/ Requests \/ TakeSnapshot
  BY <1>1, <1>10 DEF Daemon, TableChanges, Publish, ServeRun, AddLate, ServeCancel, Requests,
     SubmitAnswered, SubmitTimesOut, CancelAnswered, TakeSnapshot
<1>11. CASE UNCHANGED vars
  BY <1>1, <1>11 DEF vars
<1> QED BY <1>3, <1>4, <1>5, <1>6, <1>7, <1>8, <1>9, <1>10, <1>11 DEF Next

\* App ends without an error only for a user who left: a stream that failed, or just
\* ended, has put its error in the channel before the program is told.
THEOREM ExitTellsHolds == Spec => []ExitTells
<1>1. Init => ExitFollows
  BY DEF Init, ExitFollows, ctxDone
<1>2. TypeOK /\ ExitFollows => ExitTells
  BY DEF TypeOK, ExitFollows, ExitTells
<1> QED BY <1>1, <1>2, TypesHold, ExitStep, PTL DEF Spec
===============================================================================
