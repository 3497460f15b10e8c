----------------------- MODULE DaemonLifecycle_proofs -----------------------
(***************************************************************************)
(* Proofs about DaemonLifecycle for every number of processes and faults:  *)
(* one daemon at a time, on a path that leads to it, a PID that is the     *)
(* holder's, and a `daemon stop` whose report is true.                     *)
(***************************************************************************)
EXTENDS DaemonLifecycle, TLAPS

-----------------------------------------------------------------------------
(* The inductive invariant.                                                 *)

\* RunServer is past lock.Acquire and has not released the lock.
Registered == {"recorded", "removed", "listening", "launched", "serving",
               "draining", "closing", "releasing"}

\* The flock is taken.
Locked == {"locked", "truncated"} \cup Registered

Gone == {"released", "ended"}

HoldersLock == \A d \in Daemons : phase[d] \in Locked => lock = d

\* A probe holds the lock for as long as it takes to give it back.
ProbesLock ==
    \A t \in Stoppers : stop[t] \in {"unlocking", "unlockingAgain"} => lock = t

ListenersBind ==
    \A d \in bound : /\ socket = d
                     /\ phase[d] \in {"listening", "launched", "serving",
                                      "draining", "closing"}

\* The file may name a daemon of the past, but none of the future.
RecordedOnce == recorded \in Daemons => phase[recorded] \in Registered \cup Gone

\* So whom a stop signals has been the holder.
TargetsRegistered ==
    \A t \in Stoppers :
        /\ target[t] \in Daemons => phase[target[t]] \in Registered \cup Gone
        /\ stop[t] \in {"polling", "unlockingAgain", "readingAgain", "stopped", "assumed"}
             => target[t] \in termed

\* A connection is accepted by a daemon that serves, so by one that holds the lock
\* until it releases it.
AcceptedServed ==
    \A c \in Clients : client[c] \in Accepted =>
        phase[peer[c]] \in {"serving", "draining", "closing", "releasing"} \cup Gone

\* Owner only reads a file that is there.
FileExists == \A t \in Stoppers : stop[t] = "reading" => recorded # Absent

LifeInv ==
    /\ TypeOK /\ FileExists
    /\ HoldersLock /\ ProbesLock
    /\ ListenersBind
    /\ HolderRecorded /\ RecordedOnce
    /\ TargetsRegistered /\ StoppedIsGone
    /\ AcceptedServed

LEMMA Disjoint ==
    /\ None \notin Daemons /\ None \notin Stoppers
    /\ Absent \notin Daemons /\ Absent # None
    /\ \A d \in Daemons, t \in Stoppers : d # t
BY DaemonLifecycleAssumption

LEMMA LifeInit == Init => LifeInv
<1> SUFFICES ASSUME Init PROVE LifeInv
  OBVIOUS
<1>1. phase \in [Daemons -> {"none", "ended"}]
  BY DEF Init
<1>2. TypeOK
  <2>1. 0 \in 0 .. MaxFaults
    BY DaemonLifecycleAssumption
  <2>2. QED
    BY <1>1, <2>1 DEF Init, TypeOK, Phases, Outcomes, ClientStates, StopStates,
                        Asking, Accepted
<1>3. RecordedOnce
  BY Disjoint DEF Init, RecordedOnce, Gone
<1>4. QED
  BY <1>1, <1>2, <1>3, Disjoint
  DEF Init, LifeInv, HoldersLock, ProbesLock, ListenersBind, HolderRecorded,
      FileExists, TargetsRegistered, StoppedIsGone, AcceptedServed, Accepted,
      Locked, Registered

-----------------------------------------------------------------------------
(* Type correctness.                                                        *)

LEMMA TypeDaemon ==
    ASSUME TypeOK, NEW d \in Daemons,
           Launch(d) \/ DaemonStep(d) \/ DaemonFault(d) \/ StageBegins(d) \/ StageEnds(d)
    PROVE  TypeOK'
<1> USE DEF fileVars, daemonVars, clientVars, stopVars, Goto, Ends, FreedBy
<1>1. /\ phase' \in [Daemons -> Phases]
      /\ outcome' \in [Daemons -> Outcomes]
  BY DEF TypeOK, Launch, DaemonStep, OpenLock, Flock, TruncatePid, RecordPid,
         RemoveSocket, Listen, Setup, Serve, Shutdown, ShutdownReturns,
         CloseListener, Release, Exit, DaemonFault, AcquireFails, RemoveFails,
         ListenFails, ServerFails, Kill, StageBegins, StageEnds, Phases, Outcomes
<1>2. /\ lock' \in Daemons \cup Stoppers \cup {None}
      /\ recorded' \in Daemons \cup {None, Absent}
      /\ socket' \in Daemons \cup {None}
  BY DEF TypeOK, Launch, DaemonStep, OpenLock, Flock, TruncatePid, RecordPid,
         RemoveSocket, Listen, Setup, Serve, Shutdown, ShutdownReturns,
         CloseListener, Release, Exit, DaemonFault, AcquireFails, RemoveFails,
         ListenFails, ServerFails, Kill, StageBegins, StageEnds
<1>3. bound' \subseteq Daemons /\ termed' \subseteq Daemons /\ containers' \subseteq Daemons
  BY DEF TypeOK, Launch, DaemonStep, OpenLock, Flock, TruncatePid, RecordPid,
         RemoveSocket, Listen, Setup, Serve, Shutdown, ShutdownReturns,
         CloseListener, Release, Exit, DaemonFault, AcquireFails, RemoveFails,
         ListenFails, ServerFails, Kill, StageBegins, StageEnds
<1>4. faults' \in 0 .. MaxFaults
  <2>1. MaxFaults \in Nat /\ faults \in 0 .. MaxFaults
    BY DaemonLifecycleAssumption DEF TypeOK
  <2>2. UNCHANGED faults \/ (faults < MaxFaults /\ faults' = faults + 1)
    BY DEF Launch, DaemonStep, OpenLock, Flock, TruncatePid, RecordPid,
           RemoveSocket, Listen, Setup, Serve, Shutdown, ShutdownReturns,
           CloseListener, Release, Exit, DaemonFault, AcquireFails, RemoveFails,
           ListenFails, ServerFails, Kill, StageBegins, StageEnds, Fault
  <2>3. QED
    BY <2>1, <2>2
<1>5. UNCHANGED <<clientVars, stopVars>>
  BY DEF Launch, DaemonStep, OpenLock, Flock, TruncatePid, RecordPid,
         RemoveSocket, Listen, Setup, Serve, Shutdown, ShutdownReturns,
         CloseListener, Release, Exit, DaemonFault, AcquireFails, RemoveFails,
         ListenFails, ServerFails, Kill, StageBegins, StageEnds
<1>6. QED
  BY <1>1, <1>2, <1>3, <1>4, <1>5 DEF TypeOK

LEMMA TypeClient ==
    ASSUME TypeOK, NEW c \in Clients, ClientStep(c) \/ GiveUp(c)
    PROVE  TypeOK'
<1> USE DEF fileVars, daemonVars, clientVars, stopVars, Becomes, Goto, Asking, Accepted
<1>1. phase' \in [Daemons -> Phases]
  BY DEF TypeOK, ClientStep, Dial, Spawn, Redial, Accept, Answer, Reset, GiveUp, Phases
<1>2. /\ client' \in [Clients -> ClientStates]
      /\ peer' \in [Clients -> Daemons \cup {None}]
  BY DEF TypeOK, ClientStep, Dial, Spawn, Redial, Accept, Answer, Reset, GiveUp,
         ClientStates
<1>3. \A e \in Clients : client'[e] \in Asking \cup Accepted => peer'[e] # None
  BY DEF TypeOK, ClientStep, Dial, Spawn, Redial, Accept, Answer, Reset, GiveUp,
         Listening
<1>4. UNCHANGED <<fileVars, outcome, bound, termed, containers, faults, stopVars>>
  BY DEF ClientStep, Dial, Spawn, Redial, Accept, Answer, Reset, GiveUp
<1>5. QED
  BY <1>1, <1>2, <1>3, <1>4 DEF TypeOK

LEMMA TypeStop ==
    ASSUME TypeOK, FileExists, NEW t \in Stoppers,
           StopStep(t) \/ StopTimesOut(t) \/ OwnerFails(t)
    PROVE  TypeOK'
<1> USE DEF fileVars, daemonVars, clientVars, stopVars, Turns, FreedBy
<1>1. lock' \in Daemons \cup Stoppers \cup {None}
  BY DEF TypeOK, StopStep, Probe, Unlock, ReadOwner, Signal, ReadAgain,
         StopTimesOut, OwnerFails
<1>2. /\ stop' \in [Stoppers -> StopStates]
      /\ target' \in [Stoppers -> Daemons \cup {None}]
  BY DEF TypeOK, FileExists, StopStep, Probe, Unlock, ReadOwner, Signal,
         ReadAgain, StopTimesOut, OwnerFails, StopStates
<1>3. \A u \in Stoppers : stop'[u] = "signalling" => target'[u] # None
  BY DEF TypeOK, StopStep, Probe, Unlock, ReadOwner, Signal, ReadAgain,
         StopTimesOut, OwnerFails
<1>4. termed' \subseteq Daemons
  BY DEF TypeOK, StopStep, Probe, Unlock, ReadOwner, Signal, ReadAgain,
         StopTimesOut, OwnerFails
<1>5. faults' \in 0 .. MaxFaults
  <2>1. MaxFaults \in Nat /\ faults \in 0 .. MaxFaults
    BY DaemonLifecycleAssumption DEF TypeOK
  <2>2. UNCHANGED faults \/ (faults < MaxFaults /\ faults' = faults + 1)
    BY DEF StopStep, Probe, Unlock, ReadOwner, Signal, ReadAgain, StopTimesOut,
           OwnerFails, Fault
  <2>3. QED
    BY <2>1, <2>2
<1>6. UNCHANGED <<recorded, socket, phase, outcome, bound, containers, clientVars>>
  BY DEF StopStep, Probe, Unlock, ReadOwner, Signal, ReadAgain, StopTimesOut,
         OwnerFails
<1>7. QED
  BY <1>1, <1>2, <1>3, <1>4, <1>5, <1>6 DEF TypeOK

-----------------------------------------------------------------------------
(* The steps of a daemon.                                                   *)

LEMMA LifeDaemon ==
    ASSUME LifeInv, TypeOK', NEW d \in Daemons,
           Launch(d) \/ DaemonStep(d) \/ DaemonFault(d) \/ StageBegins(d) \/ StageEnds(d)
    PROVE  LifeInv'
<1> USE Disjoint DEF daemonVars, fileVars, clientVars, stopVars, Goto, Ends, FreedBy
<1> USE DEF LifeInv, TypeOK, FileExists, HoldersLock, ProbesLock, ListenersBind,
            HolderRecorded, RecordedOnce, TargetsRegistered, StoppedIsGone,
            AcceptedServed, Accepted, Asking, Locked, Registered, Gone
<1>1. CASE Launch(d)
  BY <1>1 DEF Launch
<1>2. CASE OpenLock(d)
  BY <1>2 DEF OpenLock
<1>3. CASE Flock(d)
  BY <1>3 DEF Flock
<1>4. CASE TruncatePid(d)
  BY <1>4 DEF TruncatePid
<1>5. CASE RecordPid(d)
  BY <1>5 DEF RecordPid
<1>6. CASE AcquireFails(d)
  BY <1>6 DEF AcquireFails
<1>7. CASE RemoveSocket(d)
  BY <1>7 DEF RemoveSocket
<1>8. CASE RemoveFails(d)
  BY <1>8 DEF RemoveFails
<1>9. CASE Listen(d)
  BY <1>9 DEF Listen
<1>10. CASE ListenFails(d)
  BY <1>10 DEF ListenFails
<1>11. CASE Setup(d)
  BY <1>11 DEF Setup
<1>12. CASE ServerFails(d)
  BY <1>12 DEF ServerFails
<1>13. CASE Serve(d)
  BY <1>13 DEF Serve
<1>14. CASE Shutdown(d)
  BY <1>14 DEF Shutdown
<1>15. CASE ShutdownReturns(d)
  BY <1>15 DEF ShutdownReturns
<1>16. CASE CloseListener(d)
  BY <1>16 DEF CloseListener
<1>17. CASE Release(d)
  BY <1>17 DEF Release
<1>18. CASE Exit(d)
  BY <1>18 DEF Exit
<1>19. CASE Kill(d)
  BY <1>19 DEF Kill
<1>20. CASE StageBegins(d)
  BY <1>20 DEF StageBegins
<1>21. CASE StageEnds(d)
  BY <1>21 DEF StageEnds
<1>22. QED
  BY <1>1, <1>2, <1>3, <1>4, <1>5, <1>6, <1>7, <1>8, <1>9, <1>10, <1>11, <1>12, <1>13, <1>14, <1>15, <1>16, <1>17, <1>18, <1>19, <1>20, <1>21
  DEF DaemonStep, DaemonFault

-----------------------------------------------------------------------------
(* The steps of the commands.                                               *)

\* A client only reads the files; what it spawns has done nothing yet.
LEMMA LifeClient ==
    ASSUME LifeInv, TypeOK', NEW c \in Clients, ClientStep(c) \/ GiveUp(c)
    PROVE  LifeInv'
<1> USE Disjoint DEF daemonVars, fileVars, clientVars, stopVars, Goto, Becomes
<1> USE DEF LifeInv, TypeOK, FileExists, HoldersLock, ProbesLock, ListenersBind,
            HolderRecorded, RecordedOnce, TargetsRegistered, StoppedIsGone,
            AcceptedServed, Accepted, Asking, Locked, Registered, Gone
<1>1. CASE Spawn(c)
  BY <1>1 DEF Spawn
<1>2. CASE Dial(c) \/ Redial(c) \/ Accept(c) \/ Answer(c) \/ Reset(c) \/ GiveUp(c)
  BY <1>2 DEF Dial, Redial, Accept, Answer, Reset, GiveUp
<1>3. QED
  BY <1>1, <1>2 DEF ClientStep

LEMMA LifeStop ==
    ASSUME LifeInv, TypeOK', NEW t \in Stoppers,
           StopStep(t) \/ StopTimesOut(t) \/ OwnerFails(t)
    PROVE  LifeInv'
<1> USE Disjoint DEF daemonVars, fileVars, clientVars, stopVars, Turns, FreedBy
<1> USE DEF LifeInv, TypeOK, FileExists, HoldersLock, ProbesLock, ListenersBind,
            HolderRecorded, RecordedOnce, TargetsRegistered, StoppedIsGone,
            AcceptedServed, Accepted, Asking, Locked, Registered, Gone
\* A daemon that holds the lock is in no probe's way.
<1>1. CASE Probe(t)
  BY <1>1 DEF Probe
\* The lock was free, so the target is not among its holders.
<1>2. CASE Unlock(t)
  BY <1>2 DEF Unlock
<1>3. CASE ReadOwner(t)
  BY <1>3 DEF ReadOwner
<1>4. CASE Signal(t)
  BY <1>4 DEF Signal
\* The file names somebody else, and a holder would have been named.
<1>5. CASE ReadAgain(t)
  BY <1>5 DEF ReadAgain
<1>6. CASE StopTimesOut(t)
  BY <1>6 DEF StopTimesOut
<1>7. CASE OwnerFails(t)
  BY <1>7 DEF OwnerFails
<1>8. QED
  BY <1>1, <1>2, <1>3, <1>4, <1>5, <1>6, <1>7 DEF StopStep

LEMMA LifeStep == LifeInv /\ [Next]_vars => LifeInv'
<1> SUFFICES ASSUME LifeInv, [Next]_vars PROVE LifeInv'
  OBVIOUS
<1>0. TypeOK /\ FileExists
  BY DEF LifeInv
<1>1. ASSUME NEW d \in Daemons,
             Launch(d) \/ DaemonStep(d) \/ DaemonFault(d) \/ StageBegins(d) \/ StageEnds(d)
      PROVE  LifeInv'
  BY <1>0, <1>1, TypeDaemon, LifeDaemon
<1>2. ASSUME NEW c \in Clients, ClientStep(c) \/ GiveUp(c) PROVE LifeInv'
  BY <1>0, <1>2, TypeClient, LifeClient
<1>3. ASSUME NEW t \in Stoppers, StopStep(t) \/ StopTimesOut(t) \/ OwnerFails(t)
      PROVE  LifeInv'
  BY <1>0, <1>3, TypeStop, LifeStop
<1>4. CASE UNCHANGED vars
  BY <1>4 DEF vars, daemonVars, fileVars, clientVars, stopVars, LifeInv, TypeOK,
              FileExists, HoldersLock, ProbesLock, ListenersBind, HolderRecorded,
              RecordedOnce, TargetsRegistered, StoppedIsGone, AcceptedServed
<1>5. QED
  BY <1>1, <1>2, <1>3, <1>4 DEF Next

LEMMA LifeCorrect == Spec => []LifeInv
BY LifeInit, LifeStep, PTL DEF Spec

-----------------------------------------------------------------------------
(* The theorems.                                                            *)

\* Every variable keeps its type; nobody asks or signals a process that is none.
THEOREM TypeCorrect == Spec => []TypeOK
<1>1. LifeInv => TypeOK
  BY DEF LifeInv
<1>2. QED
  BY <1>1, LifeCorrect, PTL

\* A daemon that listens has the lock, and the socket's path leads to it.
THEOREM OneDaemon == Spec => []ListenerReachable
<1>1. LifeInv => ListenerReachable
  BY DEF LifeInv, TypeOK, ListenersBind, HoldersLock, ListenerReachable, Locked,
         Registered
<1>2. QED
  BY <1>1, LifeCorrect, PTL

\* The lock file names the daemon that serves.
THEOREM PidIsHolders == Spec => []HolderRecorded
<1>1. LifeInv => HolderRecorded
  BY DEF LifeInv
<1>2. QED
  BY <1>1, LifeCorrect, PTL

\* What `dock daemon stop` reports as stopped has let go of the lock for good.
THEOREM StopIsTrue == Spec => []StoppedIsGone
<1>1. LifeInv => StoppedIsGone
  BY DEF LifeInv
<1>2. QED
  BY <1>1, LifeCorrect, PTL

\* A client is answered by the daemon that holds the lock, or that has just released
\* it, and by no other.
THEOREM OnlyHolderAnswers == Spec => AnsweredByHolder
<1>1. ASSUME LifeInv, [Next]_vars, NEW c \in Clients,
             client[c] # "connected", client'[c] = "connected"
      PROVE  lock = peer[c] \/ phase[peer[c]] = "released"
  <2>1. Answer(c)
    <3>1. ASSUME UNCHANGED clientVars PROVE FALSE
      BY <1>1, <3>1 DEF clientVars
    <3>2. ASSUME NEW d \in Daemons,
                 Launch(d) \/ DaemonStep(d) \/ DaemonFault(d) \/ StageBegins(d) \/ StageEnds(d)
          PROVE  UNCHANGED clientVars
      BY <3>2
      DEF Launch, DaemonStep, OpenLock, Flock, TruncatePid, RecordPid, RemoveSocket,
          Listen, Setup, Serve, Shutdown, ShutdownReturns, CloseListener, Release,
          Exit, DaemonFault, AcquireFails, RemoveFails, ListenFails, ServerFails,
          Kill, StageBegins, StageEnds
    <3>3. ASSUME NEW t \in Stoppers, StopStep(t) \/ StopTimesOut(t) \/ OwnerFails(t)
          PROVE  UNCHANGED clientVars
      BY <3>3 DEF StopStep, Probe, Unlock, ReadOwner, Signal, ReadAgain, StopTimesOut,
                  OwnerFails
    <3>4. ASSUME NEW b \in Clients, ClientStep(b) \/ GiveUp(b) PROVE Answer(c)
      <4>1. b = c /\ ~Dial(b) /\ ~Spawn(b) /\ ~Redial(b) /\ ~Accept(b) /\ ~Reset(b)
            /\ ~GiveUp(b)
        BY <1>1, <3>4 DEF LifeInv, TypeOK, ClientStep, Dial, Spawn, Redial, Accept,
                          Answer, Reset, GiveUp, Becomes
      <4>2. QED
        BY <3>4, <4>1 DEF ClientStep
    <3>5. QED
      BY <1>1, <3>1, <3>2, <3>3, <3>4 DEF Next, vars
  <2>2. peer[c] \in Daemons
    BY <1>1, <2>1 DEF LifeInv, TypeOK, Answer
  <2>3. phase[peer[c]] \in {"serving", "draining", "closing", "releasing", "released"}
    BY <1>1, <2>1 DEF LifeInv, AcceptedServed, Answer, Gone
  <2>4. QED
    BY <1>1, <2>2, <2>3 DEF LifeInv, HoldersLock, Locked, Registered
<1>2. LifeInv /\ [Next]_vars =>
        [\A c \in Clients :
           client[c] # "connected" /\ client'[c] = "connected"
             => lock = peer[c] \/ phase[peer[c]] = "released"]_vars
  BY <1>1
<1>3. QED
  BY <1>2, LifeCorrect, PTL DEF Spec, AnsweredByHolder
=============================================================================
