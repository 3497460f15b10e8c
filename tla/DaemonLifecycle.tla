--------------------------- MODULE DaemonLifecycle ---------------------------
(***************************************************************************)
(* The life of the daemon processes of one machine: `dock daemon run` takes *)
(* the file lock, records its PID in it, replaces the socket and serves;   *)
(* the commands start a daemon when they find none (daemon.Connect), and   *)
(* `dock daemon stop` finds the holder of the lock, signals it and waits   *)
(* for it to go.  All of them run at once, in processes that share nothing *)
(* but the lock file, the socket's path and signals.                       *)
(*                                                                         *)
(*   - lock.Acquire is four steps (open, flock, truncate, write) and       *)
(*     lock.Owner, which takes the lock for a moment to see whether it is  *)
(*     free, is two;                                                       *)
(*   - the path of the socket is a directory entry: whoever removes it     *)
(*     removes it whatever it leads to, and a connection made before       *)
(*     stays with the process that accepted it;                            *)
(*   - a process that is killed frees its lock and leaves its socket.      *)
(*                                                                         *)
(* A process is started once and is its own PID: the system's reuse of     *)
(* PIDs is left out.  Time is too: a wait may run out at any moment.       *)
(***************************************************************************)
EXTENDS Naturals

CONSTANTS
    Daemons,     \* the `dock daemon run` processes
    Clients,     \* the commands that call daemon.Connect
    Stoppers,    \* the `dock daemon stop` commands
    None,        \* no process: a free lock, an empty file, no socket
    Absent,      \* the lock file does not exist yet
    MaxFaults    \* how often a system call fails or somebody kills a daemon

ASSUME DaemonLifecycleAssumption ==
    /\ MaxFaults \in Nat
    /\ Daemons \cap Stoppers = {}
    /\ None \notin Daemons \cup Stoppers
    /\ Absent \notin Daemons \cup {None}

VARIABLES
    lock,        \* who holds the flock
    recorded,    \* the content of the lock file
    socket,      \* the daemon whose socket the path leads to
    phase,       \* where RunServer is in each daemon
    outcome,     \* how it ends
    bound,       \* the daemons whose listener is open
    termed,      \* the daemons that received SIGTERM
    containers,  \* the daemons one of whose stages has a container
    client,      \* where Connect is in each client
    peer,        \* the daemon each client's connection is with
    stop,        \* where each `daemon stop` is
    target,      \* the daemon it signals
    faults       \* how often that happened

fileVars   == <<lock, recorded, socket>>
daemonVars == <<phase, outcome, bound, termed, containers, faults>>
clientVars == <<client, peer>>
stopVars   == <<stop, target>>
vars == <<fileVars, daemonVars, clientVars, stopVars>>

-----------------------------------------------------------------------------
\* A daemon of an earlier time left its PID in the lock file and, unless it
\* stopped cleanly, its socket; or there has never been one.
Init ==
    /\ \/ /\ recorded = Absent /\ socket = None
          /\ phase = [d \in Daemons |-> "none"]
       \/ \E old \in Daemons :
            /\ recorded = old /\ socket \in {None, old}
            /\ phase = [d \in Daemons |-> IF d = old THEN "ended" ELSE "none"]
    /\ lock = None
    /\ outcome = [d \in Daemons |-> "none"]
    /\ bound = {} /\ termed = {} /\ containers = {} /\ faults = 0
    /\ client = [c \in Clients |-> "idle"] /\ peer = [c \in Clients |-> None]
    /\ stop = [t \in Stoppers |-> "idle"] /\ target = [t \in Stoppers |-> None]

Goto(d, p) == phase' = [phase EXCEPT ![d] = p]
Ends(d, o) == outcome' = [outcome EXCEPT ![d] = o]

\* A fault, of which there are only so many.
Fault == faults < MaxFaults /\ faults' = faults + 1

\* Closing a lock file frees the lock if it was taken through that file.
FreedBy(p) == IF lock = p THEN None ELSE lock

-----------------------------------------------------------------------------
(* RunServer.                                                               *)

\* Somebody runs `dock daemon run` in the foreground.
Launch(d) ==
    /\ phase[d] = "none"
    /\ Goto(d, "starting")
    /\ UNCHANGED <<fileVars, outcome, bound, termed, containers, faults,
                   clientVars, stopVars>>

OpenLock(d) ==
    /\ phase[d] = "starting"
    /\ recorded' = IF recorded = Absent THEN None ELSE recorded
    /\ Goto(d, "opened")
    /\ UNCHANGED <<lock, socket, outcome, bound, termed, containers, faults,
                   clientVars, stopVars>>

\* Mutant of Flock: EWOULDBLOCK is not looked at.
FlockBlind(d) ==
    /\ phase[d] = "opened"
    /\ lock' = d
    /\ Goto(d, "locked")
    /\ UNCHANGED <<recorded, socket, outcome, bound, termed, containers, faults,
                   clientVars, stopVars>>

\* LOCK_NB: a lock that is held is an error, and the daemon exits.
Flock(d) ==
    /\ phase[d] = "opened"
    /\ \/ lock = None /\ lock' = d /\ Goto(d, "locked") /\ UNCHANGED outcome
       \/ lock # None /\ Goto(d, "ended") /\ Ends(d, "refused") /\ UNCHANGED lock
    /\ UNCHANGED <<recorded, socket, bound, termed, containers, faults,
                   clientVars, stopVars>>

TruncatePid(d) ==
    /\ phase[d] = "locked"
    /\ recorded' = None
    /\ Goto(d, "truncated")
    /\ UNCHANGED <<lock, socket, outcome, bound, termed, containers, faults,
                   clientVars, stopVars>>

\* Mutant of RecordPid: the PID is not written.
RecordPidNot(d) ==
    /\ phase[d] = "truncated"
    /\ Goto(d, "recorded")
    /\ UNCHANGED <<fileVars, outcome, bound, termed, containers, faults,
                   clientVars, stopVars>>

RecordPid(d) ==
    /\ phase[d] = "truncated"
    /\ recorded' = d
    /\ Goto(d, "recorded")
    /\ UNCHANGED <<lock, socket, outcome, bound, termed, containers, faults,
                   clientVars, stopVars>>

\* The file cannot be written: Acquire closes it.
AcquireFails(d) ==
    /\ phase[d] \in {"locked", "truncated"} /\ Fault
    /\ lock' = FreedBy(d)
    /\ Goto(d, "ended") /\ Ends(d, "failed")
    /\ UNCHANGED <<recorded, socket, bound, termed, containers,
                   clientVars, stopVars>>

\* Mutant of RemoveSocket: a stale socket stays.
RemoveSocketNot(d) ==
    /\ phase[d] = "recorded"
    /\ Goto(d, "removed")
    /\ UNCHANGED <<fileVars, outcome, bound, termed, containers, faults,
                   clientVars, stopVars>>

RemoveSocket(d) ==
    /\ phase[d] = "recorded"
    /\ socket' = None
    /\ Goto(d, "removed")
    /\ UNCHANGED <<lock, recorded, outcome, bound, termed, containers, faults,
                   clientVars, stopVars>>

\* The socket stays: only logged.
RemoveFails(d) ==
    /\ phase[d] = "recorded" /\ Fault
    /\ Goto(d, "removed")
    /\ UNCHANGED <<fileVars, outcome, bound, termed, containers,
                   clientVars, stopVars>>

\* A path that is there is an error (EADDRINUSE).
Listen(d) ==
    /\ phase[d] = "removed"
    /\ \/ /\ socket = None
          /\ socket' = d /\ bound' = bound \cup {d}
          /\ Goto(d, "listening") /\ UNCHANGED outcome
       \/ /\ socket # None
          /\ Goto(d, "releasing") /\ Ends(d, "failed")
          /\ UNCHANGED <<socket, bound>>
    /\ UNCHANGED <<lock, recorded, termed, containers, faults, clientVars,
                   stopVars>>

\* The path cannot be bound or protected.
ListenFails(d) ==
    /\ phase[d] = "removed" /\ Fault
    /\ Goto(d, "releasing") /\ Ends(d, "failed")
    /\ UNCHANGED <<fileVars, bound, termed, containers, clientVars,
                   stopVars>>

\* Configuration, Docker client, queue, broker; the Serve goroutine is started.
\* The client is pinged under the context that a signal cancels.
Setup(d) ==
    /\ phase[d] = "listening"
    /\ \/ d \notin termed /\ Goto(d, "launched") /\ UNCHANGED outcome
       \/ d \in termed /\ Goto(d, "closing") /\ Ends(d, "failed")
    /\ UNCHANGED <<fileVars, bound, termed, containers, faults, clientVars, stopVars>>

\* The configuration is invalid, Docker does not answer, or Serve fails.
ServerFails(d) ==
    /\ phase[d] \in {"listening", "serving"} /\ Fault
    /\ Goto(d, "closing") /\ Ends(d, "failed")
    /\ UNCHANGED <<fileVars, bound, termed, containers, clientVars,
                   stopVars>>

Serve(d) ==
    /\ phase[d] = "launched"
    /\ Goto(d, "serving")
    /\ UNCHANGED <<fileVars, outcome, bound, termed, containers, faults,
                   clientVars, stopVars>>

\* Mutant of Shutdown: the lock is released first.
ShutdownUnlocked(d) ==
    /\ phase[d] \in {"launched", "serving"} /\ d \in termed
    /\ Goto(d, "draining") /\ Ends(d, "stopped")
    /\ lock' = FreedBy(d)
    /\ IF phase[d] = "serving" THEN socket' = None /\ bound' = bound \ {d}
                               ELSE UNCHANGED <<socket, bound>>
    /\ UNCHANGED <<recorded, termed, containers, faults, clientVars, stopVars>>

\* srv.Shutdown closes the listener, which removes the path, if Serve was
\* reached; then it waits for the requests under way.
Shutdown(d) ==
    /\ phase[d] \in {"launched", "serving"} /\ d \in termed
    /\ Goto(d, "draining") /\ Ends(d, "stopped")
    /\ IF phase[d] = "serving" THEN socket' = None /\ bound' = bound \ {d}
                               ELSE UNCHANGED <<socket, bound>>
    /\ UNCHANGED <<lock, recorded, termed, containers, faults, clientVars,
                   stopVars>>

\* Mutant of ShutdownReturns: no ShutdownTimeout.
ShutdownWaits(d) ==
    /\ phase[d] = "draining"
    /\ \A c \in Clients : client[c] = "connected" => peer[c] # d
    /\ Goto(d, "closing")
    /\ UNCHANGED <<fileVars, outcome, bound, termed, containers, faults,
                   clientVars, stopVars>>

\* After ShutdownTimeout at the latest.
ShutdownReturns(d) ==
    /\ phase[d] = "draining"
    /\ Goto(d, "closing")
    /\ UNCHANGED <<fileVars, outcome, bound, termed, containers, faults,
                   clientVars, stopVars>>

\* The deferred listener.Close, which does nothing the second time.
CloseListener(d) ==
    /\ phase[d] = "closing"
    /\ socket' = IF d \in bound THEN None ELSE socket
    /\ bound' = bound \ {d}
    /\ Goto(d, "releasing")
    /\ UNCHANGED <<lock, recorded, outcome, termed, containers, faults,
                   clientVars, stopVars>>

Release(d) ==
    /\ phase[d] = "releasing"
    /\ lock' = FreedBy(d)
    /\ Goto(d, "released")
    /\ UNCHANGED <<recorded, socket, outcome, bound, termed, containers, faults,
                   clientVars, stopVars>>

\* The process exits with whatever its goroutines are doing.
Exit(d) ==
    /\ phase[d] = "released"
    /\ Goto(d, "ended")
    /\ UNCHANGED <<fileVars, outcome, bound, termed, containers, faults,
                   clientVars, stopVars>>

Alive(d) == phase[d] \notin {"none", "ended"}

Kill(d) ==
    /\ Alive(d) /\ Fault
    /\ Goto(d, "ended") /\ Ends(d, "killed")
    /\ lock' = FreedBy(d)
    /\ bound' = bound \ {d}
    /\ UNCHANGED <<recorded, socket, termed, containers, clientVars, stopVars>>

\* A run's stage creates its container while the daemon's context is alive; a
\* goroutine removes it at the stage's end, which the context brings about too.
StageBegins(d) ==
    /\ phase[d] \in {"launched", "serving"} /\ d \notin termed
    /\ containers' = containers \cup {d}
    /\ UNCHANGED <<fileVars, phase, outcome, bound, termed, faults, clientVars,
                   stopVars>>

StageEnds(d) ==
    /\ Alive(d) /\ d \in containers
    /\ containers' = containers \ {d}
    /\ UNCHANGED <<fileVars, phase, outcome, bound, termed, faults, clientVars,
                   stopVars>>

-----------------------------------------------------------------------------
(* daemon.Connect.  Dialling a path without a listener behind it fails with *)
(* ENOENT or ECONNREFUSED, which both mean that there is no daemon.         *)

Becomes(c, s) == client' = [client EXCEPT ![c] = s]

Listening == socket # None /\ socket \in bound

Dial(c) ==
    /\ client[c] = "idle"
    /\ \/ Listening /\ Becomes(c, "asking") /\ peer' = [peer EXCEPT ![c] = socket]
       \/ ~Listening /\ Becomes(c, "spawning") /\ UNCHANGED peer
    /\ UNCHANGED <<fileVars, daemonVars, stopVars>>

Spawn(c) ==
    /\ client[c] = "spawning"
    /\ \E d \in Daemons : phase[d] = "none" /\ Goto(d, "starting")
    /\ Becomes(c, "waiting")
    /\ UNCHANGED <<fileVars, outcome, bound, termed, containers, faults, peer,
                   stopVars>>

Redial(c) ==
    /\ client[c] = "waiting" /\ Listening
    /\ Becomes(c, "askingAgain")
    /\ peer' = [peer EXCEPT ![c] = socket]
    /\ UNCHANGED <<fileVars, daemonVars, stopVars>>

Asking   == {"asking", "askingAgain"}
Accepted == {"accepted", "acceptedAgain"}

\* A connection waits in the backlog until Serve accepts it.
Accept(c) ==
    /\ \/ client[c] = "asking" /\ Becomes(c, "accepted")
       \/ client[c] = "askingAgain" /\ Becomes(c, "acceptedAgain")
    /\ phase[peer[c]] = "serving"
    /\ UNCHANGED <<fileVars, daemonVars, peer, stopVars>>

\* The handler's goroutine answers.  It outlives Serve, and also RunServer, which
\* waits for it in Shutdown only and not longer than ShutdownTimeout: whatever
\* RunServer does meanwhile, only the end of the process ends it.
Answer(c) ==
    /\ client[c] \in Accepted
    /\ phase[peer[c]] # "ended"
    /\ Becomes(c, "connected")
    /\ UNCHANGED <<fileVars, daemonVars, peer, stopVars>>

\* The listener closed under a connection in the backlog, Shutdown closed one
\* whose request it had not read, or the process is over.  None of it is one of the
\* two errors: the first Health gives up, wait tries again.
Reset(c) ==
    /\ \/ client[c] \in {"asking", "accepted"} /\ Becomes(c, "failed")
       \/ client[c] \in {"askingAgain", "acceptedAgain"} /\ Becomes(c, "waiting")
    /\ \/ client[c] \in Asking /\ peer[c] \notin bound
       \/ client[c] \in Accepted /\ phase[peer[c]] \in {"draining", "ended"}
    /\ UNCHANGED <<fileVars, daemonVars, peer, stopVars>>

\* A timeout of Health or of wait, or spawn fails.
GiveUp(c) ==
    /\ client[c] \in Asking \cup Accepted \cup {"spawning", "waiting"}
    /\ Becomes(c, "failed")
    /\ UNCHANGED <<fileVars, daemonVars, peer, stopVars>>

-----------------------------------------------------------------------------
(* `dock daemon stop`: lock.Owner once, a signal, then lock.Owner until the *)
(* lock is no longer that process's (awaitExit).                            *)

Turns(t, s) == stop' = [stop EXCEPT ![t] = s]

\* Owner tries the lock through a file of its own.
Probe(t) ==
    /\ \/ /\ stop[t] = "idle" /\ recorded = Absent
          /\ Turns(t, "noDaemon") /\ UNCHANGED lock
       \/ /\ stop[t] = "idle" /\ recorded # Absent /\ lock = None
          /\ Turns(t, "unlocking") /\ lock' = t
       \/ /\ stop[t] = "idle" /\ recorded # Absent /\ lock # None
          /\ Turns(t, "reading") /\ UNCHANGED lock
       \/ /\ stop[t] = "polling" /\ lock = None
          /\ Turns(t, "unlockingAgain") /\ lock' = t
       \/ /\ stop[t] = "polling" /\ lock # None
          /\ Turns(t, "readingAgain") /\ UNCHANGED lock
    /\ UNCHANGED <<recorded, socket, daemonVars, clientVars, target>>

\* It was free: ErrNotHeld.
Unlock(t) ==
    /\ \/ stop[t] = "unlocking" /\ Turns(t, "noDaemon")
       \/ stop[t] = "unlockingAgain" /\ Turns(t, "stopped")
    /\ lock' = FreedBy(t)
    /\ UNCHANGED <<recorded, socket, daemonVars, clientVars, target>>

\* Mutant of ReadOwner: the content is not checked.
ReadOwnerUnchecked(t) ==
    /\ stop[t] = "reading"
    /\ Turns(t, "signalling") /\ target' = [target EXCEPT ![t] = recorded]
    /\ UNCHANGED <<fileVars, daemonVars, clientVars>>

\* It was held: the file names the owner.
ReadOwner(t) ==
    /\ stop[t] = "reading"
    /\ \/ recorded = None /\ Turns(t, "failed") /\ UNCHANGED target
       \/ /\ recorded # None
          /\ Turns(t, "signalling") /\ target' = [target EXCEPT ![t] = recorded]
    /\ UNCHANGED <<fileVars, daemonVars, clientVars>>

\* Mutant of Signal: the exit is not awaited.
SignalOnly(t) ==
    /\ stop[t] = "signalling"
    /\ \/ phase[target[t]] = "ended" /\ Turns(t, "noDaemon") /\ UNCHANGED termed
       \/ /\ phase[target[t]] # "ended"
          /\ Turns(t, "stopped") /\ termed' = termed \cup {target[t]}
    /\ UNCHANGED <<fileVars, phase, outcome, bound, containers, faults, clientVars,
                   target>>

\* FindProcess and SIGTERM, which RunServer's context catches until it returns.
Signal(t) ==
    /\ stop[t] = "signalling"
    /\ \/ phase[target[t]] = "ended" /\ Turns(t, "noDaemon") /\ UNCHANGED termed
       \/ /\ phase[target[t]] # "ended"
          /\ Turns(t, "polling") /\ termed' = termed \cup {target[t]}
    /\ UNCHANGED <<fileVars, phase, outcome, bound, containers, faults, clientVars,
                   target>>

\* awaitExit: another PID, or none yet, means that the daemon is gone.
ReadAgain(t) ==
    /\ stop[t] = "readingAgain"
    /\ Turns(t, IF recorded = target[t] THEN "polling" ELSE "stopped")
    /\ UNCHANGED <<fileVars, daemonVars, clientVars, target>>

\* The lock file cannot be opened, probed or read.  The first time that is an error
\* of the command; awaitExit takes it for the end of the daemon, and the command
\* reports what it reports of a daemon that was seen to be gone.
OwnerFails(t) ==
    /\ Fault
    /\ \/ stop[t] \in {"idle", "reading"} /\ Turns(t, "failed")
       \/ stop[t] \in {"polling", "readingAgain"} /\ Turns(t, "assumed")
    /\ UNCHANGED <<fileVars, phase, outcome, bound, termed, containers,
                   clientVars, target>>

StopTimesOut(t) ==
    /\ stop[t] = "polling"
    /\ Turns(t, "timedOut")
    /\ UNCHANGED <<fileVars, daemonVars, clientVars, target>>

-----------------------------------------------------------------------------
\* What a daemon does when nothing goes wrong.
DaemonStep(d) ==
    \/ OpenLock(d) \/ Flock(d) \/ TruncatePid(d) \/ RecordPid(d)
    \/ RemoveSocket(d) \/ Listen(d) \/ Setup(d) \/ Serve(d)
    \/ Shutdown(d) \/ ShutdownReturns(d) \/ CloseListener(d) \/ Release(d)
    \/ Exit(d)

DaemonFault(d) ==
    \/ AcquireFails(d) \/ RemoveFails(d) \/ ListenFails(d) \/ ServerFails(d)
    \/ Kill(d)

ClientStep(c) ==
    Dial(c) \/ Spawn(c) \/ Redial(c) \/ Accept(c) \/ Answer(c) \/ Reset(c)

StopStep(t) ==
    \/ Probe(t) \/ Unlock(t) \/ ReadOwner(t) \/ Signal(t) \/ ReadAgain(t)

Next ==
    \/ \E d \in Daemons : \/ Launch(d) \/ DaemonStep(d) \/ DaemonFault(d)
                          \/ StageBegins(d) \/ StageEnds(d)
    \/ \E c \in Clients : ClientStep(c) \/ GiveUp(c)
    \/ \E t \in Stoppers : StopStep(t) \/ StopTimesOut(t) \/ OwnerFails(t)

Spec == Init /\ [][Next]_vars

\* Processes are scheduled, Shutdown has a timeout, and so have Health, wait and
\* awaitExit, but when they run out is open.  Nobody has to run a command, and
\* nothing has to fail.
Fairness ==
    /\ \A d \in Daemons : WF_vars(DaemonStep(d))
    /\ \A c \in Clients : WF_vars(client[c] # "idle" /\ ClientStep(c))
    /\ \A t \in Stoppers : WF_vars(stop[t] # "idle" /\ StopStep(t))

FairSpec == Spec /\ Fairness

-----------------------------------------------------------------------------
(* Properties.                                                              *)

Phases == {"none", "starting", "opened", "locked", "truncated", "recorded",
           "removed", "listening", "launched", "serving", "draining", "closing",
           "releasing", "released", "ended"}
Outcomes == {"none", "refused", "failed", "stopped", "killed"}
ClientStates == Asking \cup Accepted
                  \cup {"idle", "spawning", "waiting", "connected", "failed"}
StopStates == {"idle", "unlocking", "reading", "signalling", "polling",
               "unlockingAgain", "readingAgain", "noDaemon", "stopped", "assumed",
               "failed", "timedOut"}

TypeOK ==
    /\ lock \in Daemons \cup Stoppers \cup {None}
    /\ recorded \in Daemons \cup {None, Absent}
    /\ socket \in Daemons \cup {None}
    /\ phase \in [Daemons -> Phases] /\ outcome \in [Daemons -> Outcomes]
    /\ bound \subseteq Daemons /\ termed \subseteq Daemons
    /\ containers \subseteq Daemons /\ faults \in 0 .. MaxFaults
    /\ client \in [Clients -> ClientStates]
    /\ peer \in [Clients -> Daemons \cup {None}]
    /\ \A c \in Clients : client[c] \in Asking \cup Accepted => peer[c] # None
    /\ stop \in [Stoppers -> StopStates]
    /\ target \in [Stoppers -> Daemons \cup {None}]
    /\ \A t \in Stoppers : stop[t] = "signalling" => target[t] # None

\* "A file lock guarantees a single daemon instance" (ARCHITECTURE.md:11): while a
\* daemon listens it has the lock and the socket's path leads to it.  No other
\* daemon that starts, fails or shuts down takes the path away.
ListenerReachable == \A d \in bound : lock = d /\ socket = d

\* From the moment a daemon has recorded its PID until it releases the lock, the
\* file names it: `dock daemon stop` signals the daemon that serves.
HolderRecorded ==
    \A d \in Daemons :
        phase[d] \in {"recorded", "removed", "listening", "launched", "serving",
                      "draining", "closing", "releasing"} => recorded = d

\* A client is answered by the daemon that holds the lock, although its connection
\* may be older than that daemon's successor on the path.  The one exception is a
\* daemon that has released the lock and is about to exit, whose handlers go on.
AnsweredByHolder ==
    [][\A c \in Clients :
         client[c] # "connected" /\ client'[c] = "connected"
           => lock = peer[c] \/ phase[peer[c]] = "released"]_vars

\* When `dock daemon stop` reports that it stopped a daemon, because it saw the lock
\* free, without a PID or with another one's, that daemon has released the lock for
\* good.  It reports the same when the lock file could not be read ("assumed"): then
\* the daemon was signalled, and may hold the lock and serve.
StoppedIsGone ==
    \A t \in Stoppers :
        /\ stop[t] \in {"stopped", "assumed"} => target[t] \in termed
        /\ stop[t] = "stopped" => phase[target[t]] \in {"released", "ended"}

\* "Stops accepting new work, lets the running stage finish, removes any
\* containers it owns and exits" (cli/daemon.go:83).
StopRemovesContainers ==
    \A d \in Daemons : phase[d] = "ended" /\ outcome[d] = "stopped"
        => d \notin containers

\* A client that found no daemon and started one gets a daemon that serves, also
\* when several do it at once or a stale socket and PID are there, unless somebody
\* runs `dock daemon stop`.
SpawnBringsDaemon ==
    (\E c \in Clients : client[c] = "waiting")
      ~> \/ \E d \in Daemons : phase[d] = "serving"
         \/ \E t \in Stoppers : stop[t] # "idle"

\* A daemon that is signalled ends and lets the next one in.
SignalledEnds == \A d \in Daemons : d \in termed ~> phase[d] = "ended"
=============================================================================
