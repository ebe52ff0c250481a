-------------------------- MODULE ContainerRunner --------------------------
(***************************************************************************)
(* The container runner (container-runner.ts) over a container runtime     *)
(* CLI (container-runtime.ts): start, stop, resetIdleTimer and the idle    *)
(* timer, as asynchronous calls that interleave at every await, for any    *)
(* caller.  A session id is used for one start only (ids are random), so   *)
(* a container is named by its session.                                    *)
(***************************************************************************)
EXTENDS Naturals, FiniteSets

CONSTANTS
  Sessions,     \* session ids that may ever be generated
  Closers,      \* clients that may have a closeSession request in flight
  CliMayFail    \* may `docker stop/kill/rm` fail with the container alive?

ASSUME RunnerAssumption ==
  /\ IsFiniteSet(Sessions)
  /\ CliMayFail \in BOOLEAN
  /\ {"fail", "idle", "shutdown"} \cap Closers = {}

(***************************************************************************)
(* Who awaits a stop(): the catch block of newSession, the idle timer,     *)
(* shutdown(), or a client's closeSession.  Bound: one call in flight per  *)
(* session and caller; Closers has as many concurrent closes as wanted.    *)
(***************************************************************************)
Callers == {"fail", "idle", "shutdown"} \cup Closers

VARIABLES
  container,    \* the runtime's view of the session's container
  starting,     \* sessions whose start() awaits runtime.spawn
  containers,   \* keys of the map ContainerRunner.containers
  idleTimer,    \* sessions with an armed idle timer
  stopCall,     \* what each stop() in flight awaits
  orphans       \* history: containers the runner lost track of

runnerVars == <<container, starting, containers, idleTimer, stopCall, orphans>>

ContainerState == {"none", "requested", "refused", "running", "gone"}
CallState == {"off", "stop", "remove"}

RunnerTypeOK ==
  /\ container \in [Sessions -> ContainerState]
  /\ starting \subseteq Sessions
  /\ containers \subseteq Sessions
  /\ idleTimer \subseteq Sessions
  /\ stopCall \in [Sessions \X Callers -> CallState]
  /\ orphans \subseteq Sessions

NoCalls == [c \in Sessions \X Callers |-> "off"]

RunnerInit ==
  /\ container = [s \in Sessions |-> "none"]
  /\ starting = {}
  /\ containers = {}
  /\ idleTimer = {}
  /\ stopCall = NoCalls
  /\ orphans = {}

\* Containers that exist, or that the runtime may still bring up.
Alive == {s \in Sessions : container[s] \in {"requested", "running"}}

\* Sessions with a stop() in flight.
Stopping == {s \in Sessions : \E k \in Callers : stopCall[<<s, k>>] # "off"}

-----------------------------------------------------------------------------
(* start() *)

\* `docker run -d` is launched; start() awaits it.
StartCalled(s) ==
  /\ container[s] = "none"
  /\ s \notin starting
  /\ container' = [container EXCEPT ![s] = "requested"]
  /\ starting' = starting \cup {s}
  /\ UNCHANGED <<containers, idleTimer, stopCall, orphans>>

\* The runtime brings the container up, or refuses to (no image, no daemon).
DaemonStarts(s) ==
  /\ container[s] = "requested"
  /\ container' = [container EXCEPT ![s] = "running"]
  /\ UNCHANGED <<starting, containers, idleTimer, stopCall, orphans>>

DaemonRefuses(s) ==
  /\ container[s] = "requested"
  /\ container' = [container EXCEPT ![s] = "refused"]
  /\ UNCHANGED <<starting, containers, idleTimer, stopCall, orphans>>

\* A container may exit by itself (killed, out of memory, daemon restart).
ContainerExits(s) ==
  /\ container[s] = "running"
  /\ container' = [container EXCEPT ![s] = "gone"]
  /\ UNCHANGED <<starting, containers, idleTimer, stopCall, orphans>>

\* Plausible bug: the entry is stored, the timer is forgotten.
StartIdleTimer_Forgotten(s) == idleTimer' = idleTimer

StartIdleTimer(s) == idleTimer' = idleTimer \cup {s}

\* Plausible bug: the container is up but is never entered in the map.
Track_Dropped(s) == containers' = containers

Track(s) == containers' = containers \cup {s}

\* The CLI printed the id: arm the idle timer, store the entry.
StartResolves(s) ==
  /\ s \in starting
  /\ container[s] \in {"running", "gone"}
  /\ starting' = starting \ {s}
  /\ StartIdleTimer(s)
  /\ Track(s)
  /\ UNCHANGED <<container, stopCall, orphans>>

\* The CLI exited with an error: nothing was stored.
StartRejects(s) ==
  /\ s \in starting
  /\ container[s] = "refused"
  /\ starting' = starting \ {s}
  /\ UNCHANGED <<container, containers, idleTimer, stopCall, orphans>>

-----------------------------------------------------------------------------
(* stop() *)

\* Caller k calls stop() on every session of S: without an entry stop() has
\* returned already; otherwise the timer is cleared and runtime.stop awaited.
StopCalled(S, k) ==
  /\ \A s \in S : stopCall[<<s, k>>] = "off"
  /\ idleTimer' = idleTimer \ (S \cap containers)
  /\ stopCall' = [c \in Sessions \X Callers |->
                    IF c[1] \in S \cap containers /\ c[2] = k THEN "stop"
                    ELSE stopCall[c]]
  /\ UNCHANGED <<container, starting, containers, orphans>>

\* What a CLI command that should end the container leaves of it: the
\* runtime swallows every error of stop, kill and rm.
AfterCli(s) ==
  IF container[s] = "running"
  THEN {"gone"} \cup (IF CliMayFail THEN {"running"} ELSE {})
  ELSE {container[s]}

\* runtime.stop settled; runtime.remove is awaited next.
RuntimeStopReturns(s, k) ==
  /\ stopCall[<<s, k>>] = "stop"
  /\ stopCall' = [stopCall EXCEPT ![<<s, k>>] = "remove"]
  /\ \E st \in AfterCli(s) : container' = [container EXCEPT ![s] = st]
  /\ UNCHANGED <<starting, containers, idleTimer, orphans>>

\* Plausible bug: the entry survives its container.
Untrack_Skipped(s) == containers' = containers

Untrack(s) == containers' = containers \ {s}

\* runtime.remove settled: the entry is deleted, stop() returns.
RuntimeRemoveReturns(s, k) ==
  /\ stopCall[<<s, k>>] = "remove"
  /\ stopCall' = [stopCall EXCEPT ![<<s, k>>] = "off"]
  /\ \E st \in AfterCli(s) :
       /\ container' = [container EXCEPT ![s] = st]
       /\ orphans' = IF st = "running" THEN orphans \cup {s} ELSE orphans
  /\ Untrack(s)
  /\ UNCHANGED <<starting, idleTimer>>

-----------------------------------------------------------------------------
(* Idle timer *)

\* Plausible bug: the old timer is cleared and no new one is started.
Rearm_Dropped(s) == idleTimer' = idleTimer \ {s}

Rearm(s) == idleTimer' = idleTimer \cup {s}

\* Clear the entry's timer and arm a new one; without an entry, nothing.
\* A stop() that is already in flight is not noticed.
ResetIdleTimer(s) ==
  /\ IF s \in containers THEN Rearm(s) ELSE UNCHANGED idleTimer
  /\ UNCHANGED <<container, starting, containers, stopCall, orphans>>

\* The timer fires: a stop() nobody awaits.  A timer whose entry is gone
\* (it was reset while a stop was in flight) finds nothing to do.
IdleTimerFires(s) ==
  /\ s \in idleTimer
  /\ s \in containers => stopCall[<<s, "idle">>] = "off"
  /\ idleTimer' = idleTimer \ {s}
  /\ stopCall' = IF s \in containers
                 THEN [stopCall EXCEPT ![<<s, "idle">>] = "stop"] ELSE stopCall
  /\ UNCHANGED <<container, starting, containers, orphans>>

-----------------------------------------------------------------------------
\* The process ends: the map, the timers and the calls in flight are gone;
\* containers are not, and nothing on disk names them.
RunnerDies ==
  /\ orphans' = orphans \cup Alive
  /\ starting' = {}
  /\ containers' = {}
  /\ idleTimer' = {}
  /\ stopCall' = NoCalls
  /\ UNCHANGED container

RunnerNext ==
  \/ \E s \in Sessions :
       \/ StartCalled(s) \/ StartResolves(s) \/ StartRejects(s)
       \/ DaemonStarts(s) \/ DaemonRefuses(s) \/ ContainerExits(s)
       \/ ResetIdleTimer(s) \/ IdleTimerFires(s)
       \/ \E k \in Callers :
            RuntimeStopReturns(s, k) \/ RuntimeRemoveReturns(s, k)
  \/ \E S \in SUBSET Sessions, k \in Callers \ {"idle"} : StopCalled(S, k)
  \/ RunnerDies

RunnerSpec == RunnerInit /\ [][RunnerNext]_runnerVars

-----------------------------------------------------------------------------
(* What the runner promises to any caller. *)

\* Every container that exists or may still come up is in the runner's map,
\* is being started, or was lost in one of the two ways the code has to lose
\* one: the process ended, or a stop returned although its CLI commands
\* failed (container-runner.ts start, stop; container-runtime.ts stop).
EveryContainerKnown == Alive \subseteq containers \cup starting \cup orphans

\* An entry of the map always has its teardown ahead: an armed idle timer or
\* a stop() in flight, whatever prompts, closes and timers race (start arms
\* before it stores; stop clears before it awaits; resetIdleTimer re-arms).
TeardownAhead == containers \subseteq idleTimer \cup Stopping
=============================================================================
