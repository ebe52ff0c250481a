------------------------ MODULE SessionOrchestrator ------------------------
(***************************************************************************)
(* The session life cycle: SessionOrchestrator (session-orchestrator.ts)   *)
(* over ContainerRunner, AgentProcessManager and the session rows of the   *)
(* database, with the process around them (index.ts): boot and recovery,   *)
(* shutdown on disconnect, crashes.  Every await is a point where other    *)
(* requests, timers and failures interleave.                               *)
(***************************************************************************)
EXTENDS ContainerRunner

CONSTANTS
  MaxConcurrent,  \* config.maxConcurrent
  MaxPendingNew,  \* bound: newSession requests in flight at a time
  MaxPrompts,     \* bound: prompts in flight per session
  MaxCrashes      \* bound: times the process ends

ASSUME OrchestratorAssumption ==
  /\ MaxConcurrent \in Nat \ {0}
  /\ MaxPendingNew \in Nat \ {0}
  /\ MaxPrompts \in Nat
  /\ MaxCrashes \in Nat

VARIABLES
  proc,         \* the process: "up", "closing" (shutdown under way),
                \* "closed" (database closed), "down"
  sessionRow,   \* sessions.state in the database
  stateRow,     \* rows of container_state with status 'running'
  active,       \* keys of the map activeSessions
  connecting,   \* sessions whose AgentProcessManager.connect is awaited
  agent,        \* the session's agent process: "signalled" was sent SIGTERM
                \* and still runs
  prompts,      \* prompts awaiting the agent, per session
  shutdownIds,  \* sessionIds, the snapshot shutdown() works through
  crashes,      \* times the process has ended
  lost,         \* history: sessions whose row was active when a process ended
  early,        \* history: sessions closed while newSession was creating them
  strays        \* history: agents never sent SIGTERM that no connection refers to

procVars == <<proc, shutdownIds, crashes, lost>>
dbVars == <<sessionRow, stateRow>>
agentVars == <<active, connecting, agent, prompts, strays>>
vars == <<runnerVars, procVars, dbVars, agentVars, early>>

AgentState == {"none", "alive", "signalled", "dead"}

VarsTypeOK ==
  /\ RunnerTypeOK
  /\ proc \in {"up", "closing", "closed", "down"}
  /\ sessionRow \in [Sessions -> {"none", "active", "closed"}]
  /\ stateRow \subseteq Sessions
  /\ active \subseteq Sessions
  /\ connecting \subseteq Sessions
  /\ agent \in [Sessions -> AgentState]
  /\ prompts \in [Sessions -> 0..MaxPrompts]
  /\ shutdownIds \subseteq Sessions
  /\ crashes \in 0..MaxCrashes
  /\ lost \subseteq Sessions
  /\ early \subseteq Sessions
  /\ strays \subseteq Sessions

\* The variables keep their types, and a session is in one stage of newSession
\* at a time: its container is being started, or its agent connected, or it is
\* stored in activeSessions (newSession, session-orchestrator.ts:80, 83, 96).
TypeOK ==
  /\ VarsTypeOK
  /\ starting \cap connecting = {}
  /\ active \cap (starting \cup connecting) = {}

Init ==
  /\ RunnerInit
  /\ proc = "up"
  /\ sessionRow = [s \in Sessions |-> "none"]
  /\ stateRow = {}
  /\ active = {}
  /\ connecting = {}
  /\ agent = [s \in Sessions |-> "none"]
  /\ prompts = [s \in Sessions |-> 0]
  /\ shutdownIds = {}
  /\ crashes = 0
  /\ lost = {}
  /\ early = {}
  /\ strays = {}

\* newSession calls past the capacity check and not yet stored or failed.
Creating == starting \cup connecting

\* newSession calls in flight: creating, or in the catch block's stop().
PendingNew == Creating \cup {s \in Sessions : stopCall[<<s, "fail">>] # "off"}

-----------------------------------------------------------------------------
(* Helpers *)

\* SessionManager.close on every session of S; a closed database throws.
CloseRows(S) ==
  IF proc = "closed" THEN UNCHANGED dbVars
  ELSE /\ sessionRow' = [s \in Sessions |->
                           IF s \in S THEN "closed" ELSE sessionRow[s]]
       /\ stateRow' = stateRow \ S

\* Plausible bug: the agent keeps running.
KillAgents_Skipped(S) == UNCHANGED agent

\* disconnect sends SIGTERM and forgets the process: nobody waits for its end,
\* and it may outlive the session, or ignore the signal for ever.
KillAgents(S) ==
  agent' = [s \in Sessions |->
              IF s \in S /\ agent[s] = "alive" THEN "signalled" ELSE agent[s]]

\* Plausible bug: closeSession forgets to delete the entry.
Deactivate_Skipped(S) == active' = active

Deactivate(S) == active' = active \ S

\* Plausible bug: the runner's entry is dropped instead of being stopped.
CloseSessions_NotStopped(S, k) ==
  /\ KillAgents(S \cap active)
  /\ Deactivate(S)
  /\ containers' = containers \ S
  /\ idleTimer' = idleTimer \ S
  /\ UNCHANGED <<container, starting, stopCall, orphans>>
  /\ CloseRows(S)

\* The synchronous part of closeSession on every session of S: disconnect
\* the agent and delete the entry of the active ones, call stop(), and where
\* stop() had nothing to await, close the row at once.
CloseSessions(S, k) ==
  /\ KillAgents(S \cap active)
  /\ Deactivate(S)
  /\ StopCalled(S, k)
  /\ CloseRows(S \ containers)

\* Plausible bug: the capacity check is off by one.
AtCapacity_OffByOne == Cardinality(active) > MaxConcurrent

AtCapacity == Cardinality(active) >= MaxConcurrent

-----------------------------------------------------------------------------
(* newSession *)

MayCreate(s) ==
  /\ proc = "up"
  /\ sessionRow[s] = "none"
  /\ ~AtCapacity
  /\ Cardinality(PendingNew) < MaxPendingNew
  /\ sessionRow' = [sessionRow EXCEPT ![s] = "active"]

\* The row is written, the folder scaffolded, the container requested.
NewSession(s) ==
  /\ MayCreate(s)
  /\ StartCalled(s)
  /\ UNCHANGED <<stateRow, procVars, agentVars, early>>

\* scaffold throws after the row is written, outside the try block.
NewSessionThrows(s) ==
  /\ MayCreate(s)
  /\ UNCHANGED <<runnerVars, stateRow, procVars, agentVars, early>>

\* start() failed: the catch block finds no container and closes the row.
ContainerRefused(s) ==
  /\ StartRejects(s)
  /\ CloseRows({s})
  /\ UNCHANGED <<procVars, agentVars, early>>

\* Plausible bug: the session is stored before connect() is awaited.
ContainerStarted_StoresEarly(s) ==
  /\ StartResolves(s)
  /\ \E st \in {"alive", "dead"} : agent' = [agent EXCEPT ![s] = st]
  /\ connecting' = connecting \cup {s}
  /\ active' = active \cup {s}
  /\ UNCHANGED <<procVars, dbVars, prompts, strays, early>>

\* start() returned: the agent process is spawned (it may die at once) and
\* initialize / session/new are awaited.
ContainerStarted(s) ==
  /\ StartResolves(s)
  /\ \E st \in {"alive", "dead"} : agent' = [agent EXCEPT ![s] = st]
  /\ connecting' = connecting \cup {s}
  /\ UNCHANGED <<procVars, dbVars, active, prompts, strays, early>>

\* The agent answered: the session is stored, newSession returns.
AgentConnected(s) ==
  /\ s \in connecting
  /\ agent[s] = "alive"
  /\ connecting' = connecting \ {s}
  /\ active' = active \cup {s}
  /\ UNCHANGED <<runnerVars, procVars, dbVars, agent, prompts, strays, early>>

\* Plausible bug: a failed newSession closes the row, not the container.
ConnectRejects_NotStopped(s) ==
  /\ s \in connecting
  /\ connecting' = connecting \ {s}
  /\ strays' = IF agent[s] = "alive" THEN strays \cup {s} ELSE strays
  /\ CloseRows({s})
  /\ UNCHANGED <<runnerVars, procVars, active, agent, prompts, early>>

\* connect() rejects: the catch block stops the container and closes the
\* row.  The agent process, if alive, is killed by nobody.
ConnectRejects(s) ==
  /\ s \in connecting
  /\ connecting' = connecting \ {s}
  /\ strays' = IF agent[s] = "alive" THEN strays \cup {s} ELSE strays
  /\ StopCalled({s}, "fail")
  /\ CloseRows({s} \ containers)
  /\ UNCHANGED <<procVars, active, agent, prompts, early>>

\* The agent process exits, told to or not; nothing in the code listens.
AgentExits(s) ==
  /\ agent[s] \in {"alive", "signalled"}
  /\ agent' = [agent EXCEPT ![s] = "dead"]
  /\ strays' = strays \ {s}
  /\ UNCHANGED <<runnerVars, procVars, dbVars, active, connecting, prompts, early>>

-----------------------------------------------------------------------------
(* prompt, closeSession, the ends of stop() *)

\* From a client, or from the task scheduler, which a disconnect lets finish.
Prompt(s) ==
  /\ proc \in {"up", "closing"}
  /\ s \in active
  /\ prompts[s] < MaxPrompts
  /\ ResetIdleTimer(s)
  /\ prompts' = [prompts EXCEPT ![s] = @ + 1]
  /\ UNCHANGED <<procVars, dbVars, active, connecting, agent, strays, early>>

\* The agent answers, or the request fails.
PromptSettles(s) ==
  /\ prompts[s] > 0
  /\ prompts' = [prompts EXCEPT ![s] = @ - 1]
  /\ UNCHANGED <<runnerVars, procVars, dbVars, active, connecting, agent, strays, early>>

\* closeSession of a client that knows the id: from newSession's answer, or
\* from session/list as soon as the row exists.
CloseSession(s, c) ==
  /\ proc = "up"
  /\ sessionRow[s] # "none"
  /\ CloseSessions({s}, c)
  /\ early' = IF s \in Creating THEN early \cup {s} ELSE early
  /\ UNCHANGED <<procVars, connecting, prompts, strays>>

StopReturns(s, k) ==
  /\ RuntimeStopReturns(s, k)
  /\ UNCHANGED <<procVars, dbVars, agentVars, early>>

\* Plausible bug: the catch block of newSession stops the container and
\* leaves the row.
RemoveReturns_FailLeavesRow(s, k) ==
  /\ RuntimeRemoveReturns(s, k)
  /\ CloseRows(IF k \in {"idle", "fail"} THEN {} ELSE {s})
  /\ UNCHANGED <<procVars, agentVars, early>>

\* stop() returns; every caller but the idle timer then closes the row.
RemoveReturns(s, k) ==
  /\ RuntimeRemoveReturns(s, k)
  /\ CloseRows(IF k = "idle" THEN {} ELSE {s})
  /\ UNCHANGED <<procVars, agentVars, early>>

IdleTimeout(s) ==
  /\ IdleTimerFires(s)
  /\ UNCHANGED <<procVars, dbVars, agentVars, early>>

RuntimeStep(s) ==
  /\ DaemonStarts(s) \/ DaemonRefuses(s) \/ ContainerExits(s)
  /\ UNCHANGED <<procVars, dbVars, agentVars, early>>

-----------------------------------------------------------------------------
(* The process *)

\* The client disconnects: closeSession runs on a snapshot of the active
\* sessions, all of them up to their first await.
Shutdown ==
  /\ proc = "up"
  /\ proc' = "closing"
  /\ shutdownIds' = active
  /\ CloseSessions(active, "shutdown")
  /\ UNCHANGED <<crashes, lost, connecting, prompts, strays, early>>

\* Plausible bug: the database is closed without awaiting the closes.
ShutdownDone_NotAwaited == TRUE

\* Plausible bug: shutdown also waits for the prompts in flight.
ShutdownDone_Drains ==
  \A s \in Sessions : stopCall[<<s, "shutdown">>] = "off" /\ prompts[s] = 0

\* Promise.all over the snapshot has settled.
ShutdownDone == \A s \in Sessions : stopCall[<<s, "shutdown">>] = "off"

\* finally: the database is closed.
ShutdownSettles ==
  /\ proc = "closing"
  /\ ShutdownDone
  /\ proc' = "closed"
  /\ UNCHANGED <<runnerVars, dbVars, agentVars, shutdownIds, crashes, lost, early>>

\* The process is killed, throws, or exits: only the database, the
\* containers and possibly the agents survive.
ProcessEnds ==
  /\ proc # "down"
  /\ crashes < MaxCrashes
  /\ crashes' = crashes + 1
  /\ proc' = "down"
  /\ lost' = {s \in Sessions : sessionRow[s] = "active"}
  /\ RunnerDies
  /\ active' = {}
  /\ connecting' = {}
  /\ prompts' = [s \in Sessions |-> 0]
  /\ shutdownIds' = {}
  /\ strays' = {s \in Sessions : agent[s] = "alive"}
  /\ UNCHANGED <<dbVars, agent, early>>

\* recoverStaleContainers: rows whose container is dead are cleared and
\* their session closed; then live containers of closed sessions are
\* stopped.  Only the rows of container_state are looked at.
DeadRows == {s \in stateRow : container[s] # "running"}
OrphanRows == {s \in stateRow \ DeadRows : sessionRow[s] = "closed"}

Boot ==
  /\ proc = "down"
  /\ proc' = "up"
  /\ sessionRow' = [s \in Sessions |->
                      IF s \in DeadRows THEN "closed" ELSE sessionRow[s]]
  /\ stateRow' = stateRow \ (DeadRows \cup OrphanRows)
  /\ container' = [s \in Sessions |->
                     IF s \in OrphanRows THEN "gone" ELSE container[s]]
  /\ UNCHANGED <<starting, containers, idleTimer, stopCall, orphans,
                 shutdownIds, crashes, lost, agentVars, early>>

-----------------------------------------------------------------------------
Next ==
  \/ \E s \in Sessions :
       \/ NewSession(s) \/ NewSessionThrows(s)
       \/ ContainerRefused(s) \/ ContainerStarted(s)
       \/ AgentConnected(s) \/ ConnectRejects(s) \/ AgentExits(s)
       \/ Prompt(s) \/ PromptSettles(s)
       \/ \E c \in Closers : CloseSession(s, c)
       \/ \E k \in Callers : StopReturns(s, k) \/ RemoveReturns(s, k)
       \/ IdleTimeout(s) \/ RuntimeStep(s)
  \/ Shutdown \/ ShutdownSettles \/ ProcessEnds \/ Boot

Spec == Init /\ [][Next]_vars

\* CLI commands terminate and the event loop runs what has settled.  A timer
\* fires unless prompts keep resetting it.  Nothing is assumed of the agent,
\* of clients, or of `docker run`.
Fairness ==
  /\ \A s \in Sessions, k \in Callers :
       WF_vars(StopReturns(s, k)) /\ WF_vars(RemoveReturns(s, k))
  /\ \A s \in Sessions : []<><<Prompt(s)>>_vars \/ WF_vars(IdleTimeout(s))
  /\ WF_vars(ShutdownSettles)

FairSpec == Spec /\ Fairness

-----------------------------------------------------------------------------
(* Safety *)

\* The capacity check (newSession, session-orchestrator.ts:66) counts only
\* stored sessions, and is made before two awaits: n concurrent requests
\* overshoot config.maxConcurrent by at most n - 1, however they interleave
\* with closes, failures, shutdown and restarts.
CapacityOvershoot ==
  Cardinality(active \cup Creating) <= MaxConcurrent + MaxPendingNew - 1

\* A session the database calls closed is finished: no entry in activeSessions
\* or in the runner, no creation under way, its container down and its agent
\* ended or sent SIGTERM (whether it obeys is its own affair), except for what a
\* crash, a failed CLI command or a rejected connect lost, and unless it was
\* closed while newSession was still creating it (closeSession, the catch block
\* of newSession, shutdown).
ClosedSessionIsInert ==
  \A s \in Sessions :
    sessionRow[s] = "closed" /\ s \notin early =>
      /\ s \notin active \cup containers \cup Creating
      /\ s \in Alive => s \in orphans
      /\ agent[s] = "alive" => s \in strays

\* Once shutdown() has settled and the database is closed, every session of
\* its snapshot is finished, its agent ended or sent SIGTERM, whatever idle
\* stops, client closes and prompts were in flight when the client disconnected
\* (shutdown, index.ts:69).
ShutdownClosesSnapshot ==
  proc = "closed" =>
    \A s \in shutdownIds :
      /\ sessionRow[s] = "closed"
      /\ s \notin active \cup containers \cup Creating
      /\ s \in Alive => s \in orphans
      /\ agent[s] # "alive"

\* A running agent process belongs to an active session or to a connect() under
\* way, or was sent SIGTERM, or was left behind by a rejected connect() or by the
\* previous process; and no session on offer or being connected has an agent
\* that was sent SIGTERM (connect, disconnect in agent-process-manager.ts).
AgentAccountedFor ==
  \A s \in Sessions :
    /\ agent[s] = "alive" => s \in active \cup connecting \cup strays
    /\ agent[s] = "signalled" => s \notin active \cup connecting

\* maxConcurrent counts sessions, not containers: one that is up, or may come
\* up, without a session that counts is being stopped, or was lost to a failed
\* CLI command or a crash (newSession, session-orchestrator.ts:66;
\* closeSession, :155).
UncountedContainersEnd ==
  Alive \subseteq active \cup Creating \cup Stopping \cup orphans

\* A row says "active" of a session that is active or being created, of one
\* whose close still awaits stop(), of one whose folder could not be made, or
\* of one the process that made it left behind; of no other (create,
\* session-manager.ts:53; closeSession and the catch block of newSession).
ActiveRowExplained ==
  proc \in {"up", "closing"} =>
    \A s \in Sessions :
      sessionRow[s] = "active" =>
        \/ s \in active \cup Creating \cup lost
        \/ container[s] = "none"
        \/ \E k \in Callers \ {"idle"} : stopCall[<<s, k>>] # "off"

\* A session that stays active loses its entry in the runner to its idle timer
\* only, never to a close, a shutdown or a failed creation, unless it was
\* closed while being created.  (Nothing starts a container again: prompt,
\* session-orchestrator.ts:114, goes on without one.)
ActiveLosesContainerToIdle ==
  [][\A s \in active \cap active' :
       s \in containers \ containers' /\ s \notin early =>
         stopCall[<<s, "idle">>] = "remove" /\ stopCall'[<<s, "idle">>] = "off"]_vars

-----------------------------------------------------------------------------
(* Liveness, under FairSpec *)

\* A tracked container is torn down in the end unless prompts for its session
\* keep arriving for ever, also when a prompt re-armed the timer during a
\* stop, or a stop raced another (idle timer, stop, resetIdleTimer).
IdleTeardown ==
  \A s \in Sessions :
    \/ []<><<Prompt(s)>>_vars
    \/ s \in containers ~> s \notin containers

\* A disconnect leads to a closed database, or the process ends first: the
\* closes of the snapshot wait for nothing that may not come (shutdown).
ShutdownCompletes == proc = "closing" ~> proc # "closing"

-----------------------------------------------------------------------------
(* What the documentation says of the program. *)

\* README.md:124: stale containers from previous crashes are cleaned up on
\* startup (recoverStaleContainers): no container survives a boot.
StaleContainersCleared ==
  [][Boot => \A s \in Sessions : container'[s] # "running"]_vars

\* README.md:46: containers tear down when unused, so not under a prompt that
\* is in flight (startIdleTimer, resetIdleTimer).
IdleOnlyWhenUnused ==
  [][\A s \in containers : IdleTimeout(s) => prompts[s] = 0]_vars

\* session-orchestrator.ts:207: shutdown closes all active sessions.
NothingActiveAfterShutdown == proc = "closed" => active = {}
=============================================================================
