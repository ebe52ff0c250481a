--------------------- MODULE SessionOrchestratorProofs ---------------------
(***************************************************************************)
(* Proofs about SessionOrchestrator: it uses the container runner only     *)
(* through the runner's own steps, so what ContainerRunnerProofs shows of  *)
(* the runner holds of the whole system.                                   *)
(***************************************************************************)
EXTENDS SessionOrchestrator, ContainerRunnerProofs, FiniteSetTheorems

\* Types, and the fact that no row of container_state is ever written.
BaseInv == VarsTypeOK /\ stateRow = {}

\* What closing rows changes.
LEMMA CloseRowsEffect ==
  ASSUME BaseInv, NEW S \in SUBSET Sessions, CloseRows(S)
  PROVE  /\ sessionRow' \in [Sessions -> {"none", "active", "closed"}]
         /\ \A s \in Sessions :
              sessionRow'[s] = IF proc # "closed" /\ s \in S THEN "closed"
                               ELSE sessionRow[s]
         /\ stateRow' = {}
  BY DEF CloseRows, BaseInv, VarsTypeOK, dbVars

\* What killing agents changes.
LEMMA KillAgentsEffect ==
  ASSUME VarsTypeOK, NEW S \in SUBSET Sessions, KillAgents(S)
  PROVE  /\ agent' \in [Sessions -> AgentState]
         /\ \A s \in Sessions :
              agent'[s] = IF s \in S /\ agent[s] = "alive" THEN "signalled"
                          ELSE agent[s]
  BY DEF KillAgents, VarsTypeOK, AgentState

-----------------------------------------------------------------------------
(* Every step is a step of the runner, or leaves the runner alone. *)

\* Recovery at boot finds no row and touches no container.
LEMMA BootLeavesRunner == BaseInv /\ Boot => UNCHANGED runnerVars
<1> SUFFICES ASSUME BaseInv, Boot PROVE UNCHANGED runnerVars
  OBVIOUS
<1>1. OrphanRows = {}
  BY DEF BaseInv, OrphanRows
<1>2. container' = [s \in Sessions |-> container[s]]
  BY <1>1 DEF Boot
<1>3. container' = container
  BY <1>2 DEF BaseInv, VarsTypeOK, RunnerTypeOK
<1> QED
  BY <1>3 DEF Boot, runnerVars

LEMMA RunnerStep == BaseInv /\ [Next]_vars => [RunnerNext]_runnerVars
<1> SUFFICES ASSUME BaseInv, [Next]_vars PROVE [RunnerNext]_runnerVars
  OBVIOUS
<1>1. ASSUME NEW s \in Sessions, NewSession(s) PROVE RunnerNext
  BY <1>1 DEF NewSession, RunnerNext
<1>2. ASSUME NEW s \in Sessions, NewSessionThrows(s) PROVE UNCHANGED runnerVars
  BY <1>2 DEF NewSessionThrows
<1>3. ASSUME NEW s \in Sessions, ContainerRefused(s) PROVE RunnerNext
  BY <1>3 DEF ContainerRefused, RunnerNext
<1>4. ASSUME NEW s \in Sessions, ContainerStarted(s) PROVE RunnerNext
  BY <1>4 DEF ContainerStarted, RunnerNext
<1>5. ASSUME NEW s \in Sessions, AgentConnected(s) PROVE UNCHANGED runnerVars
  BY <1>5 DEF AgentConnected
<1>6. ASSUME NEW s \in Sessions, ConnectRejects(s) PROVE RunnerNext
  <2>1. StopCalled({s}, "fail")
    BY <1>6 DEF ConnectRejects
  <2>2. {s} \in SUBSET Sessions /\ "fail" \in Callers \ {"idle"}
    BY DEF Callers
  <2> QED
    BY <2>1, <2>2 DEF RunnerNext
<1>7. ASSUME NEW s \in Sessions, AgentExits(s) PROVE UNCHANGED runnerVars
  BY <1>7 DEF AgentExits
<1>8. ASSUME NEW s \in Sessions, Prompt(s) PROVE RunnerNext
  BY <1>8 DEF Prompt, RunnerNext
<1>9. ASSUME NEW s \in Sessions, PromptSettles(s) PROVE UNCHANGED runnerVars
  BY <1>9 DEF PromptSettles
<1>10. ASSUME NEW s \in Sessions, NEW c \in Closers, CloseSession(s, c)
       PROVE RunnerNext
  <2>1. StopCalled({s}, c)
    BY <1>10 DEF CloseSession, CloseSessions
  <2>2. {s} \in SUBSET Sessions /\ c \in Callers \ {"idle"}
    BY RunnerAssumption DEF Callers
  <2> QED
    BY <2>1, <2>2 DEF RunnerNext
<1>11. ASSUME NEW s \in Sessions, NEW k \in Callers, StopReturns(s, k)
       PROVE RunnerNext
  BY <1>11 DEF StopReturns, RunnerNext
<1>12. ASSUME NEW s \in Sessions, NEW k \in Callers, RemoveReturns(s, k)
       PROVE RunnerNext
  BY <1>12 DEF RemoveReturns, RunnerNext
<1>13. ASSUME NEW s \in Sessions, IdleTimeout(s) PROVE RunnerNext
  BY <1>13 DEF IdleTimeout, RunnerNext
<1>14. ASSUME NEW s \in Sessions, RuntimeStep(s) PROVE RunnerNext
  BY <1>14 DEF RuntimeStep, RunnerNext
<1>15. ASSUME Shutdown PROVE RunnerNext
  <2>1. StopCalled(active, "shutdown")
    BY <1>15 DEF Shutdown, CloseSessions
  <2>2. active \in SUBSET Sessions /\ "shutdown" \in Callers \ {"idle"}
    BY DEF Callers, BaseInv, VarsTypeOK
  <2> QED
    BY <2>1, <2>2 DEF RunnerNext
<1>16. ASSUME ShutdownSettles PROVE UNCHANGED runnerVars
  BY <1>16 DEF ShutdownSettles
<1>17. ASSUME ProcessEnds PROVE RunnerNext
  BY <1>17 DEF ProcessEnds, RunnerNext
<1>18. ASSUME Boot PROVE UNCHANGED runnerVars
  BY <1>18, BootLeavesRunner
<1>19. ASSUME UNCHANGED vars PROVE UNCHANGED runnerVars
  BY <1>19 DEF vars
<1> QED
  BY <1>1, <1>2, <1>3, <1>4, <1>5, <1>6, <1>7, <1>8, <1>9, <1>10, <1>11, <1>12,
     <1>13, <1>14, <1>15, <1>16, <1>17, <1>18, <1>19 DEF Next

-----------------------------------------------------------------------------
(* The inductive invariant, session by session. *)

\* A session whose start() is awaited is nowhere else yet, and one whose agent
\* is connecting is not stored yet.
CreatedInOrder(u) ==
  /\ u \in starting => /\ u \notin active \cup connecting \cup containers \cup Stopping
                       /\ agent[u] = "none"
  /\ u \in connecting => u \notin active

\* Nothing exists of a session without a row.
RowComesFirst(u) ==
  sessionRow[u] = "none" =>
    /\ u \notin active \cup Creating \cup containers \cup Stopping
    /\ agent[u] = "none"
    /\ container[u] = "none"

\* A closed session, and what a stop() will find when it closes the row.
ClosingIsFinal(u) ==
  u \notin early =>
    /\ \/ sessionRow[u] = "closed"
       \/ \E k \in Callers \ {"idle"} : stopCall[<<u, k>>] # "off"
       => u \notin active \cup Creating /\ (agent[u] = "alive" => u \in strays)
    /\ sessionRow[u] = "closed" => u \notin containers

\* An agent has an owner, or was sent SIGTERM and is nobody's any more.
AgentOwned(u) ==
  /\ agent[u] = "alive" => u \in active \cup connecting \cup strays
  /\ agent[u] = "signalled" => u \notin active \cup connecting

\* A session of shutdown's snapshot is closed or still being stopped.
SnapshotProgress(u) ==
  proc \in {"closing", "closed"} /\ u \in shutdownIds =>
    /\ u \notin active \cup Creating
    /\ agent[u] # "alive"
    /\ sessionRow[u] # "none"
    /\ \/ sessionRow[u] = "closed" /\ u \notin containers
       \/ proc = "closing" /\ stopCall[<<u, "shutdown">>] # "off"

\* The runner's entry belongs to a session that counts or is being stopped.
EntryOwned(u) == u \in containers => u \in active \cup connecting \cup Stopping

\* A row that says "active" says so for a reason.
RowExplained(u) ==
  sessionRow[u] = "active" =>
    /\ proc = "down" => u \in lost
    /\ proc \in {"up", "closing"} =>
         \/ u \in active \cup Creating \cup lost
         \/ container[u] = "none"
         \/ \E k \in Callers \ {"idle"} : stopCall[<<u, k>>] # "off"

Link(u) ==
  /\ CreatedInOrder(u)
  /\ RowComesFirst(u)
  /\ ClosingIsFinal(u)
  /\ AgentOwned(u)
  /\ SnapshotProgress(u)
  /\ EntryOwned(u)
  /\ RowExplained(u)

LinkInv == \A u \in Sessions : Link(u)

\* The part of the state Link(u) speaks of is left alone.
Same(u) ==
  /\ proc' = proc /\ shutdownIds' = shutdownIds /\ lost' = lost
  /\ u \in active' <=> u \in active
  /\ u \in connecting' <=> u \in connecting
  /\ u \in starting' <=> u \in starting
  /\ u \in containers' <=> u \in containers
  /\ u \in strays' <=> u \in strays
  /\ u \in early' <=> u \in early
  /\ agent'[u] = agent[u]
  /\ container'[u] = "none" <=> container[u] = "none"
  /\ sessionRow'[u] = sessionRow[u]
  /\ \A k \in Callers : stopCall'[<<u, k>>] = "off" <=> stopCall[<<u, k>>] = "off"

\* A step on other sessions keeps what links the components of u.
LEMMA Frame == ASSUME NEW u \in Sessions, Link(u), Same(u) PROVE Link(u)'
<1>1. u \in Stopping' <=> u \in Stopping
  BY DEF Same, Stopping
<1>2. "shutdown" \in Callers
  BY DEF Callers
<1> QED
  BY <1>1, <1>2 DEF Same, Link, CreatedInOrder, RowComesFirst, ClosingIsFinal,
     AgentOwned, SnapshotProgress, EntryOwned, RowExplained, Creating

\* What calling stop() changes.
LEMMA StopCalledEffect ==
  ASSUME RunnerTypeOK, NEW S \in SUBSET Sessions, NEW k \in Callers, StopCalled(S, k)
  PROVE  /\ Stopping' = Stopping \cup (S \cap containers)
         /\ \A u \in Sessions, j \in Callers :
              stopCall'[<<u, j>>] = IF u \in S \cap containers /\ j = k THEN "stop"
                                    ELSE stopCall[<<u, j>>]
         /\ UNCHANGED <<container, starting, containers, orphans>>
  BY DEF StopCalled, Stopping, RunnerTypeOK

LEMMA StopOneEffect ==
  ASSUME RunnerTypeOK, NEW s \in Sessions, NEW k \in Callers, StopCalled({s}, k)
  PROVE  /\ \A v \in Sessions, j \in Callers :
              stopCall'[<<v, j>>] = IF v \in {s} \cap containers /\ j = k THEN "stop"
                                    ELSE stopCall[<<v, j>>]
         /\ UNCHANGED <<starting, containers>>
  BY DEF StopCalled, RunnerTypeOK

\* No CLI command makes a container of nothing, or nothing of a container.
LEMMA CliKeepsExistence ==
  ASSUME NEW s \in Sessions, NEW st \in AfterCli(s)
  PROVE  st = "none" <=> container[s] = "none"
  BY DEF AfterCli

\* Every step keeps the types and writes no row of container_state.
LEMMA BaseStep == BaseInv /\ RunnerInv' /\ [Next]_vars => BaseInv'
<1> SUFFICES ASSUME BaseInv, RunnerInv', [Next]_vars PROVE BaseInv'
  OBVIOUS
<1> RunnerTypeOK'
  BY DEF RunnerInv
<1> USE DEF BaseInv, VarsTypeOK
<1>1. ASSUME NEW s \in Sessions, NewSession(s) PROVE BaseInv'
  BY <1>1 DEF NewSession, MayCreate, procVars, agentVars
<1>2. ASSUME NEW s \in Sessions, NewSessionThrows(s) PROVE BaseInv'
  BY <1>2 DEF NewSessionThrows, MayCreate, procVars, agentVars
<1>3. ASSUME NEW s \in Sessions, ContainerRefused(s) PROVE BaseInv'
  BY <1>3, CloseRowsEffect DEF ContainerRefused, procVars, agentVars
<1>4. ASSUME NEW s \in Sessions, ContainerStarted(s) PROVE BaseInv'
  BY <1>4 DEF ContainerStarted, procVars, dbVars, AgentState
<1>5. ASSUME NEW s \in Sessions, AgentConnected(s) PROVE BaseInv'
  BY <1>5 DEF AgentConnected, procVars, dbVars
<1>6. ASSUME NEW s \in Sessions, ConnectRejects(s) PROVE BaseInv'
  BY <1>6, CloseRowsEffect DEF ConnectRejects, procVars
<1>7. ASSUME NEW s \in Sessions, AgentExits(s) PROVE BaseInv'
  BY <1>7 DEF AgentExits, procVars, dbVars, AgentState
<1>8. ASSUME NEW s \in Sessions, Prompt(s) PROVE BaseInv'
  BY <1>8, OrchestratorAssumption DEF Prompt, procVars, dbVars
<1>9. ASSUME NEW s \in Sessions, PromptSettles(s) PROVE BaseInv'
  BY <1>9, OrchestratorAssumption DEF PromptSettles, procVars, dbVars
<1>10. ASSUME NEW s \in Sessions, NEW c \in Closers, CloseSession(s, c)
       PROVE BaseInv'
  <2>1. CloseRows({s} \ containers) /\ KillAgents({s} \cap active) /\ Deactivate({s})
    BY <1>10 DEF CloseSession, CloseSessions
  <2> QED
    BY <1>10, <2>1, CloseRowsEffect, KillAgentsEffect
    DEF CloseSession, Deactivate, procVars
<1>11. ASSUME NEW s \in Sessions, NEW k \in Callers, StopReturns(s, k)
       PROVE BaseInv'
  BY <1>11 DEF StopReturns, procVars, dbVars, agentVars
<1>12. ASSUME NEW s \in Sessions, NEW k \in Callers, RemoveReturns(s, k)
       PROVE BaseInv'
  BY <1>12, CloseRowsEffect DEF RemoveReturns, procVars, agentVars
<1>13. ASSUME NEW s \in Sessions, IdleTimeout(s) PROVE BaseInv'
  BY <1>13 DEF IdleTimeout, procVars, dbVars, agentVars
<1>14. ASSUME NEW s \in Sessions, RuntimeStep(s) PROVE BaseInv'
  BY <1>14 DEF RuntimeStep, procVars, dbVars, agentVars
<1>15. ASSUME Shutdown PROVE BaseInv'
  <2>1. CloseRows(active \ containers) /\ KillAgents(active \cap active)
        /\ Deactivate(active)
    BY <1>15 DEF Shutdown, CloseSessions
  <2> QED
    BY <1>15, <2>1, CloseRowsEffect, KillAgentsEffect DEF Shutdown, Deactivate
<1>16. ASSUME ShutdownSettles PROVE BaseInv'
  BY <1>16 DEF ShutdownSettles, dbVars, agentVars
<1>17. ASSUME ProcessEnds PROVE BaseInv'
  BY <1>17, OrchestratorAssumption DEF ProcessEnds, dbVars
<1>18. ASSUME Boot PROVE BaseInv'
  BY <1>18 DEF Boot, agentVars
<1>19. ASSUME UNCHANGED vars PROVE BaseInv'
  BY <1>19 DEF vars, procVars, dbVars, agentVars
<1> QED
  BY <1>1, <1>2, <1>3, <1>4, <1>5, <1>6, <1>7, <1>8, <1>9, <1>10, <1>11, <1>12,
     <1>13, <1>14, <1>15, <1>16, <1>17, <1>18, <1>19 DEF Next

\* Every step keeps the invariant that links the components.
LEMMA LinkStep ==
  ASSUME BaseInv, RunnerInv, BaseInv', RunnerInv', LinkInv, [Next]_vars
  PROVE  LinkInv'
<1> SUFFICES ASSUME NEW u \in Sessions PROVE Link(u)'
  BY DEF LinkInv
<1> DEFINE Goal == Link(u)'
<1>0. Link(u)
  BY DEF LinkInv
<1> USE DEF BaseInv, VarsTypeOK, RunnerTypeOK, Creating
<1>1. ASSUME NEW s \in Sessions, NewSession(s) PROVE Goal
  <2>1. CASE u # s
    BY <1>0, <1>1, <2>1, Frame
    DEF Same, NewSession, MayCreate, StartCalled, procVars, agentVars
  <2>2. CASE u = s
    BY <1>0, <1>1, <2>2
    DEF NewSession, MayCreate, StartCalled, procVars, agentVars, Link, Stopping,
        CreatedInOrder, RowComesFirst, ClosingIsFinal, AgentOwned, SnapshotProgress,
        EntryOwned, RowExplained
  <2> QED
    BY <2>1, <2>2
<1>2. ASSUME NEW s \in Sessions, NewSessionThrows(s) PROVE Goal
  <2>1. CASE u # s
    BY <1>0, <1>2, <2>1, Frame
    DEF Same, NewSessionThrows, MayCreate, procVars, agentVars, runnerVars
  <2>2. CASE u = s
    BY <1>0, <1>2, <2>2
    DEF NewSessionThrows, MayCreate, procVars, agentVars, runnerVars, Link, Stopping,
        CreatedInOrder, RowComesFirst, ClosingIsFinal, AgentOwned, SnapshotProgress,
        EntryOwned, RowExplained
  <2> QED
    BY <2>1, <2>2
<1>3. ASSUME NEW s \in Sessions, ContainerRefused(s) PROVE Goal
  <2>1. CASE u # s
    BY <1>0, <1>3, <2>1, Frame, CloseRowsEffect
    DEF Same, ContainerRefused, StartRejects, procVars, agentVars
  <2>2. CASE u = s
    BY <1>0, <1>3, <2>2, CloseRowsEffect
    DEF ContainerRefused, StartRejects, procVars, agentVars, Link, Stopping,
        CreatedInOrder, RowComesFirst, ClosingIsFinal, AgentOwned, SnapshotProgress,
        EntryOwned, RowExplained
  <2> QED
    BY <2>1, <2>2
<1>4. ASSUME NEW s \in Sessions, ContainerStarted(s) PROVE Goal
  <2>1. CASE u # s
    BY <1>0, <1>4, <2>1, Frame
    DEF Same, ContainerStarted, StartResolves, StartIdleTimer, Track, procVars, dbVars
  <2>2. CASE u = s
    BY <1>0, <1>4, <2>2
    DEF ContainerStarted, StartResolves, Track, procVars, dbVars, Link, Stopping,
        CreatedInOrder, RowComesFirst, ClosingIsFinal, AgentOwned, SnapshotProgress,
        EntryOwned, RowExplained
  <2> QED
    BY <2>1, <2>2
<1>5. ASSUME NEW s \in Sessions, AgentConnected(s) PROVE Goal
  <2>1. CASE u # s
    BY <1>0, <1>5, <2>1, Frame
    DEF Same, AgentConnected, procVars, dbVars, runnerVars
  <2>2. CASE u = s
    BY <1>0, <1>5, <2>2
    DEF AgentConnected, procVars, dbVars, runnerVars, Link, Stopping,
        CreatedInOrder, RowComesFirst, ClosingIsFinal, AgentOwned, SnapshotProgress,
        EntryOwned, RowExplained
  <2> QED
    BY <2>1, <2>2
<1>6. ASSUME NEW s \in Sessions, ConnectRejects(s) PROVE Goal
  <2>1. "fail" \in Callers /\ {s} \in SUBSET Sessions /\ {s} \ containers \in SUBSET Sessions
    BY DEF Callers
  <2>2. /\ s \in connecting
        /\ connecting' = connecting \ {s}
        /\ strays' = IF agent[s] = "alive" THEN strays \cup {s} ELSE strays
        /\ UNCHANGED <<proc, shutdownIds, lost, active, agent, early, container>>
    BY <1>6 DEF ConnectRejects, StopCalled, procVars
  <2>3. /\ \A v \in Sessions, j \in Callers :
             stopCall'[<<v, j>>] = IF v \in {s} \cap containers /\ j = "fail" THEN "stop"
                                   ELSE stopCall[<<v, j>>]
        /\ UNCHANGED <<starting, containers>>
    BY <1>6, <2>1, StopOneEffect DEF ConnectRejects
  <2>4. sessionRow'[u] = IF proc # "closed" /\ u \in {s} \ containers THEN "closed"
                         ELSE sessionRow[u]
    BY <1>6, <2>1, CloseRowsEffect DEF ConnectRejects
  <2>5. CASE u # s
    <3>1. Same(u)
      BY <2>2, <2>3, <2>4, <2>5 DEF Same
    <3> QED
      BY <1>0, <3>1, Frame
  <2>6. CASE u = s
    <3>1. CreatedInOrder(u)' /\ RowComesFirst(u)'
      BY <1>0, <2>2, <2>3, <2>4, <2>6 DEF Link, CreatedInOrder, RowComesFirst
    <3>2. ClosingIsFinal(u)'
      BY <1>0, <2>2, <2>3, <2>4, <2>6 DEF Link, CreatedInOrder, ClosingIsFinal
    <3>3. AgentOwned(u)' /\ SnapshotProgress(u)'
      BY <1>0, <2>1, <2>2, <2>3, <2>4, <2>6 DEF Link, AgentOwned, SnapshotProgress
    <3>4. u \in containers => stopCall'[<<u, "fail">>] = "stop"
      BY <2>1, <2>3, <2>6
    <3>5. EntryOwned(u)'
      BY <2>1, <2>3, <3>4 DEF EntryOwned, Stopping
    <3>6. RowExplained(u)'
      BY <1>0, <2>1, <2>2, <2>4, <2>6, <3>4 DEF Link, RowExplained
    <3> QED
      BY <3>1, <3>2, <3>3, <3>5, <3>6 DEF Link
  <2> QED
    BY <2>5, <2>6
<1>7. ASSUME NEW s \in Sessions, AgentExits(s) PROVE Goal
  <2>1. CASE u # s
    BY <1>0, <1>7, <2>1, Frame DEF Same, AgentExits, procVars, dbVars, runnerVars
  <2>2. CASE u = s
    BY <1>0, <1>7, <2>2
    DEF AgentExits, procVars, dbVars, runnerVars, Link, Stopping,
        CreatedInOrder, RowComesFirst, ClosingIsFinal, AgentOwned, SnapshotProgress,
        EntryOwned, RowExplained
  <2> QED
    BY <2>1, <2>2
<1>8. ASSUME NEW s \in Sessions, Prompt(s) PROVE Goal
  BY <1>0, <1>8, Frame DEF Same, Prompt, ResetIdleTimer, procVars, dbVars
<1>9. ASSUME NEW s \in Sessions, PromptSettles(s) PROVE Goal
  BY <1>0, <1>9, Frame DEF Same, PromptSettles, procVars, dbVars, runnerVars
<1>10. ASSUME NEW s \in Sessions, NEW c \in Closers, CloseSession(s, c) PROVE Goal
  <2>1. c \in Callers /\ c # "idle" /\ c # "shutdown" /\ {s} \in SUBSET Sessions
    BY RunnerAssumption DEF Callers
  <2>2. /\ StopCalled({s}, c) /\ CloseRows({s} \ containers)
        /\ KillAgents({s} \cap active) /\ Deactivate({s})
    BY <1>10 DEF CloseSession, CloseSessions
  <2>3. /\ \A v \in Sessions, j \in Callers :
             stopCall'[<<v, j>>] = IF v \in {s} \cap containers /\ j = c THEN "stop"
                                   ELSE stopCall[<<v, j>>]
        /\ UNCHANGED <<starting, containers>>
    BY <2>1, <2>2, StopOneEffect
  <2>4. sessionRow'[u] = IF proc # "closed" /\ u \in {s} \ containers THEN "closed"
                         ELSE sessionRow[u]
    BY <2>2, CloseRowsEffect
  <2>5. agent'[u] = IF u \in {s} \cap active /\ agent[u] = "alive" THEN "signalled"
                    ELSE agent[u]
    BY <2>2, KillAgentsEffect
  <2>6. /\ proc = "up" /\ sessionRow[s] # "none"
        /\ active' = active \ {s}
        /\ early' = IF s \in Creating THEN early \cup {s} ELSE early
        /\ UNCHANGED <<proc, shutdownIds, lost, connecting, strays, container>>
    BY <1>10, <2>2 DEF CloseSession, Deactivate, StopCalled, procVars
  <2>7. CASE u # s
    <3>1. Same(u)
      BY <2>3, <2>4, <2>5, <2>6, <2>7 DEF Same
    <3> QED
      BY <1>0, <3>1, Frame
  <2>8. CASE u = s
    <3>1. CreatedInOrder(u)'
      <4>1. u \in Stopping' => u \in Stopping \/ u \in containers
        BY <2>3, <2>8 DEF Stopping
      <4> QED
        BY <1>0, <2>3, <2>5, <2>6, <2>8, <4>1 DEF Link, CreatedInOrder
    <3>2. RowComesFirst(u)' /\ SnapshotProgress(u)'
      BY <2>4, <2>6, <2>8 DEF RowComesFirst, SnapshotProgress
    <3>3. AgentOwned(u)'
      BY <1>0, <2>5, <2>6, <2>8 DEF Link, CreatedInOrder, AgentOwned
    <3>4. ClosingIsFinal(u)'
      BY <1>0, <2>3, <2>4, <2>5, <2>6, <2>8, <3>3
      DEF Link, CreatedInOrder, AgentOwned, ClosingIsFinal
    <3>5. u \in containers => stopCall'[<<u, c>>] = "stop"
      BY <2>1, <2>3, <2>8
    <3>6. EntryOwned(u)'
      BY <2>1, <2>3, <3>5 DEF EntryOwned, Stopping
    <3>7. RowExplained(u)'
      BY <2>1, <2>4, <2>6, <2>8, <3>5 DEF RowExplained
    <3> QED
      BY <3>1, <3>2, <3>3, <3>4, <3>6, <3>7 DEF Link
  <2> QED
    BY <2>7, <2>8
<1>11. ASSUME NEW s \in Sessions, NEW k \in Callers, StopReturns(s, k) PROVE Goal
  <2>1. /\ stopCall[<<s, k>>] = "stop"
        /\ stopCall' = [stopCall EXCEPT ![<<s, k>>] = "remove"]
        /\ UNCHANGED <<starting, containers, procVars, dbVars, agentVars, early>>
    BY <1>11 DEF StopReturns, RuntimeStopReturns
  <2>2. PICK st \in AfterCli(s) : container' = [container EXCEPT ![s] = st]
    BY <1>11 DEF StopReturns, RuntimeStopReturns
  <2>3. container'[u] = "none" <=> container[u] = "none"
    BY <2>2, CliKeepsExistence
  <2>4. Same(u)
    BY <2>1, <2>3 DEF Same, procVars, dbVars, agentVars
  <2> QED
    BY <1>0, <2>4, Frame
<1>12. ASSUME NEW s \in Sessions, NEW k \in Callers, RemoveReturns(s, k) PROVE Goal
  <2>1. /\ stopCall[<<s, k>>] = "remove"
        /\ stopCall' = [stopCall EXCEPT ![<<s, k>>] = "off"]
        /\ containers' = containers \ {s}
        /\ UNCHANGED <<starting, procVars, agentVars, early>>
    BY <1>12 DEF RemoveReturns, RuntimeRemoveReturns, Untrack
  <2>2. CloseRows(IF k = "idle" THEN {} ELSE {s})
    BY <1>12 DEF RemoveReturns
  <2>3. sessionRow'[u] = IF proc # "closed" /\ k # "idle" /\ u = s THEN "closed"
                         ELSE sessionRow[u]
    BY <2>2, CloseRowsEffect
  <2>6. container'[u] = "none" <=> container[u] = "none"
    <3>1. PICK st \in AfterCli(s) : container' = [container EXCEPT ![s] = st]
      BY <1>12 DEF RemoveReturns, RuntimeRemoveReturns
    <3> QED
      BY <3>1, CliKeepsExistence
  <2>4. CASE u # s
    BY <1>0, <2>1, <2>3, <2>4, <2>6, Frame DEF Same, procVars, agentVars
  <2>5. CASE u = s
    <3>1. u \in Stopping /\ (u \in Stopping' => u \in Stopping)
      BY <2>1, <2>5 DEF Stopping
    <3>2. \A j \in Callers : stopCall'[<<u, j>>] # "off" => stopCall[<<u, j>>] # "off"
      BY <2>1, <2>5
    <3>3. CreatedInOrder(u)' /\ RowComesFirst(u)' /\ AgentOwned(u)'
      BY <1>0, <2>1, <2>3, <2>5, <2>6, <3>1
      DEF Link, CreatedInOrder, RowComesFirst, AgentOwned, procVars, agentVars
    <3>4. ClosingIsFinal(u)'
      BY <1>0, <2>1, <2>3, <2>5, <3>2 DEF Link, ClosingIsFinal, procVars, agentVars
    <3>5. SnapshotProgress(u)'
      <4>1. k # "shutdown" => stopCall'[<<u, "shutdown">>] = stopCall[<<u, "shutdown">>]
        BY <2>1 DEF Callers
      <4> QED
        BY <1>0, <2>1, <2>3, <2>5, <4>1 DEF Link, SnapshotProgress, procVars, agentVars
    <3>6. EntryOwned(u)'
      BY <2>1, <2>5 DEF EntryOwned
    <3>7. RowExplained(u)'
      <4>1. CASE k = "idle" \/ proc = "closed"
        <5>1. sessionRow'[u] = sessionRow[u]
          BY <2>3, <4>1
        <5>2. \A j \in Callers \ {"idle"} :
                proc # "closed" => stopCall'[<<u, j>>] = stopCall[<<u, j>>]
          BY <2>1, <4>1 DEF Callers
        <5> QED
          BY <1>0, <2>1, <2>6, <5>1, <5>2 DEF Link, RowExplained, procVars, agentVars
      <4>2. CASE k # "idle" /\ proc # "closed"
        BY <2>3, <2>5, <4>2 DEF RowExplained
      <4> QED
        BY <4>1, <4>2
    <3> QED
      BY <3>3, <3>4, <3>5, <3>6, <3>7 DEF Link
  <2> QED
    BY <2>4, <2>5
<1>13. ASSUME NEW s \in Sessions, IdleTimeout(s) PROVE Goal
  <2>1. /\ stopCall' = IF s \in containers
                       THEN [stopCall EXCEPT ![<<s, "idle">>] = "stop"] ELSE stopCall
        /\ UNCHANGED <<container, starting, containers, procVars, dbVars, agentVars, early>>
    BY <1>13 DEF IdleTimeout, IdleTimerFires
  <2>2. CASE u # s \/ s \notin containers
    BY <1>0, <2>1, <2>2, Frame DEF Same, procVars, dbVars, agentVars
  <2>3. CASE u = s /\ s \in containers
    <3>1. stopCall'[<<u, "idle">>] = "stop" /\ "idle" \in Callers
      BY <2>1, <2>3 DEF Callers
    <3>2. \A k \in Callers \ {"idle"} : stopCall'[<<u, k>>] = stopCall[<<u, k>>]
      BY <2>1, <2>3
    <3>3. EntryOwned(u)'
      BY <3>1 DEF EntryOwned, Stopping
    <3>4. RowExplained(u)'
      BY <1>0, <2>1, <3>2 DEF Link, RowExplained, procVars, dbVars, agentVars
    <3> QED
      BY <1>0, <2>1, <2>3, <3>2, <3>3, <3>4
      DEF procVars, dbVars, agentVars, Link, Callers,
          CreatedInOrder, RowComesFirst, ClosingIsFinal, AgentOwned, SnapshotProgress
  <2> QED
    BY <2>2, <2>3
<1>14. ASSUME NEW s \in Sessions, RuntimeStep(s) PROVE Goal
  BY <1>0, <1>14, Frame
  DEF Same, RuntimeStep, DaemonStarts, DaemonRefuses, ContainerExits,
      procVars, dbVars, agentVars
<1>15. ASSUME Shutdown PROVE Goal
  <2>1. "shutdown" \in Callers /\ active \in SUBSET Sessions
    BY DEF Callers
  <2>2. /\ StopCalled(active, "shutdown") /\ CloseRows(active \ containers)
        /\ KillAgents(active \cap active) /\ Deactivate(active)
    BY <1>15 DEF Shutdown, CloseSessions
  <2>3. /\ \A v \in Sessions, j \in Callers :
             stopCall'[<<v, j>>] = IF v \in active \cap containers /\ j = "shutdown"
                                   THEN "stop" ELSE stopCall[<<v, j>>]
        /\ UNCHANGED <<starting, containers>>
    <3>1. RunnerTypeOK
      OBVIOUS
    <3> HIDE DEF RunnerTypeOK, BaseInv, VarsTypeOK
    <3> QED
      BY <2>1, <2>2, <3>1, StopCalledEffect
  <2>4. sessionRow'[u] = IF proc # "closed" /\ u \in active \ containers THEN "closed"
                         ELSE sessionRow[u]
    BY <2>1, <2>2, CloseRowsEffect
  <2>5. agent'[u] = IF u \in active /\ agent[u] = "alive" THEN "signalled"
                    ELSE agent[u]
    BY <2>1, <2>2, KillAgentsEffect
  <2>6. /\ proc = "up" /\ proc' = "closing" /\ shutdownIds' = active
        /\ active' = {}
        /\ UNCHANGED <<connecting, lost, strays, early, container>>
    BY <1>15, <2>2 DEF Shutdown, Deactivate, StopCalled
  <2>7. u \in Stopping' => u \in Stopping \/ u \in containers
    BY <2>3 DEF Stopping
  <2>8. CreatedInOrder(u)' /\ RowComesFirst(u)' /\ AgentOwned(u)'
    BY <1>0, <2>3, <2>4, <2>5, <2>6, <2>7
    DEF Link, CreatedInOrder, RowComesFirst, AgentOwned
  <2>9. ClosingIsFinal(u)'
    BY <1>0, <2>3, <2>4, <2>5, <2>6 DEF Link, CreatedInOrder, ClosingIsFinal
  <2>10. SnapshotProgress(u)'
    BY <1>0, <2>1, <2>3, <2>4, <2>5, <2>6
    DEF Link, CreatedInOrder, RowComesFirst, SnapshotProgress
  <2>11. u \in active \cap containers => stopCall'[<<u, "shutdown">>] = "stop"
    BY <2>1, <2>3
  <2>12. EntryOwned(u)'
    <3>1. u \in Stopping => u \in Stopping'
      BY <2>3 DEF Stopping
    <3> QED
      BY <1>0, <2>1, <2>3, <2>6, <2>11, <3>1 DEF Link, EntryOwned, Stopping
  <2>13. RowExplained(u)'
    <3>1. \A k \in Callers : stopCall[<<u, k>>] # "off" => stopCall'[<<u, k>>] # "off"
      BY <2>3
    <3> QED
      BY <1>0, <2>1, <2>3, <2>4, <2>6, <2>11, <3>1 DEF Link, RowExplained
  <2> QED
    BY <2>8, <2>9, <2>10, <2>12, <2>13 DEF Link
<1>16. ASSUME ShutdownSettles PROVE Goal
  BY <1>0, <1>16
  DEF ShutdownSettles, ShutdownDone, dbVars, agentVars, runnerVars, Link, Stopping,
      CreatedInOrder, RowComesFirst, ClosingIsFinal, AgentOwned, SnapshotProgress,
        EntryOwned, RowExplained
<1>17. ASSUME ProcessEnds PROVE Goal
  BY <1>0, <1>17
  DEF ProcessEnds, RunnerDies, NoCalls, dbVars, Link, Stopping,
      CreatedInOrder, RowComesFirst, ClosingIsFinal, AgentOwned, SnapshotProgress,
        EntryOwned, RowExplained
<1>18. ASSUME Boot PROVE Goal
  <2>1. UNCHANGED <<runnerVars, agentVars, early, shutdownIds, lost>>
        /\ proc = "down" /\ proc' = "up"
    BY <1>18, BootLeavesRunner DEF Boot
  <2>2. sessionRow'[u] = sessionRow[u]
    BY <1>18 DEF Boot, DeadRows
  <2> QED
    BY <1>0, <2>1, <2>2
    DEF agentVars, runnerVars, Link, Stopping,
        CreatedInOrder, RowComesFirst, ClosingIsFinal, AgentOwned, SnapshotProgress,
        EntryOwned, RowExplained
<1>19. ASSUME UNCHANGED vars PROVE Goal
  BY <1>0, <1>19, Frame DEF Same, vars, procVars, dbVars, agentVars, runnerVars
<1> QED
  BY <1>1, <1>2, <1>3, <1>4, <1>5, <1>6, <1>7, <1>8, <1>9, <1>10, <1>11, <1>12,
     <1>13, <1>14, <1>15, <1>16, <1>17, <1>18, <1>19 DEF Next

-----------------------------------------------------------------------------
(* Capacity: only newSession adds to the sessions it admitted. *)

Admitted == active \cup Creating

LEMMA AdmittedShrinks ==
  ASSUME BaseInv, [Next]_vars, ~\E s \in Sessions : NewSession(s)
  PROVE  Admitted' \subseteq Admitted
<1> USE DEF Admitted, Creating
<1>1. ASSUME NEW s \in Sessions, NewSessionThrows(s) PROVE Admitted' = Admitted
  BY <1>1 DEF NewSessionThrows, agentVars, runnerVars
<1>2. ASSUME NEW s \in Sessions, ContainerRefused(s) PROVE Admitted' \subseteq Admitted
  BY <1>2 DEF ContainerRefused, StartRejects, agentVars
<1>3. ASSUME NEW s \in Sessions, ContainerStarted(s) PROVE Admitted' = Admitted
  BY <1>3 DEF ContainerStarted, StartResolves
<1>4. ASSUME NEW s \in Sessions, AgentConnected(s) PROVE Admitted' = Admitted
  BY <1>4 DEF AgentConnected, runnerVars
<1>5. ASSUME NEW s \in Sessions, ConnectRejects(s) PROVE Admitted' \subseteq Admitted
  BY <1>5 DEF ConnectRejects, StopCalled
<1>6. ASSUME NEW s \in Sessions, AgentExits(s) \/ PromptSettles(s)
      PROVE Admitted' = Admitted
  BY <1>6 DEF AgentExits, PromptSettles, runnerVars
<1>7. ASSUME NEW s \in Sessions, Prompt(s) PROVE Admitted' = Admitted
  BY <1>7 DEF Prompt, ResetIdleTimer
<1>8. ASSUME NEW s \in Sessions, NEW c \in Closers, CloseSession(s, c)
      PROVE Admitted' \subseteq Admitted
  BY <1>8 DEF CloseSession, CloseSessions, Deactivate, StopCalled
<1>9. ASSUME NEW s \in Sessions, NEW k \in Callers, StopReturns(s, k)
      PROVE Admitted' = Admitted
  BY <1>9 DEF StopReturns, RuntimeStopReturns, agentVars
<1>10. ASSUME NEW s \in Sessions, NEW k \in Callers, RemoveReturns(s, k)
       PROVE Admitted' = Admitted
  BY <1>10 DEF RemoveReturns, RuntimeRemoveReturns, agentVars
<1>11. ASSUME NEW s \in Sessions, IdleTimeout(s) PROVE Admitted' = Admitted
  BY <1>11 DEF IdleTimeout, IdleTimerFires, agentVars
<1>12. ASSUME NEW s \in Sessions, RuntimeStep(s) PROVE Admitted' = Admitted
  BY <1>12 DEF RuntimeStep, DaemonStarts, DaemonRefuses, ContainerExits, agentVars
<1>13. ASSUME Shutdown PROVE Admitted' \subseteq Admitted
  BY <1>13 DEF Shutdown, CloseSessions, Deactivate, StopCalled
<1>14. ASSUME ShutdownSettles \/ UNCHANGED vars PROVE Admitted' = Admitted
  BY <1>14 DEF ShutdownSettles, agentVars, runnerVars, vars
<1>15. ASSUME ProcessEnds PROVE Admitted' \subseteq Admitted
  BY <1>15 DEF ProcessEnds, RunnerDies
<1>16. ASSUME Boot PROVE Admitted' = Admitted
  BY <1>16 DEF Boot, agentVars
<1> QED
  BY <1>1, <1>2, <1>3, <1>4, <1>5, <1>6, <1>7, <1>8, <1>9, <1>10, <1>11, <1>12,
     <1>13, <1>14, <1>15, <1>16 DEF Next

LEMMA CapacityStep == BaseInv /\ CapacityOvershoot /\ [Next]_vars => CapacityOvershoot'
<1> SUFFICES ASSUME BaseInv, CapacityOvershoot, [Next]_vars PROVE CapacityOvershoot'
  OBVIOUS
<1>1. /\ IsFiniteSet(active) /\ IsFiniteSet(Creating) /\ IsFiniteSet(PendingNew)
      /\ IsFiniteSet(Admitted)
      /\ Cardinality(Creating) <= Cardinality(PendingNew)
  <2>1. /\ active \in SUBSET Sessions /\ PendingNew \in SUBSET Sessions
        /\ Creating \in SUBSET PendingNew /\ Admitted \in SUBSET Sessions
    BY DEF BaseInv, VarsTypeOK, RunnerTypeOK, Creating, PendingNew, Admitted
  <2>2. IsFiniteSet(active) /\ IsFiniteSet(PendingNew) /\ IsFiniteSet(Admitted)
    BY <2>1, FS_Subset, RunnerAssumption
  <2> QED
    BY <2>1, <2>2, FS_Subset
<1>2. CASE \E s \in Sessions : NewSession(s)
  <2>1. PICK s \in Sessions : NewSession(s)
    BY <1>2
  <2>2. Admitted' = Admitted \cup {s}
    BY <2>1 DEF NewSession, StartCalled, agentVars, Admitted, Creating
  <2>3. Cardinality(active) < MaxConcurrent /\ Cardinality(PendingNew) < MaxPendingNew
    <3>1. /\ ~(Cardinality(active) >= MaxConcurrent)
          /\ Cardinality(PendingNew) < MaxPendingNew
      BY <2>1 DEF NewSession, MayCreate, AtCapacity
    <3>2. Cardinality(active) \in Nat
      BY <1>1, FS_CardinalityType
    <3> QED
      BY <3>1, <3>2, OrchestratorAssumption
  <2>4. Cardinality(Admitted) <= Cardinality(active) + Cardinality(Creating)
    <3>1. /\ Cardinality(active \cup Creating) =
               Cardinality(active) + Cardinality(Creating)
               - Cardinality(active \cap Creating)
      BY <1>1, FS_Union
    <3>2. IsFiniteSet(active \cap Creating)
      BY <1>1, FS_Subset
    <3>3. /\ Cardinality(active \cap Creating) \in Nat
          /\ Cardinality(active) \in Nat /\ Cardinality(Creating) \in Nat
      BY <1>1, <3>2, FS_CardinalityType
    <3> QED
      BY <3>1, <3>3 DEF Admitted
  <2>5. Cardinality(Admitted \cup {s}) <= Cardinality(Admitted) + 1
    <3>1. Cardinality(Admitted) \in Nat
      BY <1>1, FS_CardinalityType
    <3>2. Cardinality(Admitted \cup {s}) =
            IF s \in Admitted THEN Cardinality(Admitted) ELSE Cardinality(Admitted) + 1
      <4> HIDE DEF Admitted
      <4> QED BY <1>1, FS_AddElement
    <3> HIDE DEF Admitted
    <3> QED
      BY <3>1, <3>2
  <2>6. /\ Cardinality(active) \in Nat /\ Cardinality(Creating) \in Nat
        /\ Cardinality(PendingNew) \in Nat /\ Cardinality(Admitted) \in Nat
        /\ Cardinality(Admitted \cup {s}) \in Nat
    BY <1>1, FS_CardinalityType, FS_AddElement
  <2>7. Cardinality(Admitted') <= MaxConcurrent + MaxPendingNew - 1
    BY <1>1, <2>2, <2>3, <2>4, <2>5, <2>6, OrchestratorAssumption
  <2> QED
    BY <2>7 DEF CapacityOvershoot, Admitted
<1>3. CASE ~\E s \in Sessions : NewSession(s)
  <2>1. Admitted' \in SUBSET Admitted
    BY <1>3, AdmittedShrinks
  <2>2. Cardinality(Admitted') <= Cardinality(Admitted)
    BY <1>1, <2>1, FS_Subset
  <2>3. Cardinality(Admitted') \in Nat /\ Cardinality(Admitted) \in Nat
    BY <1>1, <2>1, FS_Subset, FS_CardinalityType
  <2>4. Cardinality(Admitted) <= MaxConcurrent + MaxPendingNew - 1
    BY DEF CapacityOvershoot, Admitted
  <2>5. Cardinality(Admitted') <= MaxConcurrent + MaxPendingNew - 1
    BY <2>2, <2>3, <2>4, OrchestratorAssumption
  <2> QED
    BY <2>5 DEF CapacityOvershoot, Admitted
<1> QED
  BY <1>2, <1>3

-----------------------------------------------------------------------------
(* The theorems. *)

Inv == BaseInv /\ RunnerInv /\ LinkInv /\ CapacityOvershoot

LEMMA InitInv == Init => Inv
<1> SUFFICES ASSUME Init PROVE Inv
  OBVIOUS
<1>1. RunnerInv
  BY RunnerInitInv DEF Init
<1>2. BaseInv
  BY <1>1, OrchestratorAssumption DEF Init, BaseInv, VarsTypeOK, AgentState, RunnerInv
<1>3. LinkInv
  BY DEF Init, RunnerInit, NoCalls, LinkInv, Link, CreatedInOrder, RowComesFirst,
     ClosingIsFinal, AgentOwned, SnapshotProgress, EntryOwned, RowExplained, Creating, Stopping
<1>4. CapacityOvershoot
  <2>1. active \cup Creating = {}
    BY DEF Init, RunnerInit, Creating
  <2> QED
    BY <2>1, FS_EmptySet, OrchestratorAssumption DEF CapacityOvershoot
<1> QED
  BY <1>1, <1>2, <1>3, <1>4 DEF Inv

LEMMA NextInv == Inv /\ [Next]_vars => Inv'
<1> SUFFICES ASSUME Inv, [Next]_vars PROVE Inv'
  OBVIOUS
<1>1. RunnerInv'
  BY RunnerStep, RunnerNextInv, RunnerStutter DEF Inv
<1>2. BaseInv'
  BY <1>1, BaseStep DEF Inv
<1>3. LinkInv'
  BY <1>1, <1>2, LinkStep DEF Inv
<1>4. CapacityOvershoot'
  BY CapacityStep DEF Inv
<1> QED
  BY <1>1, <1>2, <1>3, <1>4 DEF Inv

LEMMA Invariance == Spec => []Inv
  BY InitInv, NextInv, PTL DEF Spec

\* The variables keep their types, and a session is in one stage of its creation.
THEOREM TypeCorrect == Spec => []TypeOK
<1>1. Inv => TypeOK
  BY DEF Inv, BaseInv, VarsTypeOK, RunnerTypeOK, LinkInv, Link, CreatedInOrder, TypeOK
<1> QED
  BY <1>1, Invariance, PTL

\* The orchestrator and the process around it use the container runner only
\* through steps the runner allows any caller: SessionOrchestrator implements
\* ContainerRunner.
THEOREM ImplementsRunner == Spec => RunnerSpec
<1>1. Init => RunnerInit
  BY DEF Init
<1>2. Inv /\ [Next]_vars => [RunnerNext]_runnerVars
  BY RunnerStep DEF Inv
<1> QED
  BY <1>1, <1>2, Invariance, PTL DEF Spec, RunnerSpec

\* n newSession requests in flight admit at most n - 1 sessions more than
\* config.maxConcurrent; one at a time, none.
THEOREM CapacityBound == Spec => []CapacityOvershoot
<1>1. Inv => CapacityOvershoot
  BY DEF Inv
<1> QED
  BY <1>1, Invariance, PTL

\* A closed session is finished, its agent ended or sent SIGTERM, but for what a
\* crash, a failing CLI or a rejected connect lost, and unless it was closed
\* while being created.
THEOREM ClosedIsFinished == Spec => []ClosedSessionIsInert
<1>1. Inv => ClosedSessionIsInert
  BY DEF Inv, BaseInv, RunnerInv, EveryContainerKnown, LinkInv, Link, ClosingIsFinal,
     ClosedSessionIsInert, Creating
<1> QED
  BY <1>1, Invariance, PTL

\* When the database is closed every session of shutdown's snapshot is finished,
\* its agent ended or sent SIGTERM.
THEOREM ShutdownIsComplete == Spec => []ShutdownClosesSnapshot
<1>1. Inv => ShutdownClosesSnapshot
  <2> SUFFICES ASSUME Inv, proc = "closed", NEW s \in shutdownIds
               PROVE  /\ sessionRow[s] = "closed"
                      /\ s \notin active \cup containers \cup Creating
                      /\ s \in Alive => s \in orphans
                      /\ agent[s] # "alive"
    BY DEF ShutdownClosesSnapshot
  <2>1. SnapshotProgress(s)
    BY DEF Inv, BaseInv, VarsTypeOK, LinkInv, Link
  <2>2. Alive \subseteq containers \cup starting \cup orphans
    BY DEF Inv, RunnerInv, EveryContainerKnown
  <2> QED
    BY <2>1, <2>2 DEF SnapshotProgress, Creating
<1> QED
  BY <1>1, Invariance, PTL

\* A container that no session counts is being stopped or is a known orphan.
THEOREM UncountedEnd == Spec => []UncountedContainersEnd
<1>1. Inv => UncountedContainersEnd
  BY DEF Inv, BaseInv, VarsTypeOK, RunnerTypeOK, RunnerInv, EveryContainerKnown, LinkInv,
     Link, EntryOwned, UncountedContainersEnd, Creating
<1> QED
  BY <1>1, Invariance, PTL

\* While the database is open, only the sessions named by the property have a
\* row that says "active" without being active.
THEOREM RowsExplained == Spec => []ActiveRowExplained
<1>1. Inv => ActiveRowExplained
  BY DEF Inv, LinkInv, Link, RowExplained, ActiveRowExplained
<1> QED
  BY <1>1, Invariance, PTL

\* A session that stays active loses its container to its idle timer only.
THEOREM IdleTakesContainers == Spec => ActiveLosesContainerToIdle
<1> DEFINE Kept ==
      \A s \in active \cap active' :
        s \in containers \ containers' /\ s \notin early =>
          stopCall[<<s, "idle">>] = "remove" /\ stopCall'[<<s, "idle">>] = "off"
<1>1. Inv /\ [Next]_vars => [Kept]_vars
  <2> SUFFICES ASSUME Inv, Next,
                      NEW s \in active \cap active', s \in containers \ containers',
                      s \notin early
               PROVE  /\ stopCall[<<s, "idle">>] = "remove"
                      /\ stopCall'[<<s, "idle">>] = "off"
    OBVIOUS
  <2>1. ASSUME NEW u \in Sessions, NEW k \in Callers, RemoveReturns(u, k)
        PROVE  /\ stopCall[<<s, "idle">>] = "remove"
               /\ stopCall'[<<s, "idle">>] = "off"
    <3>1. /\ stopCall[<<u, k>>] = "remove"
          /\ stopCall' = [stopCall EXCEPT ![<<u, k>>] = "off"]
          /\ containers' = containers \ {u}
      BY <2>1 DEF RemoveReturns, RuntimeRemoveReturns, Untrack
    <3>2. s = u
      BY <3>1
    <3>3. ClosingIsFinal(s)
      BY <3>2 DEF Inv, LinkInv, Link
    <3>4. k = "idle"
      BY <3>1, <3>2, <3>3 DEF ClosingIsFinal
    <3>5. stopCall \in [Sessions \X Callers -> CallState]
      BY DEF Inv, BaseInv, VarsTypeOK, RunnerTypeOK
    <3> QED
      BY <3>1, <3>2, <3>4, <3>5
  <2>2. ASSUME NEW u \in Sessions, NEW k \in Callers, StopReturns(u, k)
        PROVE  containers' = containers
    BY <2>2 DEF StopReturns, RuntimeStopReturns
  <2>3. ASSUME NEW u \in Sessions,
               \/ NewSession(u) \/ NewSessionThrows(u) \/ ContainerRefused(u)
               \/ AgentConnected(u) \/ AgentExits(u) \/ Prompt(u) \/ PromptSettles(u)
               \/ IdleTimeout(u) \/ RuntimeStep(u)
        PROVE  containers' = containers
    BY <2>3 DEF NewSession, NewSessionThrows, ContainerRefused, AgentConnected,
       AgentExits, Prompt, PromptSettles, IdleTimeout, RuntimeStep, StartCalled,
       StartRejects, ResetIdleTimer, IdleTimerFires, DaemonStarts, DaemonRefuses,
       ContainerExits, runnerVars
  <2>4. ASSUME NEW u \in Sessions, ContainerStarted(u) PROVE containers \subseteq containers'
    BY <2>4 DEF ContainerStarted, StartResolves, Track
  <2>5. ASSUME NEW u \in Sessions, ConnectRejects(u) PROVE containers' = containers
    BY <2>5 DEF ConnectRejects, StopCalled
  <2>6. ASSUME NEW u \in Sessions, NEW c \in Closers, CloseSession(u, c)
        PROVE  containers' = containers
    BY <2>6 DEF CloseSession, CloseSessions, StopCalled
  <2>7. ASSUME Shutdown \/ ShutdownSettles \/ Boot PROVE containers' = containers
    BY <2>7 DEF Shutdown, CloseSessions, StopCalled, ShutdownSettles, Boot, runnerVars
  <2>8. ASSUME ProcessEnds PROVE active' = {}
    BY <2>8 DEF ProcessEnds
  <2> QED
    BY <2>1, <2>2, <2>3, <2>4, <2>5, <2>6, <2>7, <2>8 DEF Next
<1> QED
  BY <1>1, Invariance, PTL DEF Spec, ActiveLosesContainerToIdle

\* Every running agent process has an owner, was sent SIGTERM or is a known
\* stray, and a session on offer has no agent that was sent SIGTERM.
THEOREM AgentsHaveOwners == Spec => []AgentAccountedFor
<1>1. Inv => AgentAccountedFor
  BY DEF Inv, LinkInv, Link, AgentOwned, AgentAccountedFor
<1> QED
  BY <1>1, Invariance, PTL

\* What the runner promises any caller holds of the running system.
THEOREM RunnerPromises == Spec => [](EveryContainerKnown /\ TeardownAhead)
  BY ImplementsRunner, ContainersKnown, TeardownNeverForgotten, PTL

-----------------------------------------------------------------------------
(* What liveness rests on: shutdown waits for less and less *)

\* The sessions whose close shutdown awaits, in one of the given stages.
Awaited(stages) == {s \in Sessions : stopCall[<<s, "shutdown">>] \in stages}

\* No close joins those shutdown awaits, and none goes back to an earlier stage.
AwaitsLess ==
  [][proc = "closing" =>
       /\ Awaited({"stop"})' \subseteq Awaited({"stop"})
       /\ Awaited({"stop", "remove"})' \subseteq Awaited({"stop", "remove"})]_vars

\* While shutdown is under way no close joins those it awaits, and none goes
\* back from removing its container to stopping it: whatever clients, timers
\* and failing creations do meanwhile, two calls of the runtime per session of the
\* snapshot are all it waits for (shutdown, stop).
THEOREM ShutdownAwaitsLess == Spec => AwaitsLess
<1> DEFINE Less == /\ Awaited({"stop"})' \subseteq Awaited({"stop"})
                   /\ Awaited({"stop", "remove"})' \subseteq Awaited({"stop", "remove"})
           Held(s) == stopCall'[<<s, "shutdown">>] = stopCall[<<s, "shutdown">>]
<1>1. "shutdown" \in Callers /\ "shutdown" \notin Closers
  BY RunnerAssumption DEF Callers
<1>2. (\A s \in Sessions : Held(s)) => Less
  BY DEF Awaited
<1>3. ASSUME Inv, Next, proc = "closing" PROVE Less
  <2>1. stopCall \in [Sessions \X Callers -> CallState]
    BY <1>3 DEF Inv, BaseInv, VarsTypeOK, RunnerTypeOK
  <2>2. ASSUME NEW u \in Sessions, NEW k \in Callers, StopReturns(u, k) PROVE Less
    BY <1>1, <2>1, <2>2 DEF StopReturns, RuntimeStopReturns, Awaited
  <2>3. ASSUME NEW u \in Sessions, NEW k \in Callers, RemoveReturns(u, k) PROVE Less
    BY <1>1, <2>1, <2>3 DEF RemoveReturns, RuntimeRemoveReturns, Awaited
  <2>4. ASSUME NEW u \in Sessions, ConnectRejects(u) PROVE Less
    <3>1. StopCalled({u}, "fail")
      BY <2>4 DEF ConnectRejects
    <3>2. \A s \in Sessions : Held(s)
      BY <1>1, <3>1 DEF StopCalled
    <3> QED
      BY <1>2, <3>2
  <2>5. ASSUME NEW u \in Sessions, IdleTimeout(u) PROVE Less
    <3>1. \A s \in Sessions : Held(s)
      BY <1>1, <2>1, <2>5 DEF IdleTimeout, IdleTimerFires
    <3> QED
      BY <1>2, <3>1
  <2>6. CASE ProcessEnds
    BY <1>1, <2>6 DEF ProcessEnds, RunnerDies, NoCalls, Awaited
  <2>7. ASSUME NEW u \in Sessions,
               \/ ContainerRefused(u) \/ ContainerStarted(u) \/ AgentConnected(u)
               \/ AgentExits(u) \/ Prompt(u) \/ PromptSettles(u) \/ RuntimeStep(u)
        PROVE  stopCall' = stopCall
    BY <2>7 DEF ContainerRefused, ContainerStarted, AgentConnected, AgentExits, Prompt,
       PromptSettles, RuntimeStep, StartResolves, StartRejects, ResetIdleTimer,
       DaemonStarts, DaemonRefuses, ContainerExits, runnerVars
  <2>8. CASE ShutdownSettles
    BY <1>2, <2>8 DEF ShutdownSettles, runnerVars
  <2> QED
    BY <1>2, <1>3, <2>2, <2>3, <2>4, <2>5, <2>6, <2>7, <2>8
    DEF Next, NewSession, NewSessionThrows, MayCreate, CloseSession, Shutdown, Boot
<1>4. Inv /\ [Next]_vars => [proc = "closing" => Less]_vars
  BY <1>3
<1> QED
  BY <1>4, Invariance, PTL DEF Spec, AwaitsLess
=============================================================================
