----------------------- MODULE ContainerRunnerProofs -----------------------
(***************************************************************************)
(* Proofs about ContainerRunner: its types and, for any number of sessions *)
(* and callers, that no container is lost but by a crash or a failing CLI, *)
(* and that every tracked container has its teardown ahead.                *)
(***************************************************************************)
EXTENDS ContainerRunner, TLAPS

\* A session that is tracked or being stopped has had its container up.
WasUp ==
  \A s \in Sessions :
    s \in containers \cup Stopping => container[s] \in {"running", "gone"}

RunnerInv == RunnerTypeOK /\ WasUp /\ EveryContainerKnown /\ TeardownAhead

\* The initial state satisfies the invariant.
LEMMA RunnerInitInv == RunnerInit => RunnerInv
  BY DEF RunnerInit, RunnerInv, RunnerTypeOK, WasUp, EveryContainerKnown,
         TeardownAhead, Alive, Stopping, NoCalls, ContainerState, CallState, Callers

\* A step that leaves the runner alone keeps its invariant.
LEMMA RunnerStutter == RunnerInv /\ UNCHANGED runnerVars => RunnerInv'
  BY DEF runnerVars, RunnerInv, RunnerTypeOK, WasUp, EveryContainerKnown,
         TeardownAhead, Alive, Stopping

\* Changing one call of s moves no other session in or out of Stopping, and s
\* is in it afterwards when the call is still in flight.
LEMMA StopCallSet ==
  ASSUME NEW s \in Sessions, NEW k \in Callers, NEW x \in CallState, RunnerTypeOK,
         stopCall' = [stopCall EXCEPT ![<<s, k>>] = x]
  PROVE  /\ Stopping' \ {s} = Stopping \ {s}
         /\ x # "off" => s \in Stopping'
  BY DEF Stopping, RunnerTypeOK

\* Every step of the runner keeps the invariant.
LEMMA RunnerNextInv == RunnerInv /\ RunnerNext => RunnerInv'
<1> SUFFICES ASSUME RunnerInv, RunnerNext PROVE RunnerInv'
  OBVIOUS
<1> USE DEF RunnerInv, RunnerTypeOK, WasUp, EveryContainerKnown, TeardownAhead,
            Alive, Stopping, ContainerState, CallState
<1>1. ASSUME NEW s \in Sessions, StartCalled(s) PROVE RunnerInv'
  BY <1>1 DEF StartCalled
<1>2. ASSUME NEW s \in Sessions, StartResolves(s) PROVE RunnerInv'
  BY <1>2 DEF StartResolves, StartIdleTimer, Track
<1>3. ASSUME NEW s \in Sessions, StartRejects(s) PROVE RunnerInv'
  BY <1>3 DEF StartRejects
<1>4. ASSUME NEW s \in Sessions, DaemonStarts(s) PROVE RunnerInv'
  BY <1>4 DEF DaemonStarts
<1>5. ASSUME NEW s \in Sessions, DaemonRefuses(s) PROVE RunnerInv'
  BY <1>5 DEF DaemonRefuses
<1>6. ASSUME NEW s \in Sessions, ContainerExits(s) PROVE RunnerInv'
  BY <1>6 DEF ContainerExits
<1>7. ASSUME NEW s \in Sessions, ResetIdleTimer(s) PROVE RunnerInv'
  BY <1>7 DEF ResetIdleTimer, Rearm
<1>8. ASSUME NEW s \in Sessions, IdleTimerFires(s) PROVE RunnerInv'
  <2>1. <<s, "idle">> \in Sessions \X Callers
    BY DEF Callers
  <2>2. CASE s \notin containers
    BY <1>8, <2>2 DEF IdleTimerFires
  <2>3. CASE s \in containers
    <3>1. /\ stopCall' = [stopCall EXCEPT ![<<s, "idle">>] = "stop"]
          /\ UNCHANGED <<container, starting, containers, orphans>>
          /\ idleTimer' = idleTimer \ {s}
      BY <1>8, <2>3 DEF IdleTimerFires
    <3>2. RunnerTypeOK'
      BY <3>1, <2>1
    <3>3. Stopping' = Stopping \cup {s}
      BY <3>1, <2>1, StopCallSet
    <3> QED
      BY <3>1, <3>2, <3>3, <2>3
  <2> QED
    BY <2>2, <2>3
<1>9. ASSUME NEW s \in Sessions, NEW k \in Callers, RuntimeStopReturns(s, k)
      PROVE RunnerInv'
  <2>1. /\ stopCall[<<s, k>>] = "stop"
        /\ stopCall' = [stopCall EXCEPT ![<<s, k>>] = "remove"]
        /\ UNCHANGED <<starting, containers, idleTimer, orphans>>
    BY <1>9 DEF RuntimeStopReturns
  <2>2. PICK st \in AfterCli(s) : container' = [container EXCEPT ![s] = st]
    BY <1>9 DEF RuntimeStopReturns
  <2>3. s \in Stopping
    BY <2>1
  <2>4. Stopping' = Stopping
    BY <2>1, <2>3, StopCallSet
  <2>5. st \in {"running", "gone"} /\ (container[s] = "gone" => st = "gone")
    BY <2>3 DEF AfterCli
  <2>6. RunnerTypeOK'
    BY <2>1, <2>2, <2>5
  <2>7. WasUp' /\ EveryContainerKnown'
    BY <2>1, <2>2, <2>4, <2>5
  <2>8. TeardownAhead'
    BY <2>1, <2>4
  <2> QED
    BY <2>6, <2>7, <2>8
<1>10. ASSUME NEW s \in Sessions, NEW k \in Callers, RuntimeRemoveReturns(s, k)
       PROVE RunnerInv'
  <2>1. /\ stopCall[<<s, k>>] = "remove"
        /\ stopCall' = [stopCall EXCEPT ![<<s, k>>] = "off"]
        /\ containers' = containers \ {s}
        /\ UNCHANGED <<starting, idleTimer>>
    BY <1>10 DEF RuntimeRemoveReturns, Untrack
  <2>2. PICK st \in AfterCli(s) :
          /\ container' = [container EXCEPT ![s] = st]
          /\ orphans' = IF st = "running" THEN orphans \cup {s} ELSE orphans
    BY <1>10 DEF RuntimeRemoveReturns
  <2>3. s \in Stopping
    BY <2>1
  <2>4. Stopping \ {s} \subseteq Stopping' /\ Stopping' \subseteq Stopping
    BY <2>1, <2>3, StopCallSet
  <2>5. st \in {"running", "gone"} /\ (container[s] = "gone" => st = "gone")
    BY <2>3 DEF AfterCli
  <2>6. RunnerTypeOK'
    BY <2>1, <2>2, <2>5
  <2>7. WasUp'
    BY <2>1, <2>2, <2>4, <2>5
  <2>8. EveryContainerKnown'
    BY <2>1, <2>2, <2>5
  <2>9. TeardownAhead'
    BY <2>1, <2>4
  <2> QED
    BY <2>6, <2>7, <2>8, <2>9
<1>11. ASSUME NEW S \in SUBSET Sessions, NEW k \in Callers, StopCalled(S, k)
       PROVE RunnerInv'
  <2>1. /\ idleTimer' = idleTimer \ (S \cap containers)
        /\ UNCHANGED <<container, starting, containers, orphans>>
    BY <1>11 DEF StopCalled
  <2>2. stopCall' = [c \in Sessions \X Callers |->
                       IF c[1] \in S \cap containers /\ c[2] = k THEN "stop"
                       ELSE stopCall[c]]
    BY <1>11 DEF StopCalled
  <2>3. RunnerTypeOK'
    BY <2>1, <2>2
  <2>4. Stopping' = Stopping \cup (S \cap containers)
    BY <2>2
  <2> QED
    BY <2>1, <2>3, <2>4
<1>12. ASSUME RunnerDies PROVE RunnerInv'
  BY <1>12 DEF RunnerDies, NoCalls
<1> QED
  BY <1>1, <1>2, <1>3, <1>4, <1>5, <1>6, <1>7, <1>8, <1>9, <1>10, <1>11, <1>12
  DEF RunnerNext

\* The invariant holds throughout.
LEMMA RunnerInvariant == RunnerSpec => []RunnerInv
<1>1. RunnerInv /\ [RunnerNext]_runnerVars => RunnerInv'
  BY RunnerNextInv, RunnerStutter
<1> QED
  BY RunnerInitInv, <1>1, PTL DEF RunnerSpec

\* The runner's variables keep their types (container-runner.ts).
THEOREM RunnerTypes == RunnerSpec => []RunnerTypeOK
<1>1. RunnerInv => RunnerTypeOK
  BY DEF RunnerInv
<1> QED
  BY <1>1, RunnerInvariant, PTL

\* No container is lost but by the end of the process or a stop() whose CLI
\* commands all failed, for any number of sessions and concurrent callers.
THEOREM ContainersKnown == RunnerSpec => []EveryContainerKnown
<1>1. RunnerInv => EveryContainerKnown
  BY DEF RunnerInv
<1> QED
  BY <1>1, RunnerInvariant, PTL

\* Every entry of the runner's map has an armed timer or a stop() in flight.
THEOREM TeardownNeverForgotten == RunnerSpec => []TeardownAhead
<1>1. RunnerInv => TeardownAhead
  BY DEF RunnerInv
<1> QED
  BY <1>1, RunnerInvariant, PTL
=============================================================================
