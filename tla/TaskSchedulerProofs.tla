------------------------ MODULE TaskSchedulerProofs ------------------------
(***************************************************************************)
(* Proofs about TaskScheduler, for any tasks, times and number of crashes. *)
(***************************************************************************)
EXTENDS TaskScheduler, TLAPS

\* The loop's variables agree: a snapshot is being worked through only while a
\* task is awaited, and holds neither that task nor an unknown one.
LoopInv ==
  /\ current = NoTask => queue = {}
  /\ current # NoTask => processing
  /\ current \notin queue
  /\ \A t \in queue : status[t] # "none"

\* A task that was never created never ran; a one-shot task that waits for
\* its time has not run yet.
RunsInv ==
  \A t \in Tasks :
    /\ status[t] = "none" => runs[t] = 0 /\ last[t] = Never
    /\ kind[t] = "once" /\ status[t] = "pending" => runs[t] = 0

\* What is in the snapshot was due, and still is; the next run of an interval
\* task that ran is one interval after the last one.
TimesInv ==
  /\ \A t \in queue : next[t] # Never /\ next[t] <= now
  /\ \A t \in Tasks :
       kind[t] = "interval" /\ last[t] # Never /\ next[t] # Never
         => next[t] = last[t] + value[t]

IInv == TypeOK /\ LoopInv /\ RunsInv /\ TimesInv /\ RunningHasOwner /\ OnceAtMostOnce

-----------------------------------------------------------------------------
(* The steps of the loop *)

\* The next run is null or a time.
LEMMA NextRunType ==
  ASSUME NEW k \in Kinds, NEW v \in Times, NEW base \in Nat
  PROVE  ComputeNextRunAt(k, v, base) \in Times
BY DEF ComputeNextRunAt, Kinds, Times, Never

\* Going on with a snapshot either ends the loop, or marks one task of it that
\* is pending; no other row changes.
LEMMA GoOnStep ==
  ASSUME NEW q \in SUBSET Tasks,
         NEW st \in [Tasks -> {"none", "pending", "running", "completed", "cancelled"}],
         runs \in [Tasks -> 0..2], now \in Nat, runTime \in Nat, NoTask \notin Tasks,
         GoOn(q, st)
  PROVE  /\ status' \in [Tasks -> {"none", "pending", "running", "completed", "cancelled"}]
         /\ runs' \in [Tasks -> 0..2]
         /\ runTime' \in Nat
         /\ queue' \subseteq q
         /\ current' \in Tasks \cup {NoTask}
         /\ current' = NoTask => queue' = {} /\ processing' = FALSE
         /\ current' # NoTask =>
              /\ current' \in q /\ st[current'] = "pending"
              /\ status'[current'] = "running"
              /\ processing' = TRUE
         /\ current' \notin queue'
         /\ \A t \in Tasks : t # current' => status'[t] = st[t] /\ runs'[t] = runs[t]
         /\ \A t \in Tasks : t = current' => runs'[t] = IF runs[t] = 0 THEN 1 ELSE 2
<1>1. CASE /\ StillPending(q, st) = {}
           /\ status' = st
           /\ LoopEnds
           /\ queue' = {}
           /\ current' = NoTask
           /\ UNCHANGED <<runTime, runs>>
  BY <1>1 DEF LoopEnds
<1>2. ASSUME NEW t \in StillPending(q, st),
             status' = [st EXCEPT ![t] = "running"],
             processing' = TRUE,
             queue' = StillPending(q, st) \ {t},
             current' = t,
             runTime' = now,
             runs' = [runs EXCEPT ![t] = IF @ = 0 THEN 1 ELSE 2]
      PROVE  /\ status' \in [Tasks -> {"none", "pending", "running", "completed", "cancelled"}]
             /\ runs' \in [Tasks -> 0..2]
             /\ runTime' \in Nat
             /\ queue' \subseteq q
             /\ current' \in Tasks \cup {NoTask}
             /\ current' # NoTask
             /\ current' \in q /\ st[current'] = "pending"
             /\ status'[current'] = "running"
             /\ processing' = TRUE
             /\ current' \notin queue'
             /\ \A u \in Tasks : u # current' => status'[u] = st[u] /\ runs'[u] = runs[u]
             /\ \A u \in Tasks : u = current' => runs'[u] = IF runs[u] = 0 THEN 1 ELSE 2
  BY <1>2 DEF StillPending
<1> QED
  BY <1>1, <1>2 DEF GoOn

-----------------------------------------------------------------------------
(* The inductive invariant *)

LEMMA Initially == Init => IInv
<1> SUFFICES ASSUME Init PROVE IInv
  OBVIOUS
<1>1. TypeOK
  <2>1. 0 \in 0..MaxTime /\ 0 \in 0..MaxCrashes /\ "once" \in Kinds /\ Never \in Times
    BY SchedulerAssumption DEF Kinds, Times
  <2>2. /\ status \in [Tasks -> {"none", "pending", "running", "completed", "cancelled"}]
        /\ runs \in [Tasks -> 0..2]
    BY DEF Init
  <2>3. /\ kind \in [Tasks -> Kinds] /\ value \in [Tasks -> Times]
        /\ next \in [Tasks -> Times] /\ last \in [Tasks -> Times]
    BY <2>1 DEF Init
  <2> QED
    BY <2>1, <2>2, <2>3 DEF Init, TypeOK
<1>2. LoopInv /\ RunsInv
  BY DEF Init, LoopInv, RunsInv
<1>3. TimesInv /\ RunningHasOwner /\ OnceAtMostOnce
  BY DEF Init, TimesInv, RunningHasOwner, OnceAtMostOnce
<1> QED
  BY <1>1, <1>2, <1>3 DEF IInv

\* Creating a task only touches its own, new row.
LEMMA CreateStep ==
  ASSUME IInv, NEW t \in Tasks, NEW k \in Kinds, NEW v \in Values \cup {Never},
         CreateTask(t, k, v)
  PROVE  IInv'
<1>1. v \in Times /\ now \in Nat
  BY SchedulerAssumption DEF IInv, TypeOK, Times
<1>2. ComputeNextRunAt(k, v, now) \in Times
  BY <1>1, NextRunType
<1>3. TypeOK'
  BY <1>1, <1>2 DEF IInv, TypeOK, CreateTask, loopVars
<1>4. t \notin queue
  BY DEF IInv, LoopInv, CreateTask
<1>5. LoopInv'
  BY <1>4 DEF IInv, TypeOK, LoopInv, CreateTask, loopVars
<1>6. RunsInv'
  BY DEF IInv, TypeOK, RunsInv, CreateTask
<1>7. TimesInv'
  BY <1>4 DEF IInv, TypeOK, RunsInv, TimesInv, CreateTask, loopVars
<1>8. RunningHasOwner'
  BY DEF IInv, TypeOK, RunningHasOwner, CreateTask, loopVars
<1>9. OnceAtMostOnce'
  BY DEF IInv, TypeOK, RunsInv, OnceAtMostOnce, CreateTask
<1> QED
  BY <1>3, <1>5, <1>6, <1>7, <1>8, <1>9 DEF IInv

LEMMA CancelStep ==
  ASSUME IInv, NEW t \in Tasks, CancelTask(t)
  PROVE  IInv'
<1>1. TypeOK' /\ LoopInv'
  BY DEF IInv, TypeOK, LoopInv, CancelTask, loopVars
<1>2. RunsInv' /\ TimesInv'
  BY DEF IInv, TypeOK, RunsInv, TimesInv, CancelTask, loopVars
<1>3. RunningHasOwner' /\ OnceAtMostOnce'
  BY DEF IInv, TypeOK, RunningHasOwner, OnceAtMostOnce, CancelTask, loopVars
<1> QED
  BY <1>1, <1>2, <1>3 DEF IInv

\* A poll starts from rows that are due; no task is awaited, so a row that
\* says "running" was left by an earlier process.
LEMMA PollStep ==
  ASSUME IInv, ProcessDueTasks
  PROVE  IInv'
<1> DEFINE Status == {"none", "pending", "running", "completed", "cancelled"}
<1>1. /\ Due \in SUBSET Tasks /\ status \in [Tasks -> Status]
      /\ runs \in [Tasks -> 0..2] /\ now \in Nat /\ runTime \in Nat
      /\ GoOn(Due, status)
  BY SchedulerAssumption DEF IInv, TypeOK, Due, ProcessDueTasks
<1>2. current = NoTask /\ NoTask \notin Tasks
  BY SchedulerAssumption DEF IInv, LoopInv, ProcessDueTasks, MayPoll
<1>3. /\ status' \in [Tasks -> Status] /\ runs' \in [Tasks -> 0..2] /\ runTime' \in Nat
      /\ queue' \subseteq Due
      /\ current' \in Tasks \cup {NoTask}
      /\ current' = NoTask => queue' = {} /\ processing' = FALSE
      /\ current' # NoTask =>
           /\ current' \in Due /\ status[current'] = "pending"
           /\ status'[current'] = "running" /\ processing' = TRUE
      /\ current' \notin queue'
      /\ \A t \in Tasks : t # current' => status'[t] = status[t] /\ runs'[t] = runs[t]
      /\ \A t \in Tasks : t = current' => runs'[t] = IF runs[t] = 0 THEN 1 ELSE 2
  BY <1>1, <1>2, GoOnStep
<1>4. UNCHANGED <<proc, now, kind, value, next, last, crashes, abandoned>>
  BY DEF ProcessDueTasks
<1>5. TypeOK'
  BY <1>1, <1>3, <1>4 DEF IInv, TypeOK
<1>6. LoopInv'
  BY <1>1, <1>3 DEF LoopInv, Due
<1>7. RunsInv'
  <2>1. ASSUME NEW t \in Tasks, t # current'
        PROVE  /\ status'[t] = "none" => runs'[t] = 0 /\ last'[t] = Never
               /\ kind'[t] = "once" /\ status'[t] = "pending" => runs'[t] = 0
    BY <1>3, <1>4, <2>1 DEF IInv, RunsInv
  <2>2. ASSUME NEW t \in Tasks, t = current' PROVE status'[t] = "running"
    BY <1>2, <1>3, <2>2
  <2> QED
    BY <2>1, <2>2 DEF RunsInv
<1>8. TimesInv'
  BY <1>1, <1>3, <1>4 DEF IInv, TypeOK, TimesInv, Due
<1>9. RunningHasOwner'
  BY <1>1, <1>2, <1>3, <1>4 DEF IInv, TypeOK, RunningHasOwner
<1>10. OnceAtMostOnce'
  <2> SUFFICES ASSUME NEW t \in Tasks, kind[t] = "once" PROVE runs'[t] <= 1
    BY <1>4 DEF OnceAtMostOnce
  <2>1. CASE t # current'
    BY <1>3, <2>1 DEF IInv, OnceAtMostOnce
  <2>2. CASE t = current'
    BY <1>2, <1>3, <2>2 DEF IInv, RunsInv
  <2> QED
    BY <2>1, <2>2
<1> QED
  BY <1>5, <1>6, <1>7, <1>8, <1>9, <1>10 DEF IInv

\* The end of a run rewrites the row of the awaited task, which is not in the
\* snapshot, and goes on with the snapshot.
LEMMA SettleStep ==
  ASSUME IInv, NEW t0 \in Tasks, PromptSettles(t0)
  PROVE  IInv'
<1> DEFINE Status == {"none", "pending", "running", "completed", "cancelled"}
           st == [status EXCEPT ![t0] = StatusAfter(t0)]
<1>1. /\ queue \in SUBSET Tasks /\ st \in [Tasks -> Status]
      /\ runs \in [Tasks -> 0..2] /\ now \in Nat /\ runTime \in Nat
      /\ NoTask \notin Tasks /\ GoOn(queue, st)
  BY SchedulerAssumption DEF IInv, TypeOK, PromptSettles, StatusAfter
<1>2. t0 = current /\ t0 \notin queue
  BY DEF IInv, LoopInv, PromptSettles
<1>3. /\ status' \in [Tasks -> Status] /\ runs' \in [Tasks -> 0..2] /\ runTime' \in Nat
      /\ queue' \subseteq queue
      /\ current' \in Tasks \cup {NoTask}
      /\ current' = NoTask => queue' = {} /\ processing' = FALSE
      /\ current' # NoTask =>
           /\ current' \in queue /\ st[current'] = "pending"
           /\ status'[current'] = "running" /\ processing' = TRUE
      /\ current' \notin queue'
      /\ \A t \in Tasks : t # current' => status'[t] = st[t] /\ runs'[t] = runs[t]
      /\ \A t \in Tasks : t = current' => runs'[t] = IF runs[t] = 0 THEN 1 ELSE 2
  <2> HIDE DEF st
  <2> QED BY <1>1, GoOnStep
<1>4. UNCHANGED <<proc, now, kind, value, crashes, abandoned>>
  BY DEF PromptSettles
<1>5. /\ st[t0] = StatusAfter(t0)
      /\ \A t \in Tasks : t # t0 => st[t] = status[t]
  BY DEF IInv, TypeOK
<1>6. /\ next'[t0] = IF kind[t0] = "interval"
                     THEN ComputeNextRunAt("interval", value[t0], runTime) ELSE Never
      /\ last'[t0] = runTime
      /\ \A t \in Tasks : t # t0 => next'[t] = next[t] /\ last'[t] = last[t]
  BY DEF IInv, TypeOK, PromptSettles
<1>7. /\ StatusAfter(t0) \in {"pending", "completed"}
      /\ StatusAfter(t0) = "pending" => kind[t0] = "interval"
  BY DEF StatusAfter
<1>8. TypeOK'
  <2>1. value[t0] \in Times /\ "interval" \in Kinds /\ Never \in Times
    BY DEF IInv, TypeOK, Kinds, Times
  <2>2. ComputeNextRunAt("interval", value[t0], runTime) \in Times
    BY <1>1, <2>1, NextRunType
  <2>3. next' \in [Tasks -> Times] /\ last' \in [Tasks -> Times]
    BY <1>1, <2>1, <2>2 DEF IInv, TypeOK, PromptSettles, Times
  <2> QED
    BY <1>1, <1>3, <1>4, <2>3 DEF IInv, TypeOK
<1> HIDE DEF st
<1>9. LoopInv'
  BY <1>1, <1>2, <1>3, <1>5 DEF IInv, LoopInv
<1>10. RunsInv'
  <2>1. ASSUME NEW t \in Tasks, t = current' PROVE status'[t] = "running"
    BY <1>1, <1>3, <2>1
  <2>2. ASSUME NEW t \in Tasks, t # current', t # t0
        PROVE  /\ status'[t] = "none" => runs'[t] = 0 /\ last'[t] = Never
               /\ kind'[t] = "once" /\ status'[t] = "pending" => runs'[t] = 0
    BY <1>3, <1>4, <1>5, <1>6, <2>2 DEF IInv, RunsInv
  <2>3. t0 # current' =>
          /\ status'[t0] = StatusAfter(t0)
          /\ status'[t0] # "none"
          /\ ~(kind'[t0] = "once" /\ status'[t0] = "pending")
    BY <1>3, <1>4, <1>5, <1>7
  <2> QED
    BY <2>1, <2>2, <2>3 DEF RunsInv
<1>11. TimesInv'
  <2>1. \A t \in queue' : next'[t] # Never /\ next'[t] <= now'
    BY <1>1, <1>2, <1>3, <1>4, <1>6 DEF IInv, TimesInv
  <2>2. kind[t0] = "interval" /\ next'[t0] # Never => next'[t0] = last'[t0] + value[t0]
    BY <1>6 DEF ComputeNextRunAt
  <2> QED
    BY <1>4, <1>6, <2>1, <2>2 DEF IInv, TimesInv
<1>12. RunningHasOwner'
  BY <1>2, <1>3, <1>4, <1>5, <1>7 DEF IInv, RunningHasOwner
<1>13. OnceAtMostOnce'
  BY <1>1, <1>2, <1>3, <1>4, <1>5 DEF IInv, TypeOK, RunsInv, OnceAtMostOnce
<1> QED
  BY <1>8, <1>9, <1>10, <1>11, <1>12, <1>13 DEF IInv

\* The process and the clock leave the rows alone.
LEMMA ProcessStep ==
  ASSUME IInv, Disconnect \/ DatabaseCloses \/ ProcessEnds \/ Boot \/ Tick \/ UNCHANGED vars
  PROVE  IInv'
<1>1. CASE Disconnect \/ DatabaseCloses \/ Boot \/ UNCHANGED vars
  BY <1>1 DEF IInv, TypeOK, LoopInv, RunsInv, TimesInv, RunningHasOwner, OnceAtMostOnce,
              Disconnect, DatabaseCloses, Boot, vars, rowVars, loopVars
<1>2. CASE ProcessEnds
  <2>1. TypeOK'
    <3>1. crashes' \in 0..MaxCrashes
      BY <1>2, SchedulerAssumption DEF IInv, TypeOK, ProcessEnds
    <3>2. abandoned' \subseteq Tasks
      BY <1>2 DEF IInv, TypeOK, ProcessEnds
    <3> QED
      BY <1>2, <3>1, <3>2 DEF IInv, TypeOK, ProcessEnds, rowVars
  <2>2. LoopInv' /\ RunningHasOwner'
    BY <1>2, SchedulerAssumption DEF IInv, LoopInv, RunningHasOwner, ProcessEnds, rowVars
  <2>3. RunsInv' /\ TimesInv' /\ OnceAtMostOnce'
    BY <1>2 DEF IInv, RunsInv, TimesInv, OnceAtMostOnce, ProcessEnds, rowVars
  <2> QED
    BY <2>1, <2>2, <2>3 DEF IInv
<1>3. CASE Tick
  <2>1. TypeOK' /\ now \in Nat /\ now' = now + 1
    BY <1>3, SchedulerAssumption DEF IInv, TypeOK, Tick, rowVars, loopVars
  <2>2. TimesInv'
    <3>1. \A t \in queue : next[t] \in Int
      BY DEF IInv, TypeOK, Times, Never
    <3> QED
      BY <1>3, <2>1, <3>1 DEF IInv, TimesInv, Tick, rowVars, loopVars
  <2>3. LoopInv' /\ RunsInv' /\ RunningHasOwner' /\ OnceAtMostOnce'
    BY <1>3 DEF IInv, LoopInv, RunsInv, RunningHasOwner, OnceAtMostOnce, Tick, rowVars, loopVars
  <2> QED
    BY <2>1, <2>2, <2>3 DEF IInv
<1> QED
  BY <1>1, <1>2, <1>3

LEMMA Inductive == IInv /\ [Next]_vars => IInv'
<1> SUFFICES ASSUME IInv, [Next]_vars PROVE IInv'
  OBVIOUS
<1>1. ASSUME NEW t \in Tasks, NEW k \in Kinds, NEW v \in Values \cup {Never},
             CreateTask(t, k, v)
      PROVE  IInv'
  BY <1>1, CreateStep
<1>2. ASSUME NEW t \in Tasks, CancelTask(t) PROVE IInv'
  BY <1>2, CancelStep
<1>3. ASSUME NEW t \in Tasks, PromptSettles(t) PROVE IInv'
  BY <1>3, SettleStep
<1>4. CASE ProcessDueTasks
  BY <1>4, PollStep
<1>5. CASE Disconnect \/ DatabaseCloses \/ ProcessEnds \/ Boot \/ Tick \/ UNCHANGED vars
  BY <1>5, ProcessStep
<1> QED
  BY <1>1, <1>2, <1>3, <1>4, <1>5 DEF Next

LEMMA Invariance == Spec => []IInv
<1> QED
  BY Initially, Inductive, PTL DEF Spec

-----------------------------------------------------------------------------
(* Theorems *)

\* The variables keep their types: a next run is null or a time, whatever the
\* schedule (computeNextRunAt).
THEOREM TaskTypes == Spec => []TypeOK
<1>1. IInv => TypeOK
  BY DEF IInv
<1> QED
  BY <1>1, Invariance, PTL

\* Runs never overlap, and a row says "running" only for the awaited task or
\* one a process ended with (processDueTasks, executeTask).
THEOREM RunsHaveOwners == Spec => []RunningHasOwner
<1>1. IInv => RunningHasOwner
  BY DEF IInv
<1> QED
  BY <1>1, Invariance, PTL

\* A one-shot task is prompted at most once, over any number of crashes and
\* restarts (executeTask).
THEOREM OneShotsRunOnce == Spec => []OnceAtMostOnce
<1>1. IInv => OnceAtMostOnce
  BY DEF IInv
<1> QED
  BY <1>1, Invariance, PTL

\* No step but the end of its own run takes a task out of "cancelled"
\* (cancelTask, executeTask).
THEOREM CancellationsHold == Spec => CancelHolds
<1> DEFINE Holds == \A t \in Tasks :
                      status[t] = "cancelled" /\ t # current => status'[t] = "cancelled"
<1>1. ASSUME IInv, Next PROVE Holds
  <2>1. CASE \E t \in Tasks : PromptSettles(t)
    BY <1>1, <2>1 DEF IInv, TypeOK, PromptSettles, GoOn, StillPending
  <2>2. CASE ProcessDueTasks
    BY <1>1, <2>2 DEF IInv, TypeOK, ProcessDueTasks, GoOn, StillPending
  <2>3. CASE \E t \in Tasks : CancelTask(t)
    BY <1>1, <2>3 DEF IInv, TypeOK, CancelTask
  <2>4. CASE \E t \in Tasks, k \in Kinds, v \in Values \cup {Never} : CreateTask(t, k, v)
    BY <1>1, <2>4 DEF IInv, TypeOK, CreateTask
  <2>5. CASE Disconnect \/ DatabaseCloses \/ ProcessEnds \/ Boot \/ Tick
    BY <2>5 DEF Disconnect, DatabaseCloses, ProcessEnds, Boot, Tick, rowVars
  <2> QED
    BY <1>1, <2>1, <2>2, <2>3, <2>4, <2>5 DEF Next
<1>2. IInv /\ [Next]_vars => [Holds]_vars
  BY <1>1
<1> QED
  BY <1>2, Invariance, PTL DEF Spec, CancelHolds

\* Two runs of an interval task begin at least an interval apart, however
\* late the polls are and however long the prompts take (executeTask).
THEOREM IntervalsRespected == Spec => IntervalRespected
<1> DEFINE Began(t) == /\ kind[t] = "interval" /\ status[t] # "running"
                       /\ status'[t] = "running" /\ last[t] # Never
           Apart == \A t \in Tasks :
                       /\ kind[t] = "interval" /\ status[t] # "running" /\ status'[t] = "running"
                       /\ last[t] # Never
                       => now >= last[t] + value[t]
<1>1. ASSUME IInv, Next, NEW t \in Tasks, Began(t) PROVE next[t] # Never /\ next[t] <= now
  <2>1. CASE \E u \in Tasks : PromptSettles(u)
    <3>1. t \in queue
      BY <1>1, <2>1 DEF IInv, TypeOK, PromptSettles, GoOn, StillPending, StatusAfter
    <3> QED
      BY <1>1, <3>1 DEF IInv, TimesInv
  <2>2. CASE ProcessDueTasks
    BY <1>1, <2>2 DEF IInv, TypeOK, ProcessDueTasks, GoOn, StillPending, Due
  <2>3. CASE \E u \in Tasks : CancelTask(u)
    BY <1>1, <2>3 DEF IInv, TypeOK, CancelTask
  <2>4. CASE \E u \in Tasks, k \in Kinds, v \in Values \cup {Never} : CreateTask(u, k, v)
    BY <1>1, <2>4 DEF IInv, TypeOK, CreateTask
  <2>5. CASE Disconnect \/ DatabaseCloses \/ ProcessEnds \/ Boot \/ Tick
    BY <1>1, <2>5 DEF Disconnect, DatabaseCloses, ProcessEnds, Boot, Tick, rowVars
  <2> QED
    BY <1>1, <2>1, <2>2, <2>3, <2>4, <2>5 DEF Next
<1>2. ASSUME IInv, Next PROVE Apart
  <2>1. ASSUME NEW t \in Tasks, Began(t) PROVE now >= last[t] + value[t]
    <3>1. next[t] # Never /\ next[t] <= now
      BY <1>1, <1>2, <2>1
    <3>2. next[t] = last[t] + value[t]
      BY <1>2, <2>1, <3>1 DEF IInv, TimesInv
    <3>3. now \in Int /\ next[t] \in Int
      BY <1>2 DEF IInv, TypeOK, Times, Never
    <3> QED
      BY <3>1, <3>2, <3>3
  <2> QED
    BY <2>1
<1>3. IInv /\ [Next]_vars => [Apart]_vars
  BY <1>2
<1> QED
  BY <1>3, Invariance, PTL DEF Spec, IntervalRespected

-----------------------------------------------------------------------------
(* What liveness rests on: the loop neither stops nor loses a task *)

\* The flag of the loop and the task it awaits.
FlagHeld == processing <=> current # NoTask

\* The flag is set exactly while a prompt is awaited: no way out of the loop,
\* by success, failure or the end of the process, leaves it set
\* (processDueTasks).
THEOREM FlagReleased == Spec => []FlagHeld
<1>1. Init => FlagHeld
  BY DEF Init, FlagHeld
<1>2. TypeOK /\ FlagHeld /\ [Next]_vars => FlagHeld'
  <2> SUFFICES ASSUME TypeOK, FlagHeld, [Next]_vars PROVE FlagHeld'
    OBVIOUS
  <2> USE DEF FlagHeld
  <2>1. ASSUME NEW q \in SUBSET Tasks, NEW st, GoOn(q, st) PROVE FlagHeld'
    BY <2>1, SchedulerAssumption DEF GoOn, StillPending, LoopEnds
  <2>2. CASE ProcessDueTasks
    <3>1. Due \in SUBSET Tasks /\ GoOn(Due, status)
      BY <2>2 DEF ProcessDueTasks, Due
    <3> QED
      BY <2>1, <3>1
  <2>3. ASSUME NEW t \in Tasks, PromptSettles(t) PROVE FlagHeld'
    <3>1. queue \in SUBSET Tasks /\ GoOn(queue, [status EXCEPT ![t] = StatusAfter(t)])
      BY <2>3 DEF PromptSettles, TypeOK
    <3> QED
      BY <2>1, <3>1
  <2>4. CASE ProcessEnds
    BY <2>4 DEF ProcessEnds
  <2>5. CASE UNCHANGED loopVars
    BY <2>5 DEF loopVars
  <2> QED
    BY <2>2, <2>3, <2>4, <2>5
    DEF Next, vars, CreateTask, CancelTask, Disconnect, DatabaseCloses, Boot, Tick
<1> QED
  BY <1>1, <1>2, TaskTypes, PTL DEF Spec

\* The snapshot loses no task that is pending, gets no new one, and loses the
\* next one that is awaited.
SnapshotServed ==
  [][/\ \A t \in queue : t \in queue' \/ status'[t] # "pending" \/ proc' = "down"
     /\ processing /\ processing' =>
          /\ queue' \subseteq queue
          /\ current' # current => current' \in queue \ queue']_vars

\* A task of the snapshot stays in it until the loop takes it up, a client
\* cancels it or the process ends, and the loop makes at most one prompt for
\* each task of the snapshot it began with, so that it ends if they settle
\* (processDueTasks).
THEOREM SnapshotIsServed == Spec => SnapshotServed
<1> DEFINE Served ==
      /\ \A t \in queue : t \in queue' \/ status'[t] # "pending" \/ proc' = "down"
      /\ processing /\ processing' =>
           /\ queue' \subseteq queue
           /\ current' # current => current' \in queue \ queue'
<1>1. ASSUME IInv, FlagHeld, [Next]_vars PROVE Served \/ UNCHANGED vars
  <2>1. CASE ProcessDueTasks
    <3>1. current = NoTask /\ queue = {} /\ ~processing
      BY <1>1, <2>1 DEF IInv, LoopInv, ProcessDueTasks, MayPoll
    <3> QED
      BY <3>1
  <2>2. ASSUME NEW u \in Tasks, PromptSettles(u) PROVE Served
    <3>1. PICK st : st = [status EXCEPT ![u] = StatusAfter(u)] /\ GoOn(queue, st)
      BY <2>2 DEF PromptSettles
    <3>2. ASSUME NEW t \in queue, t \notin queue' PROVE status'[t] # "pending"
      <4>1. DOMAIN st = Tasks /\ t \in Tasks
        BY <1>1, <3>1 DEF IInv, TypeOK
      <4>2. CASE StillPending(queue, st) = {}
        BY <3>1, <3>2, <4>2 DEF GoOn, StillPending
      <4>3. ASSUME NEW c \in StillPending(queue, st),
                   status' = [st EXCEPT ![c] = "running"],
                   queue' = StillPending(queue, st) \ {c}
            PROVE  status'[t] # "pending"
        BY <3>2, <4>1, <4>3 DEF StillPending
      <4> QED
        BY <3>1, <4>2, <4>3 DEF GoOn
    <3>3. processing' => queue' \subseteq queue /\ current' \in queue \ queue'
      BY <3>1 DEF GoOn, StillPending, LoopEnds
    <3> QED
      BY <3>2, <3>3
  <2>3. CASE ProcessEnds
    BY <2>3 DEF ProcessEnds
  <2>4. CASE UNCHANGED loopVars
    BY <2>4 DEF loopVars
  <2> QED
    BY <1>1, <2>1, <2>2, <2>3, <2>4
    DEF Next, vars, CreateTask, CancelTask, Disconnect, DatabaseCloses, Boot, Tick
<1>2. IInv /\ FlagHeld /\ [Next]_vars => [Served]_vars
  BY <1>1
<1> QED
  BY <1>2, Invariance, FlagReleased, PTL DEF Spec, SnapshotServed
=============================================================================
