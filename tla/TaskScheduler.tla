--------------------------- MODULE TaskScheduler ---------------------------
(***************************************************************************)
(* The task scheduler (task-scheduler.ts) over the scheduled_tasks rows of *)
(* the database (db.ts): createTask, cancelTask, the poll loop and         *)
(* executeTask, which awaits a prompt while clients create and cancel      *)
(* tasks, the client disconnects, or the process dies.                     *)
(***************************************************************************)
EXTENDS Integers

CONSTANTS
  Tasks,       \* task ids that may ever be generated
  NoTask,      \* no task
  Values,      \* times of "once" and lengths of "interval" schedules
  MaxTime,     \* bound: the clock
  MaxCrashes   \* bound: times the process ends

ASSUME SchedulerAssumption ==
  /\ NoTask \notin Tasks
  /\ Values \subseteq Nat
  /\ MaxTime \in Nat
  /\ MaxCrashes \in Nat

VARIABLES
  proc,        \* "up", "stopping" (disconnected), "closed" (database closed), "down"
  now,         \* the clock, in units of the poll interval
  kind,        \* schedule_type
  value,       \* schedule_value
  status,      \* status; "none": no such row
  next,        \* next_run_at
  last,        \* last_run_at
  processing,  \* the flag of processDueTasks
  queue,       \* rows of its snapshot it has not reached
  current,     \* the task executeTask awaits the prompt of
  runTime,     \* when executeTask marked it running
  crashes,     \* times the process has ended
  runs,        \* history: times the task was prompted, up to 2
  abandoned    \* history: tasks running when the process ended

rowVars == <<kind, value, status, next, last>>
loopVars == <<processing, queue, current, runTime>>
vars == <<proc, now, rowVars, loopVars, crashes, runs, abandoned>>

Never == -1    \* a null or missing time; a missing interval is 0
Kinds == {"once", "interval", "cron"}
Times == Nat \cup {Never}

TypeOK ==
  /\ proc \in {"up", "stopping", "closed", "down"}
  /\ now \in 0..MaxTime
  /\ kind \in [Tasks -> Kinds]
  /\ value \in [Tasks -> Times]
  /\ status \in [Tasks -> {"none", "pending", "running", "completed", "cancelled"}]
  /\ next \in [Tasks -> Times]
  /\ last \in [Tasks -> Times]
  /\ processing \in BOOLEAN
  /\ queue \subseteq Tasks
  /\ current \in Tasks \cup {NoTask}
  /\ runTime \in Nat
  /\ crashes \in 0..MaxCrashes
  /\ runs \in [Tasks -> 0..2]
  /\ abandoned \subseteq Tasks

Init ==
  /\ proc = "up"
  /\ now = 0
  /\ kind = [t \in Tasks |-> "once"]
  /\ value = [t \in Tasks |-> Never]
  /\ status = [t \in Tasks |-> "none"]
  /\ next = [t \in Tasks |-> Never]
  /\ last = [t \in Tasks |-> Never]
  /\ processing = FALSE
  /\ queue = {}
  /\ current = NoTask
  /\ runTime = 0
  /\ crashes = 0
  /\ runs = [t \in Tasks |-> 0]
  /\ abandoned = {}

-----------------------------------------------------------------------------
\* Plausible bug: the interval is subtracted.
ComputeNextRunAt_WrongSign(k, v, base) ==
  IF k = "once" THEN v
  ELSE IF k = "interval" /\ v > 0 THEN base - v ELSE Never

\* Plausible bug: the next run is the base time, the interval is not added.
ComputeNextRunAt_NoInterval(k, v, base) ==
  IF k = "once" THEN v
  ELSE IF k = "interval" /\ v > 0 THEN base ELSE Never

\* Cron is not implemented: such a task is never due.
ComputeNextRunAt(k, v, base) ==
  IF k = "once" THEN v
  ELSE IF k = "interval" /\ v > 0 THEN base + v ELSE Never

\* createTask; the session was validated by loadSession.
CreateTask(t, k, v) ==
  /\ proc = "up"
  /\ status[t] = "none"
  /\ kind' = [kind EXCEPT ![t] = k]
  /\ value' = [value EXCEPT ![t] = v]
  /\ status' = [status EXCEPT ![t] = "pending"]
  /\ next' = [next EXCEPT ![t] = ComputeNextRunAt(k, v, now)]
  /\ UNCHANGED <<proc, now, last, loopVars, crashes, runs, abandoned>>

\* cancelTask, whatever the task's status.
CancelTask(t) ==
  /\ proc = "up"
  /\ status[t] # "none"
  /\ status' = [status EXCEPT ![t] = "cancelled"]
  /\ UNCHANGED <<proc, now, kind, value, next, last, loopVars, crashes, runs, abandoned>>

-----------------------------------------------------------------------------
(* The poll loop *)

\* getDueTasks
Due == {t \in Tasks : status[t] = "pending" /\ next[t] # Never /\ next[t] <= now}

\* Plausible bug: executeTask trusts the snapshot and does not re-read.
StillPending_Trusted(q, st) == q

\* executeTask re-reads each row and returns unless it is still pending.
StillPending(q, st) == {t \in q : st[t] = "pending"}

\* Plausible bug: no finally, the flag stays set for ever.
LoopEnds_FlagKept == processing' = TRUE

LoopEnds == processing' = FALSE

\* The loop goes on with the snapshot rows q, in the order of next_run_at,
\* where st are the statuses after what the previous task left: it stops at
\* the first prompt it has to await, or ends.
GoOn(q, st) ==
  LET ready == StillPending(q, st) IN
  \/ /\ ready = {}
     /\ status' = st
     /\ LoopEnds
     /\ queue' = {}
     /\ current' = NoTask
     /\ UNCHANGED <<runTime, runs>>
  \/ \E t \in ready :
     /\ \A u \in ready : next[t] <= next[u]
     /\ status' = [st EXCEPT ![t] = "running"]
     /\ processing' = TRUE
     /\ queue' = ready \ {t}
     /\ current' = t
     /\ runTime' = now
     /\ runs' = [runs EXCEPT ![t] = IF @ = 0 THEN 1 ELSE 2]

\* Plausible bug: a poll does not look at the processing flag.
MayPoll_Reentrant == TRUE

MayPoll == ~processing

\* The poll timer fires; a tick during a running loop does nothing.
ProcessDueTasks ==
  /\ proc = "up"
  /\ MayPoll
  /\ Due # {}
  /\ GoOn(Due, status)
  /\ UNCHANGED <<proc, now, kind, value, next, last, crashes, abandoned>>

\* The status a finished run writes, whatever the row says by then.
StatusAfter(t) == IF kind[t] = "interval" THEN "pending" ELSE "completed"

\* The prompt was answered or failed: the row is rewritten unconditionally
\* and the loop goes on.
PromptSettles(t) ==
  /\ t = current
  /\ proc \in {"up", "stopping"}
  /\ next' = [next EXCEPT ![t] =
                IF kind[t] = "interval"
                THEN ComputeNextRunAt("interval", value[t], runTime) ELSE Never]
  /\ last' = [last EXCEPT ![t] = runTime]
  /\ GoOn(queue, [status EXCEPT ![t] = StatusAfter(t)])
  /\ UNCHANGED <<proc, now, kind, value, crashes, abandoned>>

-----------------------------------------------------------------------------
(* The process *)

\* The client disconnects: the poll timer is cleared, a running loop goes on.
Disconnect ==
  /\ proc = "up"
  /\ proc' = "stopping"
  /\ UNCHANGED <<now, rowVars, loopVars, crashes, runs, abandoned>>

\* The orchestrator's shutdown has settled and the database is closed.
DatabaseCloses ==
  /\ proc = "stopping"
  /\ proc' = "closed"
  /\ UNCHANGED <<now, rowVars, loopVars, crashes, runs, abandoned>>

\* The process ends, with everything but the rows: it is killed, exits, or
\* the prompt settles on a closed database and the rejection of the loop,
\* which nobody handles, ends it.
ProcessEnds ==
  /\ proc # "down"
  /\ crashes < MaxCrashes
  /\ crashes' = crashes + 1
  /\ proc' = "down"
  /\ abandoned' = abandoned \cup {t \in Tasks : status[t] = "running"}
  /\ processing' = FALSE
  /\ queue' = {}
  /\ current' = NoTask
  /\ UNCHANGED <<now, rowVars, runTime, runs>>

\* Plausible bug: a restart runs again what was running.
Boot_Requeues ==
  /\ proc = "down"
  /\ proc' = "up"
  /\ status' = [t \in Tasks |->
                 IF status[t] = "running" THEN "pending" ELSE status[t]]
  /\ UNCHANGED <<now, kind, value, next, last, loopVars, crashes, runs, abandoned>>

\* start(): nothing is done about the rows.
Boot ==
  /\ proc = "down"
  /\ proc' = "up"
  /\ UNCHANGED <<now, rowVars, loopVars, crashes, runs, abandoned>>

Tick ==
  /\ now < MaxTime
  /\ now' = now + 1
  /\ UNCHANGED <<proc, rowVars, loopVars, crashes, runs, abandoned>>

Next ==
  \/ \E t \in Tasks :
       \/ \E k \in Kinds, v \in Values \cup {Never} : CreateTask(t, k, v)
       \/ CancelTask(t)
       \/ PromptSettles(t)
  \/ ProcessDueTasks
  \/ Disconnect \/ DatabaseCloses \/ ProcessEnds \/ Boot
  \/ Tick

Spec == Init /\ [][Next]_vars

\* The poll timer keeps firing and time passes; prompts are not assumed to
\* settle.
PollFairness == WF_vars(ProcessDueTasks) /\ WF_vars(Tick)

\* The agent also answers or fails every prompt.
AnswerFairness == \A t \in Tasks : WF_vars(PromptSettles(t))

FairSpec == Spec /\ PollFairness /\ AnswerFairness

-----------------------------------------------------------------------------
(* Safety *)

\* A row says "running" only while the loop awaits that very task, or because
\* a process ended during its run: runs never overlap and no other path
\* leaves a task in "running" (processDueTasks, executeTask).
RunningHasOwner ==
  \A t \in Tasks : status[t] = "running" => t = current \/ t \in abandoned

\* A one-shot task is prompted at most once, over cancels, disconnects,
\* crashes and restarts (executeTask marks before it awaits).
OnceAtMostOnce ==
  \A t \in Tasks : kind[t] = "once" => runs[t] <= 1

\* A cancelled task stays cancelled, and so is never prompted again, unless
\* its own run was in flight when it was cancelled: also when it is already
\* in the snapshot of a running poll (cancelTask, executeTask).
CancelHolds ==
  [][\A t \in Tasks :
       status[t] = "cancelled" /\ t # current => status'[t] = "cancelled"]_vars

\* An interval task is never prompted again before its interval has passed
\* since its previous run began, however late polls and prompts are
\* (executeTask, computeNextRunAt).
IntervalRespected ==
  [][\A t \in Tasks :
       /\ kind[t] = "interval" /\ status[t] # "running" /\ status'[t] = "running"
       /\ last[t] # Never
       => now >= last[t] + value[t]]_vars

\* Liveness, under FairSpec: a pending task whose time comes is picked up, is
\* cancelled, or the client disconnects or the process ends first; no task is
\* starved by the others of the sequential loop (processDueTasks).
DueTaskRuns ==
  \A t \in Tasks :
    t \in Due /\ proc = "up" ~> status[t] # "pending" \/ proc # "up"

-----------------------------------------------------------------------------
(* What the documentation says of the program. *)

\* task-scheduler.ts:164: a cancelled task is no longer picked up by the poll
\* loop.  The loop picks up what is pending (getDueTasks, executeTask), so a
\* cancelled task never becomes pending again.
CancelledNotRescheduled ==
  [][\A t \in Tasks : status[t] = "cancelled" => status'[t] # "pending"]_vars
=============================================================================
