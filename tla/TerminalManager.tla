-------------------------- MODULE TerminalManager --------------------------
(***************************************************************************)
(* The terminals of one agent connection (terminal-manager.ts): child      *)
(* processes running `docker exec`, their events, and the requests of the  *)
(* agent, which go on arriving after disconnect() has released everything. *)
(***************************************************************************)
EXTENDS OutputBuffer, FiniteSets

CONSTANTS
  Terminals,   \* terminal ids
  Chunks,      \* decoded chunks of output
  ErrorText,   \* what the error listener appends
  Limits,      \* values of outputByteLimit, or NoLimit
  MaxChunks,   \* bound: chunks of output per terminal
  MaxWaits     \* bound: waitForExit requests in flight per terminal

ASSUME MaxWaitsAssumption == MaxWaits \in Nat /\ MaxChunks \in Nat

ASSUME OutputAssumption ==
  /\ \A c \in Chunks \cup {ErrorText} : Legible(c)
  /\ Limits \subseteq Nat \cup {NoLimit}

VARIABLES
  terminals,   \* keys of the map
  process,     \* the child process and the events it has still to deliver
  signal,      \* the strongest signal it was sent
  limit,       \* outputByteLimit
  buffer,      \* outputBuffer
  truncated,
  exitResult,
  exitPromise, \* what exitPromise was resolved with
  waits,       \* waitForExit requests in flight
  cleaned,     \* has disconnect() called releaseAll?
  late,        \* history: terminals created after that
  written,     \* history: everything appended to the buffer
  chunks       \* history: how many chunks arrived

mapVars == <<terminals, limit, cleaned, late>>
outputVars == <<buffer, truncated, written, chunks>>
exitVars == <<exitResult, exitPromise>>
vars == <<mapVars, outputVars, exitVars, process, signal, waits>>

\* "failed": could not be spawned, "error" is to come; "errored": it came;
\* "exited": ended, "close" is to come; "closed": it came.
ProcessState == {"none", "running", "exited", "closed", "failed", "errored"}
Results == {"none", "exit", "error"}
Text == Seq(Int)

ProcessTypeOK ==
  /\ terminals \subseteq Terminals
  /\ process \in [Terminals -> ProcessState]
  /\ signal \in [Terminals -> {"none", "term", "kill"}]
  /\ exitResult \in [Terminals -> Results]
  /\ exitPromise \in [Terminals -> Results]
  /\ waits \in [Terminals -> 0..MaxWaits]
  /\ cleaned \in BOOLEAN
  /\ late \subseteq Terminals

OutputTypeOK ==
  /\ limit \in [Terminals -> Limits \cup {NoLimit}]
  /\ buffer \in [Terminals -> Text]
  /\ truncated \in [Terminals -> BOOLEAN]
  /\ written \in [Terminals -> Text]
  /\ chunks \in [Terminals -> 0..MaxChunks]

\* The variables keep their types; a waitForExit is answered once, although
\* "error" and "close" may both end its wait (waitForExit).
TypeOK == ProcessTypeOK /\ OutputTypeOK

Init ==
  /\ terminals = {}
  /\ process = [t \in Terminals |-> "none"]
  /\ signal = [t \in Terminals |-> "none"]
  /\ limit = [t \in Terminals |-> NoLimit]
  /\ buffer = [t \in Terminals |-> <<>>]
  /\ truncated = [t \in Terminals |-> FALSE]
  /\ exitResult = [t \in Terminals |-> "none"]
  /\ exitPromise = [t \in Terminals |-> "none"]
  /\ waits = [t \in Terminals |-> 0]
  /\ cleaned = FALSE
  /\ late = {}
  /\ written = [t \in Terminals |-> <<>>]
  /\ chunks = [t \in Terminals |-> 0]

-----------------------------------------------------------------------------
(* Requests of the agent *)

Create(t) ==
  /\ process[t] = "none"
  /\ \E st \in {"running", "failed"} : process' = [process EXCEPT ![t] = st]
  /\ terminals' = terminals \cup {t}
  /\ \E l \in Limits : limit' = [limit EXCEPT ![t] = l]
  /\ late' = IF cleaned THEN late \cup {t} ELSE late
  /\ UNCHANGED <<cleaned, outputVars, exitVars, signal, waits>>

\* The id is looked up now, the answer comes when the promise is resolved.
WaitForExit(t) ==
  /\ t \in terminals
  /\ waits[t] < MaxWaits
  /\ waits' = [waits EXCEPT ![t] = @ + 1]
  /\ UNCHANGED <<mapVars, outputVars, exitVars, process, signal>>

\* Plausible bug: every event answers, and not the first one only.
WaitReturns_PerEvent(t) ==
  /\ exitPromise[t] # "none"
  /\ waits' = [waits EXCEPT ![t] = @ - 1]
  /\ UNCHANGED <<mapVars, outputVars, exitVars, process, signal>>

WaitReturns(t) ==
  /\ waits[t] > 0
  /\ exitPromise[t] # "none"
  /\ waits' = [waits EXCEPT ![t] = @ - 1]
  /\ UNCHANGED <<mapVars, outputVars, exitVars, process, signal>>

\* A signal reaches a process that runs, and no stronger one is undone.
Signal(S, sig) ==
  signal' = [t \in Terminals |->
               IF /\ t \in S /\ exitResult[t] = "none"
                  /\ process[t] = "running" /\ signal[t] # "kill"
               THEN sig ELSE signal[t]]

Kill(t) ==
  /\ t \in terminals
  /\ Signal({t}, "term")
  /\ UNCHANGED <<mapVars, outputVars, exitVars, process, waits>>

\* Plausible bug: a released process that ignores SIGTERM is left running.
Release_Politely(S) ==
  /\ Signal(S, "term")
  /\ terminals' = terminals \ S

Release(S) ==
  /\ Signal(S, "kill")
  /\ terminals' = terminals \ S

\* An unknown id is accepted: releasing twice is harmless.
ReleaseTerminal(t) ==
  /\ Release({t} \cap terminals)
  /\ UNCHANGED <<limit, cleaned, late, outputVars, exitVars, process, waits>>

\* disconnect() of the session; requests already sent are still answered.
Cleanup ==
  /\ ~cleaned
  /\ cleaned' = TRUE
  /\ Release(terminals)
  /\ UNCHANGED <<limit, late, outputVars, exitVars, process, waits>>

-----------------------------------------------------------------------------
(* Events of the child process *)

\* appendOutput, also for a terminal that was released.
Data(t, c) ==
  /\ process[t] \in {"running", "exited"}
  /\ chunks[t] < MaxChunks
  /\ chunks' = [chunks EXCEPT ![t] = @ + 1]
  /\ written' = [written EXCEPT ![t] = @ \o c]
  /\ buffer' = [buffer EXCEPT ![t] = AppendOutput(@, c, limit[t])]
  /\ truncated' = [truncated EXCEPT ![t] = @ \/ Exceeds(buffer[t] \o c, limit[t])]
  /\ UNCHANGED <<mapVars, exitVars, process, signal, waits>>

\* The process ends: by itself, by a signal, or with its container.
ProcessExits(t) ==
  /\ process[t] = "running"
  /\ process' = [process EXCEPT ![t] = "exited"]
  /\ UNCHANGED <<mapVars, outputVars, exitVars, signal, waits>>

\* Only the first resolution of a promise counts.
Resolve(t, r) ==
  exitPromise' = [exitPromise EXCEPT ![t] = IF @ = "none" THEN r ELSE @]

\* "close", which may also follow an "error".
CloseEvent(t) ==
  /\ process[t] \in {"exited", "errored"}
  /\ process' = [process EXCEPT ![t] = "closed"]
  /\ exitResult' = [exitResult EXCEPT ![t] = "exit"]
  /\ Resolve(t, "exit")
  /\ UNCHANGED <<mapVars, outputVars, signal, waits>>

\* Plausible bug: the error listener does not resolve the promise.
FailWith_Unresolved(t) ==
  /\ exitResult' = [exitResult EXCEPT ![t] = "error"]
  /\ UNCHANGED exitPromise

\* Plausible bug: the error listener does not record the result.
FailWith_Unrecorded(t) ==
  /\ Resolve(t, "error")
  /\ UNCHANGED exitResult

FailWith(t) ==
  /\ exitResult' = [exitResult EXCEPT ![t] = "error"]
  /\ Resolve(t, "error")

\* "error": the command could not be spawned.  The message is appended
\* without regard to the limit.
ErrorEvent(t) ==
  /\ process[t] = "failed"
  /\ process' = [process EXCEPT ![t] = "errored"]
  /\ FailWith(t)
  /\ buffer' = [buffer EXCEPT ![t] = @ \o ErrorText]
  /\ written' = [written EXCEPT ![t] = @ \o ErrorText]
  /\ UNCHANGED <<mapVars, truncated, chunks, signal, waits>>

-----------------------------------------------------------------------------
Next ==
  \/ \E t \in Terminals :
       \/ Create(t) \/ WaitForExit(t) \/ WaitReturns(t) \/ Kill(t) \/ ReleaseTerminal(t)
       \/ \E c \in Chunks : Data(t, c)
       \/ ProcessExits(t) \/ CloseEvent(t) \/ ErrorEvent(t)
  \/ Cleanup

Spec == Init /\ [][Next]_vars

\* SIGKILL ends a process, the events of an ended or unspawned process are
\* delivered ("close" after "error" may not be), and what is resolved runs.
Fairness ==
  \A t \in Terminals :
    /\ WF_vars(signal[t] = "kill" /\ ProcessExits(t))
    /\ WF_vars(process[t] = "exited" /\ CloseEvent(t))
    /\ WF_vars(ErrorEvent(t))
    /\ WF_vars(WaitReturns(t))

FairSpec == Spec /\ Fairness

-----------------------------------------------------------------------------
\* A running process is in the map or was killed, and after the clean-up of a
\* disconnect only terminals the agent created afterwards are left, whatever
\* exits, kills and releases came before (release, releaseAll).
NoProcessLeft ==
  \A t \in Terminals :
    process[t] = "running" =>
      \/ signal[t] = "kill"
      \/ t \in terminals /\ (cleaned => t \in late)

\* The buffer holds everything, or says that it is truncated and holds the
\* end of it, after a few replacement characters for the one that was cut,
\* however often it was cut before; they may take it over its limit by two
\* bytes for each continuation byte of a character, and never by more
\* (appendOutput).
OutputIsTail ==
  \A t \in Terminals :
    /\ IF truncated[t]
       THEN \E k \in 0..Len(buffer[t]) \div 3 :
              LET n == Len(buffer[t]) - 3 * k
              IN  /\ n <= Len(written[t])
                  /\ buffer[t] = Replacements(k) \o LastBytes(written[t], n)
       ELSE buffer[t] = written[t]
    /\ limit[t] # NoLimit /\ exitPromise[t] # "error" =>
         Len(buffer[t]) <= limit[t] + 2 * (MaxWidth - 1)

\* waitForExit and getOutput agree on the exit status, but for a command that
\* could not be spawned and whose "close" came after the answer (create).
ExitStatusAgrees ==
  \A t \in Terminals :
    \/ exitPromise[t] = exitResult[t]
    \/ exitPromise[t] = "error" /\ exitResult[t] = "exit" /\ process[t] = "closed"

\* Liveness, under FairSpec: a waitForExit returns once its terminal has been
\* released, even if the process ignores SIGTERM or never started.
ReleaseEndsWaits ==
  \A t \in Terminals : t \notin terminals /\ waits[t] > 0 ~> waits[t] = 0
=============================================================================
