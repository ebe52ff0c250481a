------------------------------- MODULE Replay -------------------------------
(***************************************************************************)
(* session/load: the rows of a session are read once, in the order of      *)
(* created_at, and sent to the client one by one, with an await between    *)
(* them during which prompts go on adding rows.  created_at is the wall    *)
(* clock, which may step back.                                             *)
(***************************************************************************)
EXTENDS PromptFlow, FiniteSets

CONSTANT MaxTime  \* bound: the clock shows 0..MaxTime

ASSUME TimeAssumption == MaxTime \in Nat

VARIABLES
  clock,
  stamps,    \* created_at of the rows; the place of a row is its id
  load,      \* state of loadSession
  snapshot,  \* the ids it has read
  sent,      \* the ids it has sent
  loaded,    \* history: how many rows there were
  back       \* history: calls during which the clock stepped back

replayVars == <<vars, clock, stamps, load, snapshot, sent, loaded, back>>

ReplayInit ==
  /\ Init
  /\ clock = 0
  /\ stamps = <<>>
  /\ load = "none"
  /\ snapshot = <<>>
  /\ sent = <<>>
  /\ loaded = 0
  /\ back = {}

\* A step of the prompts; a new row is stamped.
PromptStep ==
  /\ Next
  /\ stamps' = IF Len(messages') > Len(messages) THEN Append(stamps, clock) ELSE stamps
  /\ UNCHANGED <<clock, load, snapshot, sent, loaded, back>>

Tick ==
  /\ \E t \in 0..MaxTime \ {clock} :
       /\ clock' = t
       /\ back' = IF t < clock THEN back \cup InFlight ELSE back
  /\ UNCHANGED <<vars, stamps, load, snapshot, sent, loaded>>

\* Plausible bug: rows of the same millisecond come in any order.
Before_NoRowid(i, j) == stamps[i] < stamps[j] \/ (stamps[i] = stamps[j] /\ i > j)

\* ORDER BY created_at, along an index that ends with the row id.
Before(i, j) == stamps[i] < stamps[j] \/ (stamps[i] = stamps[j] /\ i < j)

GetMessages ==
  [k \in DOMAIN messages |->
     CHOOSE i \in DOMAIN messages :
       Cardinality({j \in DOMAIN messages : Before(j, i)}) = k - 1]

LoadSession ==
  /\ load = "none"
  /\ load' = "sending"
  /\ snapshot' = GetMessages
  /\ loaded' = Len(messages)
  /\ UNCHANGED <<vars, clock, stamps, sent, back>>

\* Plausible bug: the table is read again for every message.
Rows_Live == GetMessages

Rows == snapshot

SendMessage ==
  /\ load = "sending" /\ Len(sent) < Len(Rows)
  /\ sent' = Append(sent, Rows[Len(sent) + 1])
  /\ UNCHANGED <<vars, clock, stamps, load, snapshot, loaded, back>>

LoadReturns ==
  /\ load = "sending" /\ Len(sent) = Len(Rows)
  /\ load' = "done"
  /\ UNCHANGED <<vars, clock, stamps, snapshot, sent, loaded, back>>

\* The client's connection is gone.
LoadFails ==
  /\ load = "sending"
  /\ load' = "failed"
  /\ UNCHANGED <<vars, clock, stamps, snapshot, sent, loaded, back>>

ReplayNext == PromptStep \/ Tick \/ LoadSession \/ SendMessage \/ LoadReturns \/ LoadFails

ReplaySpec == ReplayInit /\ [][ReplayNext]_replayVars

-----------------------------------------------------------------------------
\* What a load sends is, in the order of created_at, rows that were there when
\* it began, none twice, and all of them when it returns, whatever prompts add
\* meanwhile (loadSession).
ReplayExact ==
  /\ \A i \in DOMAIN sent : sent[i] <= loaded
  /\ \A i, j \in DOMAIN sent :
       i < j => sent[i] # sent[j] /\ stamps[sent[i]] <= stamps[sent[j]]
  /\ load = "done" => Len(sent) = loaded

\* The client sees every answer after its question, unless the clock stepped
\* back while the call was in flight (addMessage, getMessages).
QuestionFirst ==
  \A i \in DOMAIN sent :
    LET row == messages[sent[i]]
    IN  row.role = "assistant" /\ row.prompt \notin back =>
          \E j \in 1..i - 1 : messages[sent[j]].role = "user" /\ messages[sent[j]].prompt = row.prompt
=============================================================================
