----------------------------- MODULE Transcript -----------------------------
(***************************************************************************)
(* What the transcript of a session promises, whatever collects the        *)
(* answers: questions and answers are rows that are only ever added, and   *)
(* a call that has the agent for itself adds exactly what was said to it.  *)
(* Nothing is promised of the text of calls that overlapped.               *)
(***************************************************************************)
EXTENDS Integers, Sequences

CONSTANT Prompts

VARIABLES
  state,  \* of each call: "none", "open", "over"
  rows,   \* the transcript
  said,   \* how many chunks were said in answer to a call
  mixed   \* calls that did not have the agent for themselves

transcriptVars == <<state, rows, said, mixed>>

Open == {p \in Prompts : state[p] = "open"}
Told(p) == [n \in 1..said[p] |-> <<p, n>>]
Question(p) == [role |-> "user", prompt |-> p, text |-> <<>>]
Reply(p, text) == [role |-> "assistant", prompt |-> p, text |-> text]

TranscriptInit ==
  /\ state = [p \in Prompts |-> "none"]
  /\ rows = <<>>
  /\ said = [p \in Prompts |-> 0]
  /\ mixed = {}

Ask(p) ==
  /\ state[p] = "none"
  /\ state' = [state EXCEPT ![p] = "open"]
  /\ rows' = Append(rows, Question(p))
  /\ mixed' = IF Open = {} THEN mixed ELSE mixed \cup Open \cup {p}
  /\ UNCHANGED said

\* The agent speaks about p while other calls are open.
Say(p) ==
  /\ state[p] = "open"
  /\ said' = [said EXCEPT ![p] = @ + 1]
  /\ mixed' = mixed \cup (Open \ {p})
  /\ UNCHANGED <<state, rows>>

\* It speaks about a call that is over.
Stray ==
  /\ \E p \in Prompts : state[p] = "over"
  /\ mixed' = mixed \cup Open
  /\ UNCHANGED <<state, rows, said>>

Close(p) ==
  /\ state[p] = "open"
  /\ state' = [state EXCEPT ![p] = "over"]
  /\ IF p \in mixed
     THEN rows' = rows \/ rows' = Append(rows, Reply(p, rows'[Len(rows')].text))
     ELSE rows' = IF said[p] = 0 THEN rows ELSE Append(rows, Reply(p, Told(p)))
  /\ UNCHANGED <<said, mixed>>

Fail(p) ==
  /\ state[p] = "open"
  /\ state' = [state EXCEPT ![p] = "over"]
  /\ UNCHANGED <<rows, said, mixed>>

TranscriptNext ==
  \/ \E p \in Prompts : Ask(p) \/ Say(p) \/ Close(p) \/ Fail(p)
  \/ Stray

TranscriptSpec == TranscriptInit /\ [][TranscriptNext]_transcriptVars
=============================================================================
