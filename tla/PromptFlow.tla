----------------------------- MODULE PromptFlow -----------------------------
(***************************************************************************)
(* The transcript of one active session: what SessionOrchestrator.prompt   *)
(* writes to the messages table, and the message collector of the agent's  *)
(* connection, which all prompts of the session share.  The client and the *)
(* task scheduler both prompt, so prompts may overlap.                     *)
(***************************************************************************)
EXTENDS Integers, Sequences

CONSTANTS
  Prompts,      \* calls of prompt()
  MaxChunks,    \* bound: text chunks of the answer to a prompt
  MaxCollected  \* bound: chunks in the collector

\* A chunk is text that is not empty; updates of other kinds are not
\* collected.  The rows' text is the sequence of the chunks it is joined from.
ASSUME BoundsAssumption == MaxChunks \in Nat /\ MaxCollected \in Nat

VARIABLES
  prompt,       \* state of each call
  collector,    \* active.messageCollector
  messages,     \* rows of the messages table, in the order of created_at
  said,         \* history: chunks of each answer
  crowded,      \* history: calls during which another one was in flight or spoke
  interrupted   \* history: calls during which another one was made

vars == <<prompt, collector, messages, said, crowded, interrupted>>

\* The n-th chunk of p's answer is <<p, n>>, one that comes late <<p, 0>>.
Chunk == Prompts \X Nat
Row == [role : {"user", "assistant"}, prompt : Prompts, text : Seq(Chunk)]
Answer(p) == [n \in 1..said[p] |-> <<p, n>>]

\* The calls that await the agent.
InFlight == {p \in Prompts : prompt[p] = "sent"}

CallTypeOK ==
  /\ prompt \in [Prompts -> {"none", "sent", "done", "failed"}]
  /\ said \in [Prompts -> 0..MaxChunks]
  /\ crowded \subseteq Prompts
  /\ interrupted \subseteq Prompts

\* The variables keep their types (prompt, addMessage).
TypeOK ==
  /\ CallTypeOK
  /\ collector \in Seq(Chunk)
  /\ messages \in Seq(Row)

Init ==
  /\ prompt = [p \in Prompts |-> "none"]
  /\ collector = <<>>
  /\ messages = <<>>
  /\ said = [p \in Prompts |-> 0]
  /\ crowded = {}
  /\ interrupted = {}

AddMessage(role, p, text) ==
  messages' = Append(messages, [role |-> role, prompt |-> p, text |-> text])

-----------------------------------------------------------------------------
\* Plausible bug: the collector keeps what a failed prompt left in it.
ClearCollector_Skipped == UNCHANGED collector

ClearCollector == collector' = <<>>

\* prompt() up to its await.
Prompt(p) ==
  /\ prompt[p] = "none"
  /\ prompt' = [prompt EXCEPT ![p] = "sent"]
  /\ AddMessage("user", p, <<>>)
  /\ ClearCollector
  /\ crowded' = IF InFlight = {} THEN crowded ELSE crowded \cup InFlight \cup {p}
  /\ interrupted' = interrupted \cup InFlight
  /\ UNCHANGED said

\* Plausible bug: a chunk replaces the text collected before it.
Collect_Replaces(chunk) == collector' = <<chunk>>

\* Plausible bug: the text is spread into the collector, push(...text).
Collect_Spread(chunk) == collector' = collector \o chunk

Collect(chunk) == collector' = Append(collector, chunk)

\* An update of the agent with text of its answer to p.
AnswerChunk(p) ==
  /\ prompt[p] = "sent"
  /\ said[p] < MaxChunks
  /\ Len(collector) < MaxCollected
  /\ said' = [said EXCEPT ![p] = @ + 1]
  /\ Collect(<<p, said[p] + 1>>)
  /\ crowded' = crowded \cup (InFlight \ {p})
  /\ UNCHANGED <<prompt, messages, interrupted>>

\* The agent goes on about p after its response, or after it failed.
LateChunk(p) ==
  /\ prompt[p] \in {"done", "failed"}
  /\ Len(collector) < MaxCollected
  /\ Collect(<<p, 0>>)
  /\ crowded' = crowded \cup InFlight
  /\ UNCHANGED <<prompt, messages, said, interrupted>>

StoreAnswer(p) ==
  IF collector = <<>> THEN UNCHANGED messages
  ELSE AddMessage("assistant", p, collector)

\* The response arrives, and prompt() goes on to its end.
PromptReturns(p) ==
  /\ prompt[p] = "sent"
  /\ prompt' = [prompt EXCEPT ![p] = "done"]
  /\ StoreAnswer(p)
  /\ UNCHANGED <<collector, said, crowded, interrupted>>

\* The agent answers with an error, its process ends, or the row cannot be
\* written: prompt() throws.
PromptFails(p) ==
  /\ prompt[p] = "sent"
  /\ prompt' = [prompt EXCEPT ![p] = "failed"]
  /\ UNCHANGED <<collector, messages, said, crowded, interrupted>>

Next ==
  \E p \in Prompts :
    \/ Prompt(p) \/ AnswerChunk(p) \/ LateChunk(p)
    \/ PromptReturns(p) \/ PromptFails(p)

Spec == Init /\ [][Next]_vars

-----------------------------------------------------------------------------
\* The rows with the answer to p.
AnswerRows(p) ==
  {i \in DOMAIN messages : messages[i].role = "assistant" /\ messages[i].prompt = p}

\* A call that had the agent for itself is followed in the transcript by its
\* own answer, complete and with nothing of a prompt that failed or ended
\* before it, or by no row if there was none (prompt).
OwnAnswer ==
  \A p \in Prompts \ crowded :
    prompt[p] = "done" =>
      IF said[p] = 0 THEN AnswerRows(p) = {}
      ELSE \E i \in DOMAIN messages :
             /\ AnswerRows(p) = {i}
             /\ messages[i].text = Answer(p)
             /\ i > 1 /\ messages[i - 1] = [role |-> "user", prompt |-> p, text |-> <<>>]

\* The text has all that was said in answer to p, in order.
Whole(text, p) ==
  /\ \A n \in 1..said[p] : \E k \in DOMAIN text : text[k] = <<p, n>>
  /\ \A j, k \in DOMAIN text :
       j < k /\ text[j][1] = p /\ text[k][1] = p => text[j][2] < text[k][2]

\* Other calls may be in flight: as long as none is made during it, a call's
\* answer is stored whole and in order, if with theirs in between (prompt).
AnswerComplete ==
  \A p \in Prompts \ interrupted :
    prompt[p] = "done" /\ said[p] > 0 =>
      \E i \in AnswerRows(p) : Whole(messages[i].text, p)

\* What the comment on prompt says: the assistant response is persisted after
\* completion.  A second call empties the collector the first one fills.
ResponsePersisted ==
  \A p \in Prompts :
    prompt[p] = "done" =>
      \A n \in 1..said[p] :
        \E i \in AnswerRows(p) : \E k \in DOMAIN messages[i].text :
          messages[i].text[k] = <<p, n>>

\* A call as the transcript knows it.
CallState ==
  [p \in Prompts |->
     CASE prompt[p] = "none" -> "none"
       [] prompt[p] = "sent" -> "open"
       [] prompt[p] \in {"done", "failed"} -> "over"]

Abstract == INSTANCE Transcript WITH state <- CallState, rows <- messages, mixed <- crowded

\* The shared collector implements the transcript a client may rely on
\* (prompt, the update handler of connect).
ImplementsTranscript == Abstract!TranscriptSpec
=============================================================================
