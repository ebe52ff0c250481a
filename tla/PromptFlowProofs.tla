-------------------------- MODULE PromptFlowProofs --------------------------
(***************************************************************************)
(* For any number of prompts: a call that has the agent for itself leaves  *)
(* exactly its own answer.  The strengthening says what the collector and  *)
(* the transcript hold while such a call is in flight.                     *)
(***************************************************************************)
EXTENDS PromptFlow, TLAPS

\* Nothing is said and no answer stored before a call, none while it lasts.
NoAnswerYet ==
  \A p \in Prompts :
    /\ prompt[p] = "none" => said[p] = 0
    /\ prompt[p] # "done" => AnswerRows(p) = {}

\* A call that has had the agent for itself so far is the only one in flight,
\* its question is the last row, and the collector holds its answer.
Alone ==
  \A p \in Prompts \ crowded :
    prompt[p] = "sent" =>
      /\ InFlight = {p}
      /\ collector = Answer(p)
      /\ Len(messages) > 0
      /\ messages[Len(messages)] = [role |-> "user", prompt |-> p, text |-> <<>>]

TranscriptInv == NoAnswerYet /\ Alone /\ OwnAnswer

\* The answer to a prompt is a sequence of chunks, as long as was said.
LEMMA AnswerIsSequence ==
  ASSUME NEW p \in Prompts, said[p] \in Nat
  PROVE  Answer(p) \in Seq(Chunk) /\ Len(Answer(p)) = said[p]
BY DEF Answer, Chunk

\* Prompts and their counters keep their types, and so do the collector and
\* the rows (prompt, addMessage).
THEOREM TypeCorrect == Spec => []TypeOK
<1>1. Init => TypeOK
  <2> SUFFICES ASSUME Init PROVE TypeOK
    OBVIOUS
  <2>1. CallTypeOK
    BY BoundsAssumption DEF Init, CallTypeOK
  <2>2. collector \in Seq(Chunk) /\ messages \in Seq(Row)
    BY DEF Init
  <2>3. QED
    BY <2>1, <2>2 DEF TypeOK
<1>2. TypeOK /\ [Next]_vars => TypeOK'
  <2> SUFFICES ASSUME TypeOK, [Next]_vars PROVE TypeOK'
    OBVIOUS
  <2> USE BoundsAssumption DEF TypeOK, CallTypeOK
  <2>1. ASSUME NEW p \in Prompts, Prompt(p) PROVE TypeOK'
    <3>1. [role |-> "user", prompt |-> p, text |-> <<>>] \in Row
      BY DEF Row
    <3>2. messages' \in Seq(Row) /\ collector' \in Seq(Chunk)
      BY <2>1, <3>1 DEF Prompt, AddMessage, ClearCollector
    <3>3. CallTypeOK'
      BY <2>1 DEF Prompt, InFlight
    <3>4. QED
      BY <3>2, <3>3
  <2>2. ASSUME NEW p \in Prompts, AnswerChunk(p) PROVE TypeOK'
    <3>1. <<p, said[p] + 1>> \in Chunk /\ said[p] + 1 \in 0..MaxChunks
      BY <2>2 DEF AnswerChunk, Chunk
    <3>2. collector' \in Seq(Chunk)
      BY <2>2, <3>1 DEF AnswerChunk, Collect
    <3>3. CallTypeOK'
      BY <2>2, <3>1 DEF AnswerChunk, InFlight
    <3>4. QED
      BY <2>2, <3>2, <3>3 DEF AnswerChunk
  <2>3. ASSUME NEW p \in Prompts, LateChunk(p) PROVE TypeOK'
    <3>1. <<p, 0>> \in Chunk
      BY DEF Chunk
    <3>2. QED
      BY <2>3, <3>1 DEF LateChunk, Collect, InFlight
  <2>4. ASSUME NEW p \in Prompts, PromptReturns(p) PROVE TypeOK'
    <3>1. [role |-> "assistant", prompt |-> p, text |-> collector] \in Row
      BY DEF Row
    <3>2. messages' \in Seq(Row)
      BY <2>4, <3>1 DEF PromptReturns, StoreAnswer, AddMessage
    <3>3. QED
      BY <2>4, <3>2 DEF PromptReturns
  <2>5. ASSUME NEW p \in Prompts, PromptFails(p) PROVE TypeOK'
    BY <2>5 DEF PromptFails
  <2>6. ASSUME UNCHANGED vars PROVE TypeOK'
    BY <2>6 DEF vars
  <2>7. QED
    BY <2>1, <2>2, <2>3, <2>4, <2>5, <2>6 DEF Next
<1>3. QED
  BY <1>1, <1>2, PTL DEF Spec

\* What a row says of itself does not change: rows are only appended, so an
\* answer stays where it was stored (addMessage).
LEMMA RowsKept ==
  ASSUME TypeOK, NEW row \in Row, messages' = Append(messages, row),
         NEW q \in Prompts, ~(row.role = "assistant" /\ row.prompt = q)
  PROVE  /\ AnswerRows(q)' = AnswerRows(q)
         /\ DOMAIN messages \subseteq DOMAIN messages'
         /\ \A i \in DOMAIN messages : messages'[i] = messages[i]
BY DEF TypeOK, AnswerRows

\* The answers of the calls that are over survive a step that changes nothing
\* of theirs but appends a row of somebody else's.
LEMMA OwnAnswerKept ==
  ASSUME TypeOK, OwnAnswer, NEW q \in Prompts, q \notin crowded,
         prompt[q] = "done", said'[q] = said[q],
         AnswerRows(q)' = AnswerRows(q),
         DOMAIN messages \subseteq DOMAIN messages',
         \A i \in DOMAIN messages : messages'[i] = messages[i]
  PROVE  IF said'[q] = 0 THEN AnswerRows(q)' = {}
         ELSE \E i \in DOMAIN messages' :
                /\ AnswerRows(q)' = {i}
                /\ messages'[i].text = Answer(q)'
                /\ i > 1
                /\ messages'[i - 1] = [role |-> "user", prompt |-> q, text |-> <<>>]
<1>1. CASE said[q] = 0
  BY <1>1 DEF OwnAnswer
<1>2. CASE said[q] # 0
  <2>1. PICK i \in DOMAIN messages :
          /\ AnswerRows(q) = {i}
          /\ messages[i].text = Answer(q)
          /\ i > 1
          /\ messages[i - 1] = [role |-> "user", prompt |-> q, text |-> <<>>]
    BY <1>2 DEF OwnAnswer
  <2>2. Answer(q)' = Answer(q)
    BY DEF Answer
  <2>3. i - 1 \in DOMAIN messages
    BY <2>1 DEF TypeOK
  <2>4. QED
    BY <1>2, <2>1, <2>2, <2>3
<1>3. QED
  BY <1>1, <1>2
LEMMA TranscriptInvInit == Init => TranscriptInv
BY DEF Init, TranscriptInv, NoAnswerYet, Alone, OwnAnswer, AnswerRows

LEMMA PromptPreserves ==
  ASSUME TypeOK, TranscriptInv, NEW p \in Prompts, Prompt(p)
  PROVE  TranscriptInv'
<1> USE DEF TranscriptInv
<1> DEFINE row == [role |-> "user", prompt |-> p, text |-> <<>>]
<1>1. row \in Row /\ row.role # "assistant" /\ messages' = Append(messages, row)
  BY DEF Row, Prompt, AddMessage
<1> HIDE DEF row
<1>2. \A q \in Prompts :
        /\ AnswerRows(q)' = AnswerRows(q)
        /\ DOMAIN messages \subseteq DOMAIN messages'
        /\ \A i \in DOMAIN messages : messages'[i] = messages[i]
  BY <1>1, RowsKept
<1>3. NoAnswerYet'
  BY <1>2 DEF NoAnswerYet, Prompt, TypeOK, CallTypeOK
<1>4. Alone'
  <2> SUFFICES ASSUME NEW q \in Prompts, q \notin crowded', prompt'[q] = "sent"
               PROVE  /\ InFlight' = {q}
                      /\ collector' = Answer(q)'
                      /\ Len(messages') > 0
                      /\ messages'[Len(messages')]
                           = [role |-> "user", prompt |-> q, text |-> <<>>]
    BY DEF Alone
  <2>1. InFlight = {} /\ q = p
    BY DEF Prompt, InFlight, TypeOK, CallTypeOK
  <2>2. InFlight' = {q}
    BY <2>1 DEF Prompt, InFlight, TypeOK, CallTypeOK
  <2>3. said'[p] = 0
    BY DEF NoAnswerYet, Prompt
  <2>4. Answer(p)' = <<>>
    BY <2>3 DEF Answer
  <2>5. Len(messages') > 0 /\ messages'[Len(messages')] = row
    BY <1>1 DEF TypeOK
  <2>6. QED
    BY <2>1, <2>2, <2>4, <2>5 DEF Prompt, ClearCollector, row
<1>5. OwnAnswer'
  <2> SUFFICES ASSUME NEW q \in Prompts, q \notin crowded', prompt'[q] = "done"
               PROVE  IF said'[q] = 0 THEN AnswerRows(q)' = {}
                      ELSE \E i \in DOMAIN messages' :
                             /\ AnswerRows(q)' = {i}
                             /\ messages'[i].text = Answer(q)'
                             /\ i > 1
                             /\ messages'[i - 1]
                                  = [role |-> "user", prompt |-> q, text |-> <<>>]
    BY DEF OwnAnswer
  <2>1. q \notin crowded /\ prompt[q] = "done" /\ said'[q] = said[q]
    BY DEF Prompt, TypeOK, CallTypeOK
  <2>2. QED
    BY <1>2, <2>1, OwnAnswerKept
<1>6. QED
  BY <1>3, <1>4, <1>5

LEMMA PromptReturnsPreserves ==
  ASSUME TypeOK, TranscriptInv, NEW p \in Prompts, PromptReturns(p)
  PROVE  TranscriptInv'
<1> USE DEF TranscriptInv
<1> DEFINE row == [role |-> "assistant", prompt |-> p, text |-> collector]
<1>1. row \in Row /\ row.prompt = p /\ row.role = "assistant" /\ row.text = collector
  BY DEF Row, TypeOK
<1>2. IF collector = <<>> THEN messages' = messages ELSE messages' = Append(messages, row)
  BY DEF PromptReturns, StoreAnswer, AddMessage
<1> HIDE DEF row
<1>3. \A q \in Prompts \ {p} :
        /\ AnswerRows(q)' = AnswerRows(q)
        /\ DOMAIN messages \subseteq DOMAIN messages'
        /\ \A i \in DOMAIN messages : messages'[i] = messages[i]
  <2>1. CASE collector = <<>>
    BY <1>2, <2>1 DEF AnswerRows
  <2>2. CASE collector # <<>>
    BY <1>1, <1>2, <2>2, RowsKept
  <2>3. QED
    BY <2>1, <2>2
<1>4. NoAnswerYet'
  BY <1>3 DEF NoAnswerYet, PromptReturns, TypeOK, CallTypeOK
<1>5. Alone'
  <2> SUFFICES ASSUME NEW q \in Prompts, q \notin crowded', prompt'[q] = "sent"
               PROVE  FALSE
    BY DEF Alone
  <2>1. q # p /\ prompt[q] = "sent" /\ q \notin crowded /\ prompt[p] = "sent"
    BY DEF PromptReturns, TypeOK, CallTypeOK
  <2>2. InFlight = {q}
    BY <2>1 DEF Alone
  <2>3. p \in InFlight
    BY <2>1 DEF InFlight
  <2>4. QED
    BY <2>1, <2>2, <2>3
<1>6. OwnAnswer'
  <2> SUFFICES ASSUME NEW q \in Prompts, q \notin crowded', prompt'[q] = "done"
               PROVE  IF said'[q] = 0 THEN AnswerRows(q)' = {}
                      ELSE \E i \in DOMAIN messages' :
                             /\ AnswerRows(q)' = {i}
                             /\ messages'[i].text = Answer(q)'
                             /\ i > 1
                             /\ messages'[i - 1]
                                  = [role |-> "user", prompt |-> q, text |-> <<>>]
    BY DEF OwnAnswer
  <2>1. q \notin crowded /\ said'[q] = said[q]
    BY DEF PromptReturns
  <2>2. CASE q # p
    <3>1. prompt[q] = "done"
      BY <2>2 DEF PromptReturns, TypeOK, CallTypeOK
    <3>2. QED
      BY <1>3, <2>1, <2>2, <3>1, OwnAnswerKept
  <2>3. CASE q = p
    <3>1. /\ collector = Answer(p) /\ AnswerRows(p) = {}
          /\ Len(messages) > 0
          /\ messages[Len(messages)] = [role |-> "user", prompt |-> p, text |-> <<>>]
      BY <2>1, <2>3 DEF PromptReturns, Alone, NoAnswerYet
    <3>2. Len(collector) = said[p]
      BY <3>1, AnswerIsSequence DEF TypeOK, CallTypeOK
    <3>3. CASE said[p] = 0
      BY <1>2, <2>1, <2>3, <3>1, <3>2, <3>3 DEF TypeOK, AnswerRows
    <3>4. CASE said[p] # 0
      <4>1. messages' = Append(messages, row)
        BY <1>2, <3>2, <3>4
      <4>2. /\ Len(messages') = Len(messages) + 1
            /\ messages'[Len(messages')] = row
            /\ \A i \in DOMAIN messages : messages'[i] = messages[i]
        BY <1>1, <4>1 DEF TypeOK
      <4>3. AnswerRows(p)' = {Len(messages')}
        BY <1>1, <3>1, <4>1, <4>2 DEF AnswerRows, TypeOK
      <4>4. Answer(p)' = Answer(p)
        BY <2>1, <2>3 DEF Answer
      <4>5. /\ Len(messages') > 1 /\ Len(messages') \in DOMAIN messages'
            /\ messages'[Len(messages') - 1] = messages[Len(messages)]
        BY <3>1, <4>1, <4>2 DEF TypeOK
      <4>6. QED
        BY <1>1, <2>1, <2>3, <3>1, <3>4, <4>2, <4>3, <4>4, <4>5
    <3>5. QED
      BY <3>3, <3>4
  <2>4. QED
    BY <2>2, <2>3
<1>7. QED
  BY <1>4, <1>5, <1>6

\* The answer grows as the collector does.
LEMMA AnswerGrows ==
  ASSUME NEW p \in Prompts, said[p] \in Nat, said'[p] = said[p] + 1
  PROVE  Answer(p)' = Append(Answer(p), <<p, said[p] + 1>>)
BY DEF Answer

\* The steps that leave the transcript alone: its answers stay as they are.
LEMMA TranscriptUnchanged ==
  ASSUME TypeOK, TranscriptInv, UNCHANGED messages, crowded \subseteq crowded',
         \A q \in Prompts :
           /\ prompt'[q] = "done" <=> prompt[q] = "done"
           /\ prompt'[q] \notin {"sent", "failed"} => said'[q] = said[q]
           /\ prompt'[q] = "none" => prompt[q] = "none"
  PROVE  NoAnswerYet' /\ OwnAnswer'
<1>1. \A q \in Prompts : AnswerRows(q)' = AnswerRows(q)
  BY DEF AnswerRows
<1>2. NoAnswerYet'
  BY <1>1 DEF TranscriptInv, NoAnswerYet
<1>3. OwnAnswer'
  <2> SUFFICES ASSUME NEW q \in Prompts, q \notin crowded', prompt'[q] = "done"
               PROVE  IF said'[q] = 0 THEN AnswerRows(q)' = {}
                      ELSE \E i \in DOMAIN messages' :
                             /\ AnswerRows(q)' = {i}
                             /\ messages'[i].text = Answer(q)'
                             /\ i > 1
                             /\ messages'[i - 1]
                                  = [role |-> "user", prompt |-> q, text |-> <<>>]
    BY DEF OwnAnswer
  <2>1. q \notin crowded /\ prompt[q] = "done" /\ said'[q] = said[q]
    OBVIOUS
  <2>2. QED
    BY <1>1, <2>1, OwnAnswerKept DEF TranscriptInv
<1>4. QED
  BY <1>2, <1>3

LEMMA AnswerChunkPreserves ==
  ASSUME TypeOK, TranscriptInv, NEW p \in Prompts, AnswerChunk(p)
  PROVE  TranscriptInv'
<1>1. NoAnswerYet' /\ OwnAnswer'
  BY TranscriptUnchanged DEF AnswerChunk, TypeOK, CallTypeOK
<1>2. Alone'
  <2> SUFFICES ASSUME NEW q \in Prompts, q \notin crowded', prompt'[q] = "sent"
               PROVE  /\ InFlight' = {q}
                      /\ collector' = Answer(q)'
                      /\ Len(messages') > 0
                      /\ messages'[Len(messages')]
                           = [role |-> "user", prompt |-> q, text |-> <<>>]
    BY DEF Alone
  <2>1. q = p /\ q \notin crowded /\ prompt[q] = "sent"
    BY DEF AnswerChunk, InFlight
  <2>2. said[p] \in Nat /\ said'[p] = said[p] + 1
    BY DEF AnswerChunk, TypeOK, CallTypeOK
  <2>3. collector' = Answer(p)'
    BY <2>1, <2>2, AnswerGrows DEF TranscriptInv, Alone, AnswerChunk, Collect
  <2>4. QED
    BY <2>1, <2>3 DEF TranscriptInv, Alone, AnswerChunk, InFlight
<1>3. QED
  BY <1>1, <1>2 DEF TranscriptInv

\* The strengthening holds in every reachable state.
LEMMA TranscriptAlways == Spec => []TranscriptInv
<1>1. TypeOK /\ TranscriptInv /\ [Next]_vars => TranscriptInv'
  <2> SUFFICES ASSUME TypeOK, TranscriptInv, [Next]_vars PROVE TranscriptInv'
    OBVIOUS
  <2>1. ASSUME NEW p \in Prompts, LateChunk(p) PROVE TranscriptInv'
    <3>1. NoAnswerYet' /\ OwnAnswer'
      BY <2>1, TranscriptUnchanged DEF LateChunk
    <3>2. Alone'
      BY <2>1 DEF LateChunk, Alone, InFlight
    <3>3. QED
      BY <3>1, <3>2 DEF TranscriptInv
  <2>2. ASSUME NEW p \in Prompts, PromptFails(p) PROVE TranscriptInv'
    <3>1. NoAnswerYet' /\ OwnAnswer'
      BY <2>2, TranscriptUnchanged DEF PromptFails, TypeOK, CallTypeOK
    <3>2. Alone'
      BY <2>2 DEF PromptFails, TranscriptInv, Alone, InFlight, TypeOK, CallTypeOK
    <3>3. QED
      BY <3>1, <3>2 DEF TranscriptInv
  <2>3. ASSUME UNCHANGED vars PROVE TranscriptInv'
    BY <2>3 DEF vars, TranscriptInv, NoAnswerYet, Alone, OwnAnswer, AnswerRows,
                InFlight, Answer
  <2>4. QED
    BY <2>1, <2>2, <2>3, PromptPreserves, PromptReturnsPreserves,
       AnswerChunkPreserves DEF Next
<1>2. QED
  BY <1>1, TranscriptInvInit, TypeCorrect, PTL DEF Spec

\* A call that has the agent for itself is followed in the transcript by
\* exactly its own answer, whatever failed or came late before it (prompt).
THEOREM OwnAnswerStored == Spec => []OwnAnswer
<1>1. TranscriptInv => OwnAnswer
  BY DEF TranscriptInv
<1>2. QED
  BY <1>1, TranscriptAlways, PTL

-----------------------------------------------------------------------------
\* While no other call is made, the collector holds all of a call's answer in
\* order, and nothing of that call beyond it.
Gathering ==
  \A p \in Prompts \ interrupted :
    prompt[p] = "sent" =>
      /\ Whole(collector, p)
      /\ \A k \in DOMAIN collector : collector[k][1] = p => collector[k][2] <= said[p]

\* What one more chunk does to a collector.
LEMMA Appended ==
  ASSUME NEW s \in Seq(Chunk), NEW c \in Chunk
  PROVE  /\ DOMAIN Append(s, c) = DOMAIN s \cup {Len(s) + 1}
         /\ \A k \in DOMAIN s : k \in Nat /\ k <= Len(s) /\ Append(s, c)[k] = s[k]
         /\ Append(s, c)[Len(s) + 1] = c
         /\ \A k \in DOMAIN s : s[k] \in Chunk
OBVIOUS

\* A chunk of the call's own, the next one, keeps what is gathered.
LEMMA OwnChunkGathered ==
  ASSUME TypeOK, NEW p \in Prompts, Gathering, p \notin interrupted, AnswerChunk(p)
  PROVE  /\ Whole(collector, p)'
         /\ \A k \in DOMAIN collector' : collector'[k][1] = p => collector'[k][2] <= said'[p]
<1> DEFINE c == <<p, said[p] + 1>>
<1>1. said[p] \in Nat /\ said'[p] = said[p] + 1 /\ c \in Chunk
  BY DEF AnswerChunk, TypeOK, CallTypeOK, Chunk
<1>2. collector' = Append(collector, c) /\ collector \in Seq(Chunk)
  BY DEF AnswerChunk, Collect, TypeOK
<1>3. /\ DOMAIN collector' = DOMAIN collector \cup {Len(collector) + 1}
      /\ \A k \in DOMAIN collector :
           k \in Nat /\ k <= Len(collector) /\ collector'[k] = collector[k]
      /\ collector'[Len(collector) + 1] = c
      /\ \A k \in DOMAIN collector : collector[k] \in Chunk
  BY <1>1, <1>2, Appended
<1>4. /\ Whole(collector, p)
      /\ \A k \in DOMAIN collector : collector[k][1] = p => collector[k][2] <= said[p]
  BY DEF Gathering, AnswerChunk
<1>5. \A k \in DOMAIN collector' : collector'[k][1] = p => collector'[k][2] <= said'[p]
  BY <1>1, <1>3, <1>4 DEF Chunk
<1>6. \A n \in 1..said'[p] : \E k \in DOMAIN collector' : collector'[k] = <<p, n>>
  <2> SUFFICES ASSUME NEW n \in 1..said'[p]
               PROVE  \E k \in DOMAIN collector' : collector'[k] = <<p, n>>
    OBVIOUS
  <2>1. CASE n = said[p] + 1
    BY <1>3, <2>1
  <2>2. CASE n \in 1..said[p]
    BY <1>3, <1>4, <2>2 DEF Whole
  <2>3. QED
    BY <1>1, <2>1, <2>2
<1>7. \A j, k \in DOMAIN collector' :
        j < k /\ collector'[j][1] = p /\ collector'[k][1] = p
          => collector'[j][2] < collector'[k][2]
  <2> SUFFICES ASSUME NEW j \in DOMAIN collector', NEW k \in DOMAIN collector',
                      j < k, collector'[j][1] = p, collector'[k][1] = p
               PROVE  collector'[j][2] < collector'[k][2]
    OBVIOUS
  <2>1. Len(collector) \in Nat
    BY <1>2
  <2>2. CASE k \in DOMAIN collector
    <3>1. j \in DOMAIN collector
      BY <1>3, <2>1, <2>2
    <3>2. QED
      BY <1>3, <1>4, <2>2, <3>1 DEF Whole
  <2>3. CASE k = Len(collector) + 1
    <3>1. j \in DOMAIN collector
      BY <1>3, <2>1, <2>3
    <3>2. collector[j] \in Chunk /\ collector[j][2] <= said[p] /\ collector'[k][2] = said[p] + 1
      BY <1>3, <1>4, <2>3, <3>1
    <3>3. QED
      BY <1>1, <1>3, <3>1, <3>2 DEF Chunk
  <2>4. QED
    BY <1>3, <2>2, <2>3
<1>8. QED
  BY <1>5, <1>6, <1>7 DEF Whole

\* A chunk of another call does not disturb it.
LEMMA OtherChunkGathered ==
  ASSUME TypeOK, NEW q \in Prompts, Gathering, q \notin interrupted, prompt[q] = "sent",
         NEW c \in Chunk, c[1] # q, collector' = Append(collector, c), said'[q] = said[q]
  PROVE  /\ Whole(collector, q)'
         /\ \A k \in DOMAIN collector' : collector'[k][1] = q => collector'[k][2] <= said'[q]
<1>1. /\ DOMAIN collector' = DOMAIN collector \cup {Len(collector) + 1}
      /\ \A k \in DOMAIN collector :
           k \in Nat /\ k <= Len(collector) /\ collector'[k] = collector[k]
      /\ collector'[Len(collector) + 1] = c
  BY Appended DEF TypeOK
<1>2. /\ Whole(collector, q)
      /\ \A k \in DOMAIN collector : collector[k][1] = q => collector[k][2] <= said[q]
  BY DEF Gathering
<1>3. \A k \in DOMAIN collector' : collector'[k][1] = q => k \in DOMAIN collector
  BY <1>1
<1>4. \A n \in 1..said[q] : \E k \in DOMAIN collector' : collector'[k] = <<q, n>>
  BY <1>1, <1>2 DEF Whole
<1>5. \A j, k \in DOMAIN collector' :
        j < k /\ collector'[j][1] = q /\ collector'[k][1] = q
          => collector'[j][2] < collector'[k][2]
  BY <1>1, <1>2, <1>3 DEF Whole
<1>6. QED
  BY <1>1, <1>2, <1>3, <1>4, <1>5 DEF Whole

\* What was gathered for a call that is over stays in its row.
LEMMA CompleteKept ==
  ASSUME TypeOK, AnswerComplete, NEW q \in Prompts, q \notin interrupted,
         prompt[q] = "done", said'[q] = said[q], said[q] > 0,
         AnswerRows(q) \subseteq AnswerRows(q)',
         \A i \in DOMAIN messages : messages'[i] = messages[i]
  PROVE  \E i \in AnswerRows(q)' : Whole(messages[i].text, q)'
<1>1. PICK i \in AnswerRows(q) : Whole(messages[i].text, q)
  BY DEF AnswerComplete
<1>2. i \in DOMAIN messages /\ i \in AnswerRows(q)' /\ messages'[i].text = messages[i].text
  BY <1>1 DEF AnswerRows
<1>3. Whole(messages[i].text, q)'
  BY <1>1, <1>2 DEF Whole
<1>4. QED
  BY <1>2, <1>3

\* A step that leaves messages and the calls that are over alone keeps their
\* answers complete.
LEMMA CompleteUnchanged ==
  ASSUME TypeOK, AnswerComplete, UNCHANGED messages, interrupted \subseteq interrupted',
         \A q \in Prompts : prompt'[q] = "done" => prompt[q] = "done" /\ said'[q] = said[q]
  PROVE  AnswerComplete'
<1> SUFFICES ASSUME NEW q \in Prompts, q \notin interrupted', prompt'[q] = "done", said'[q] > 0
             PROVE  \E i \in AnswerRows(q)' : Whole(messages[i].text, q)'
  BY DEF AnswerComplete
<1>1. AnswerRows(q)' = AnswerRows(q) /\ q \notin interrupted
  BY DEF AnswerRows
<1>2. QED
  BY <1>1, CompleteKept

LEMMA PromptKeepsAnswers ==
  ASSUME TypeOK, TranscriptInv, Gathering, AnswerComplete, NEW p \in Prompts, Prompt(p)
  PROVE  Gathering' /\ AnswerComplete'
<1> DEFINE row == [role |-> "user", prompt |-> p, text |-> <<>>]
<1>1. row \in Row /\ row.role # "assistant" /\ messages' = Append(messages, row)
  BY DEF Row, Prompt, AddMessage
<1> HIDE DEF row
<1>2. \A q \in Prompts :
        /\ AnswerRows(q)' = AnswerRows(q)
        /\ \A i \in DOMAIN messages : messages'[i] = messages[i]
  BY <1>1, RowsKept
<1>3. Gathering'
  <2> SUFFICES ASSUME NEW q \in Prompts, q \notin interrupted', prompt'[q] = "sent"
               PROVE  /\ Whole(collector, q)'
                      /\ \A k \in DOMAIN collector' :
                           collector'[k][1] = q => collector'[k][2] <= said'[q]
    BY DEF Gathering
  <2>1. q = p /\ collector' = <<>>
    BY DEF Prompt, ClearCollector, InFlight, TypeOK, CallTypeOK
  <2>2. said'[q] = 0
    BY <2>1 DEF TranscriptInv, NoAnswerYet, Prompt
  <2>3. DOMAIN collector' = {} /\ 1..said'[q] = {}
    BY <2>1, <2>2
  <2>4. QED
    BY <2>3 DEF Whole
<1>4. AnswerComplete'
  <2> SUFFICES ASSUME NEW q \in Prompts, q \notin interrupted', prompt'[q] = "done", said'[q] > 0
               PROVE  \E i \in AnswerRows(q)' : Whole(messages[i].text, q)'
    BY DEF AnswerComplete
  <2>1. q \notin interrupted /\ prompt[q] = "done" /\ said'[q] = said[q]
    BY DEF Prompt, TypeOK, CallTypeOK
  <2>2. QED
    BY <1>2, <2>1, CompleteKept
<1>5. QED
  BY <1>3, <1>4

LEMMA AnswerChunkKeepsAnswers ==
  ASSUME TypeOK, Gathering, AnswerComplete, NEW p \in Prompts, AnswerChunk(p)
  PROVE  Gathering' /\ AnswerComplete'
<1> DEFINE c == <<p, said[p] + 1>>
<1>1. /\ c \in Chunk /\ c[1] = p
      /\ collector' = Append(collector, c)
      /\ \A q \in Prompts \ {p} : said'[q] = said[q]
  BY DEF AnswerChunk, Collect, TypeOK, CallTypeOK, Chunk
<1>2. Gathering'
  <2> SUFFICES ASSUME NEW q \in Prompts, q \notin interrupted', prompt'[q] = "sent"
               PROVE  /\ Whole(collector, q)'
                      /\ \A k \in DOMAIN collector' :
                           collector'[k][1] = q => collector'[k][2] <= said'[q]
    BY DEF Gathering
  <2>1. q \notin interrupted /\ prompt[q] = "sent"
    BY DEF AnswerChunk
  <2>2. CASE q = p
    BY <2>1, <2>2, OwnChunkGathered
  <2>3. CASE q # p
    BY <1>1, <2>1, <2>3, OtherChunkGathered
  <2>4. QED
    BY <2>2, <2>3
<1>3. AnswerComplete'
  BY CompleteUnchanged DEF AnswerChunk, TypeOK, CallTypeOK
<1>4. QED
  BY <1>2, <1>3

LEMMA LateChunkKeepsAnswers ==
  ASSUME TypeOK, Gathering, AnswerComplete, NEW p \in Prompts, LateChunk(p)
  PROVE  Gathering' /\ AnswerComplete'
<1>1. <<p, 0>> \in Chunk /\ <<p, 0>>[1] = p /\ collector' = Append(collector, <<p, 0>>)
  BY DEF LateChunk, Collect, Chunk
<1>2. Gathering'
  <2> SUFFICES ASSUME NEW q \in Prompts, q \notin interrupted', prompt'[q] = "sent"
               PROVE  /\ Whole(collector, q)'
                      /\ \A k \in DOMAIN collector' :
                           collector'[k][1] = q => collector'[k][2] <= said'[q]
    BY DEF Gathering
  <2>1. q \notin interrupted /\ prompt[q] = "sent" /\ q # p /\ said'[q] = said[q]
    BY DEF LateChunk
  <2>2. QED
    BY <1>1, <2>1, OtherChunkGathered
<1>3. AnswerComplete'
  BY CompleteUnchanged DEF LateChunk
<1>4. QED
  BY <1>2, <1>3

LEMMA PromptReturnsKeepsAnswers ==
  ASSUME TypeOK, TranscriptInv, Gathering, AnswerComplete, NEW p \in Prompts, PromptReturns(p)
  PROVE  Gathering' /\ AnswerComplete'
<1> DEFINE row == [role |-> "assistant", prompt |-> p, text |-> collector]
<1>1. row \in Row /\ row.prompt = p /\ row.role = "assistant" /\ row.text = collector
  BY DEF Row, TypeOK
<1>2. IF collector = <<>> THEN messages' = messages ELSE messages' = Append(messages, row)
  BY DEF PromptReturns, StoreAnswer, AddMessage
<1>3. Gathering'
  BY DEF Gathering, Whole, PromptReturns, TypeOK, CallTypeOK
<1> HIDE DEF row
<1>4. \A q \in Prompts \ {p} :
        /\ AnswerRows(q)' = AnswerRows(q)
        /\ \A i \in DOMAIN messages : messages'[i] = messages[i]
  <2>1. CASE collector = <<>>
    BY <1>2, <2>1 DEF AnswerRows
  <2>2. CASE collector # <<>>
    BY <1>1, <1>2, <2>2, RowsKept
  <2>3. QED
    BY <2>1, <2>2
<1>5. AnswerComplete'
  <2> SUFFICES ASSUME NEW q \in Prompts, q \notin interrupted', prompt'[q] = "done", said'[q] > 0
               PROVE  \E i \in AnswerRows(q)' : Whole(messages[i].text, q)'
    BY DEF AnswerComplete
  <2>1. q \notin interrupted /\ said'[q] = said[q]
    BY DEF PromptReturns
  <2>2. CASE q # p
    <3>1. prompt[q] = "done"
      BY <2>2 DEF PromptReturns, TypeOK, CallTypeOK
    <3>2. QED
      BY <1>4, <2>1, <2>2, <3>1, CompleteKept
  <2>3. CASE q = p
    <3>1. Whole(collector, p) /\ said[p] \in Nat /\ said[p] > 0
      BY <2>1, <2>3 DEF Gathering, PromptReturns, TypeOK, CallTypeOK
    <3>2. collector # <<>>
      BY <3>1 DEF Whole
    <3>3. messages' = Append(messages, row)
      BY <1>2, <3>2
    <3>4. PICK i \in DOMAIN messages' : messages'[i] = row
      BY <1>1, <3>3 DEF TypeOK
    <3>5. i \in AnswerRows(p)'
      BY <1>1, <3>4 DEF AnswerRows
    <3>6. messages'[i].text = collector
      BY <1>1, <3>4
    <3>7. Whole(messages[i].text, p)'
      BY <2>1, <2>3, <3>1, <3>6 DEF Whole
    <3>8. QED
      BY <2>3, <3>5, <3>7
  <2>4. QED
    BY <2>2, <2>3
<1>6. QED
  BY <1>3, <1>5

\* As long as no other call is made during it, the answer to a call is stored
\* whole and in order, whoever else the agent speaks to meanwhile (prompt).
THEOREM AnswersComplete == Spec => []AnswerComplete
<1>1. Init => Gathering /\ AnswerComplete
  BY DEF Init, Gathering, AnswerComplete
<1>2. TypeOK /\ TranscriptInv /\ Gathering /\ AnswerComplete /\ [Next]_vars
        => Gathering' /\ AnswerComplete'
  <2> SUFFICES ASSUME TypeOK, TranscriptInv, Gathering, AnswerComplete, [Next]_vars
               PROVE  Gathering' /\ AnswerComplete'
    OBVIOUS
  <2>1. ASSUME NEW p \in Prompts, PromptFails(p) PROVE Gathering' /\ AnswerComplete'
    <3>1. Gathering'
      BY <2>1 DEF PromptFails, Gathering, Whole, TypeOK, CallTypeOK
    <3>2. AnswerComplete'
      BY <2>1, CompleteUnchanged DEF PromptFails, TypeOK, CallTypeOK
    <3>3. QED
      BY <3>1, <3>2
  <2>2. ASSUME UNCHANGED vars PROVE Gathering' /\ AnswerComplete'
    <3>1. Gathering'
      BY <2>2 DEF vars, Gathering, Whole
    <3>2. AnswerComplete'
      BY <2>2, CompleteUnchanged DEF vars
    <3>3. QED
      BY <3>1, <3>2
  <2>3. QED
    BY <2>1, <2>2, PromptKeepsAnswers, AnswerChunkKeepsAnswers, LateChunkKeepsAnswers,
       PromptReturnsKeepsAnswers DEF Next
<1>3. QED
  BY <1>1, <1>2, TypeCorrect, TranscriptAlways, PTL DEF Spec

-----------------------------------------------------------------------------
\* The calls the transcript has open are the ones in flight, before and after
\* a step, and a call that changes its state changes it there.
LEMMA OpenInFlight == CallTypeOK => Abstract!Open = InFlight
BY DEF CallTypeOK, Abstract!Open, CallState, InFlight

LEMMA CallMoves ==
  ASSUME CallTypeOK, NEW p \in Prompts,
         NEW v \in {"sent", "done", "failed"}, prompt' = [prompt EXCEPT ![p] = v]
  PROVE  CallState' = [CallState EXCEPT ![p] = IF v = "sent" THEN "open" ELSE "over"]
BY DEF CallTypeOK, CallState

LEMMA CallStates ==
  ASSUME CallTypeOK, NEW p \in Prompts
  PROVE  /\ prompt[p] = "none" => CallState[p] = "none"
         /\ prompt[p] = "sent" => CallState[p] = "open"
         /\ prompt[p] \in {"done", "failed"} => CallState[p] = "over"
BY DEF CallTypeOK, CallState

LEMMA PromptAsks ==
  ASSUME TypeOK, NEW p \in Prompts, Prompt(p)
  PROVE  Abstract!Ask(p)
<1>1. CallTypeOK
  BY DEF TypeOK
<1>2. CallState[p] = "none" /\ CallState' = [CallState EXCEPT ![p] = "open"]
  BY <1>1, CallStates, CallMoves DEF Prompt
<1>3. messages' = Append(messages, Abstract!Question(p))
  BY DEF Prompt, AddMessage, Abstract!Question
<1>4. QED
  BY <1>1, <1>2, <1>3, OpenInFlight DEF Prompt, Abstract!Ask

LEMMA AnswerChunkSays ==
  ASSUME TypeOK, NEW p \in Prompts, AnswerChunk(p)
  PROVE  Abstract!Say(p)
<1>1. CallTypeOK
  BY DEF TypeOK
<1>2. CallState[p] = "open" /\ CallState' = CallState
  BY <1>1, CallStates DEF AnswerChunk, CallState
<1>3. QED
  BY <1>1, <1>2, OpenInFlight DEF AnswerChunk, Abstract!Say

LEMMA LateChunkStrays ==
  ASSUME TypeOK, NEW p \in Prompts, LateChunk(p)
  PROVE  Abstract!Stray
<1>1. CallTypeOK
  BY DEF TypeOK
<1>2. CallState[p] = "over" /\ CallState' = CallState
  BY <1>1, CallStates DEF LateChunk, CallState
<1>3. QED
  BY <1>1, <1>2, OpenInFlight DEF LateChunk, Abstract!Stray

LEMMA PromptFailsFails ==
  ASSUME TypeOK, NEW p \in Prompts, PromptFails(p)
  PROVE  Abstract!Fail(p)
<1>1. CallTypeOK
  BY DEF TypeOK
<1>2. CallState[p] = "open" /\ CallState' = [CallState EXCEPT ![p] = "over"]
  BY <1>1, CallStates, CallMoves DEF PromptFails
<1>3. QED
  BY <1>2 DEF PromptFails, Abstract!Fail

LEMMA PromptReturnsCloses ==
  ASSUME TypeOK, TranscriptInv, NEW p \in Prompts, PromptReturns(p)
  PROVE  Abstract!Close(p)
<1> DEFINE row == [role |-> "assistant", prompt |-> p, text |-> collector]
<1>1. CallTypeOK /\ messages \in Seq(Row) /\ row \in Row
  BY DEF TypeOK, Row
<1>2. CallState[p] = "open" /\ CallState' = [CallState EXCEPT ![p] = "over"]
  BY <1>1, CallStates, CallMoves DEF PromptReturns
<1>3. IF collector = <<>> THEN messages' = messages ELSE messages' = Append(messages, row)
  BY DEF PromptReturns, StoreAnswer, AddMessage
<1>4. CASE p \in crowded
  <2>1. CASE collector = <<>>
    BY <1>2, <1>3, <1>4, <2>1 DEF PromptReturns, Abstract!Close
  <2>2. CASE collector # <<>>
    <3>1. messages'[Len(messages')] = row
      BY <1>1, <1>3, <2>2
    <3>2. messages' = Append(messages, Abstract!Reply(p, messages'[Len(messages')].text))
      BY <1>3, <2>2, <3>1 DEF Abstract!Reply
    <3>3. QED
      BY <1>2, <1>4, <3>2 DEF PromptReturns, Abstract!Close
  <2>3. QED
    BY <2>1, <2>2
<1>5. CASE p \notin crowded
  <2>1. collector = Answer(p)
    BY <1>5 DEF TranscriptInv, Alone, PromptReturns
  <2>2. Len(collector) = said[p] /\ collector = Abstract!Told(p)
    BY <1>1, <2>1, AnswerIsSequence DEF CallTypeOK, Answer, Abstract!Told
  <2>3. collector = <<>> <=> said[p] = 0
    BY <1>1, <2>2 DEF TypeOK, CallTypeOK
  <2>4. messages' = IF said[p] = 0 THEN messages
                    ELSE Append(messages, Abstract!Reply(p, Abstract!Told(p)))
    BY <1>3, <2>2, <2>3 DEF Abstract!Reply
  <2>5. QED
    BY <1>2, <1>5, <2>4 DEF PromptReturns, Abstract!Close
<1>6. QED
  BY <1>4, <1>5

\* The collector that all prompts of a session share implements the
\* transcript: rows are only added, and a call that had the agent for itself
\* adds what was said to it (prompt, the update handler of connect).
THEOREM Implements == Spec => ImplementsTranscript
<1>1. Init => Abstract!TranscriptInit
  BY DEF Init, Abstract!TranscriptInit, CallState
<1>2. TypeOK /\ TranscriptInv /\ [Next]_vars
        => [Abstract!TranscriptNext]_(Abstract!transcriptVars)
  <2> SUFFICES ASSUME TypeOK, TranscriptInv, [Next]_vars
               PROVE  Abstract!TranscriptNext \/ UNCHANGED Abstract!transcriptVars
    OBVIOUS
  <2>1. ASSUME NEW p \in Prompts,
               Prompt(p) \/ AnswerChunk(p) \/ LateChunk(p) \/ PromptReturns(p) \/ PromptFails(p)
        PROVE  Abstract!TranscriptNext
    BY <2>1, PromptAsks, AnswerChunkSays, LateChunkStrays, PromptReturnsCloses,
       PromptFailsFails DEF Abstract!TranscriptNext
  <2>2. CASE UNCHANGED vars
    BY <2>2 DEF vars, Abstract!transcriptVars, CallState
  <2>3. QED
    BY <2>1, <2>2 DEF Next
<1>3. QED
  BY <1>1, <1>2, TypeCorrect, TranscriptAlways, PTL
  DEF Spec, ImplementsTranscript, Abstract!TranscriptSpec
=============================================================================
