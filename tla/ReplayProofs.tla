---------------------------- MODULE ReplayProofs ----------------------------
(***************************************************************************)
(* For any number of prompts, any clock and any number of rows: what a     *)
(* load of the session sends, while prompts go on adding rows.  The rank   *)
(* of a row is the number of rows before it; that the ranks are exactly    *)
(* 0..n-1 makes the snapshot a permutation of the rows.                    *)
(***************************************************************************)
EXTENDS Replay, PromptFlowProofs, FiniteSetTheorems

\* The variables of the clock and of the load keep their types, a row has a
\* stamp, and what was loaded is still there (addMessage, loadSession).
ReplayTypeOK ==
  /\ clock \in 0..MaxTime
  /\ stamps \in Seq(0..MaxTime)
  /\ Len(stamps) = Len(messages)
  /\ load \in {"none", "sending", "done", "failed"}
  /\ loaded \in 0..Len(messages)
  /\ back \subseteq Prompts

\* What was read is all rows there were, in the order of their stamps.
Sorted ==
  /\ snapshot \in [1..loaded -> 1..loaded]
  /\ \A k, l \in 1..loaded : k < l => Before(snapshot[k], snapshot[l])
  /\ \A i \in 1..loaded : \E k \in 1..loaded : snapshot[k] = i

\* What was sent is a beginning of it, all of it when the load returns.
SentInOrder ==
  /\ sent \in Seq(Nat) /\ Len(sent) <= loaded
  /\ \A k \in 1..Len(sent) : sent[k] = snapshot[k]
  /\ load = "none" => loaded = 0
  /\ load = "done" => Len(sent) = loaded

\* Unless the clock steps back during a call, its question is stamped no later
\* than its answer is or would be.
Asked(p, n, t) ==
  \E q \in 1..n : messages[q].role = "user" /\ messages[q].prompt = p /\ stamps[q] <= t

QuestionsStamped ==
  /\ \A p \in InFlight \ back : Asked(p, Len(messages), clock)
  /\ \A r \in DOMAIN messages :
       messages[r].role = "assistant" /\ messages[r].prompt \notin back =>
         Asked(messages[r].prompt, r - 1, stamps[r])

ReplayInv == ReplayTypeOK /\ Sorted /\ SentInOrder /\ QuestionsStamped

-----------------------------------------------------------------------------
(* Ranks *)

\* The rows before a row; their number is its rank.
Earlier(i) == {j \in DOMAIN messages : Before(j, i)}
Rank(i) == Cardinality(Earlier(i))

Stamped == messages \in Seq(Row) /\ stamps \in Seq(0..MaxTime) /\ Len(stamps) = Len(messages)

\* Rows are in a strict total order.
LEMMA BeforeIsOrder ==
  ASSUME Stamped
  PROVE  /\ \A i \in DOMAIN messages : ~Before(i, i)
         /\ \A i, j \in DOMAIN messages : i # j => Before(i, j) \/ Before(j, i)
         /\ \A i, j, k \in DOMAIN messages : Before(i, j) /\ Before(j, k) => Before(i, k)
<1>1. \A i \in DOMAIN messages : i \in Int /\ stamps[i] \in Int
  BY TimeAssumption DEF Stamped
<1>2. QED
  BY <1>1 DEF Before

LEMMA RankBounds ==
  ASSUME Stamped, NEW i \in DOMAIN messages
  PROVE  IsFiniteSet(Earlier(i)) /\ Rank(i) \in 0..Len(messages) - 1
<1> DEFINE n == Len(messages)
           D == DOMAIN messages
<1>1. n \in Nat /\ D = 1..n
  BY DEF Stamped
<1> HIDE DEF n, D
<1>2. IsFiniteSet(D) /\ Cardinality(D) = n
  <2>1. 1 \in Int /\ n \in Int /\ n = IF 1 > n THEN 0 ELSE n - 1 + 1
    BY <1>1
  <2>2. IsFiniteSet(1..n) /\ Cardinality(1..n) = IF 1 > n THEN 0 ELSE n - 1 + 1
    BY <2>1, FS_Interval
  <2>3. QED
    BY <1>1, <2>1, <2>2
<1>3. IsFiniteSet(D \ {i}) /\ Cardinality(D \ {i}) = n - 1
  <2>1. i \in D
    BY DEF D
  <2>2. QED
    BY <1>2, <2>1, FS_RemoveElement
<1>4. Earlier(i) \in SUBSET (D \ {i})
  BY BeforeIsOrder DEF Earlier, D
<1>5. IsFiniteSet(Earlier(i)) /\ Cardinality(Earlier(i)) <= n - 1
  BY <1>3, <1>4, FS_Subset
<1>6. Cardinality(Earlier(i)) \in Nat
  BY <1>5, FS_CardinalityType
<1>7. QED
  BY <1>1, <1>5, <1>6 DEF Rank, n

LEMMA RankGrows ==
  ASSUME Stamped, NEW i \in DOMAIN messages, NEW j \in DOMAIN messages, Before(i, j)
  PROVE  Rank(i) < Rank(j)
<1>1. Earlier(i) \in SUBSET Earlier(j)
  BY BeforeIsOrder DEF Earlier
<1>2. i \in Earlier(j) /\ i \notin Earlier(i)
  BY BeforeIsOrder DEF Earlier
<1>3. IsFiniteSet(Earlier(j)) /\ Rank(i) \in Int /\ Rank(j) \in Int
  BY RankBounds
<1>4. Rank(i) <= Rank(j) /\ (Rank(j) = Rank(i) => Earlier(i) = Earlier(j))
  BY <1>1, <1>3, FS_Subset DEF Rank
<1>5. QED
  BY <1>2, <1>3, <1>4

\* Every rank below the number of rows is that of exactly one row.
LEMMA RanksTaken ==
  ASSUME Stamped
  PROVE  /\ \A i, j \in DOMAIN messages : Rank(i) = Rank(j) => i = j
         /\ \A k \in DOMAIN messages : \E i \in DOMAIN messages : Rank(i) = k - 1
<1> DEFINE D == DOMAIN messages
           place == [i \in D |-> Rank(i) + 1]
<1>1. \A i \in D : Rank(i) \in Nat
  BY RankBounds
<1>2. \A i, j \in D : Rank(i) = Rank(j) => i = j
  BY <1>1, RankGrows, BeforeIsOrder
<1>3. D = 1..Len(messages) /\ Len(messages) \in Nat
  BY DEF Stamped
<1>4. \A i \in D : Rank(i) + 1 \in D
  BY <1>3, RankBounds
<1>5. place \in Injection(D, D)
  BY <1>1, <1>2, <1>4 DEF Injection, IsInjective
<1>6. IsFiniteSet(D)
  BY <1>3, FS_Interval
<1>7. place \in Surjection(D, D)
  <2> HIDE DEF place, D
  <2>1. QED
    BY <1>5, <1>6, FS_Injection
<1>8. ASSUME NEW k \in D PROVE \E i \in D : Rank(i) = k - 1
  <2>1. PICK i \in D : place[i] = k
    BY <1>7 DEF Surjection
  <2>2. QED
    BY <1>1, <2>1
<1>9. QED
  BY <1>2, <1>8

\* What getMessages returns: every row once, in the order of the stamps.
LEMMA GetMessagesSorts ==
  ASSUME Stamped, NEW n, n = Len(messages)
  PROVE  /\ GetMessages \in [1..n -> 1..n]
         /\ \A k, l \in 1..n : k < l => Before(GetMessages[k], GetMessages[l])
         /\ \A i \in 1..n : \E k \in 1..n : GetMessages[k] = i
<1> DEFINE D == DOMAIN messages
<1>1. D = 1..n /\ n \in Nat
  BY DEF Stamped
<1>2. GetMessages = [k \in D |-> CHOOSE i \in D : Rank(i) = k - 1]
  BY DEF GetMessages, Rank, Earlier
<1>3. \A k \in D : GetMessages[k] \in D /\ Rank(GetMessages[k]) = k - 1
  BY <1>2, RanksTaken
<1>4. GetMessages \in [1..n -> 1..n]
  BY <1>1, <1>2, <1>3
<1> HIDE DEF D
<1>5. ASSUME NEW k \in D, NEW l \in D, k < l PROVE Before(GetMessages[k], GetMessages[l])
  <2> DEFINE a == GetMessages[k]
             b == GetMessages[l]
  <2>1. a \in DOMAIN messages /\ b \in DOMAIN messages /\ Rank(a) = k - 1 /\ Rank(b) = l - 1
    BY <1>3 DEF D
  <2> HIDE DEF a, b
  <2>2. ~(l - 1 < k - 1) /\ k - 1 # l - 1
    BY <1>1, <1>5
  <2>3. a # b /\ ~Before(b, a)
    BY <2>1, <2>2, RankGrows
  <2>4. Before(a, b)
    BY <2>1, <2>3, BeforeIsOrder
  <2>5. QED
    BY <2>4 DEF a, b
<1>6. ASSUME NEW i \in D PROVE \E k \in D : GetMessages[k] = i
  <2> DEFINE k == Rank(i) + 1
  <2>1. k \in D /\ k - 1 = Rank(i)
    BY <1>1, RankBounds DEF D
  <2> HIDE DEF k
  <2>2. GetMessages[k] \in D /\ Rank(GetMessages[k]) = Rank(i)
    BY <1>3, <2>1
  <2>3. GetMessages[k] = i
    BY <2>2, RanksTaken DEF D
  <2>4. QED
    BY <2>1, <2>3
<1>7. QED
  BY <1>1, <1>4, <1>5, <1>6
-----------------------------------------------------------------------------
(* Steps *)

\* A step of the replay is one of the prompts, or leaves their state alone.
LEMMA ReplayStepIsPromptStep == [ReplayNext]_replayVars => [Next]_vars
BY DEF ReplayNext, replayVars, PromptStep, Tick, LoadSession, SendMessage, LoadReturns, LoadFails

\* The replay keeps every promise of the prompts it runs beside
\* (prompt, loadSession).
THEOREM ReplayImplementsPrompts == ReplaySpec => Spec
<1>1. ReplayInit => Init
  BY DEF ReplayInit
<1>2. QED
  BY <1>1, ReplayStepIsPromptStep, PTL DEF ReplaySpec, Spec

\* A step of a prompt keeps all rows and adds none, its question, or its
\* answer.
LEMMA RowAdded ==
  ASSUME TypeOK, Next
  PROVE  \/ messages' = messages /\ InFlight' \subseteq InFlight
         \/ \E p \in Prompts, row \in Row :
              /\ messages' = Append(messages, row) /\ row.prompt = p
              /\ \/ row.role = "user" /\ InFlight' \subseteq InFlight \cup {p}
                 \/ row.role = "assistant" /\ p \in InFlight /\ InFlight' \subseteq InFlight
<1>1. PICK p \in Prompts :
        Prompt(p) \/ AnswerChunk(p) \/ LateChunk(p) \/ PromptReturns(p) \/ PromptFails(p)
  BY DEF Next
<1>2. CASE Prompt(p)
  <2> DEFINE row == [role |-> "user", prompt |-> p, text |-> <<>>]
  <2>1. row \in Row /\ row.prompt = p /\ row.role = "user" /\ messages' = Append(messages, row)
    BY <1>2 DEF Prompt, AddMessage, Row
  <2>2. InFlight' \subseteq InFlight \cup {p}
    BY <1>2 DEF Prompt, InFlight, TypeOK, CallTypeOK
  <2> HIDE DEF row
  <2>3. QED
    BY <2>1, <2>2
<1>3. CASE PromptReturns(p)
  <2> DEFINE row == [role |-> "assistant", prompt |-> p, text |-> collector]
  <2>1. row \in Row /\ row.prompt = p /\ row.role = "assistant"
    BY DEF Row, TypeOK
  <2>2. messages' = messages \/ messages' = Append(messages, row)
    BY <1>3 DEF PromptReturns, StoreAnswer, AddMessage
  <2>3. p \in InFlight /\ InFlight' \subseteq InFlight
    BY <1>3 DEF PromptReturns, InFlight, TypeOK, CallTypeOK
  <2> HIDE DEF row
  <2>4. QED
    BY <2>1, <2>2, <2>3
<1>4. CASE AnswerChunk(p) \/ LateChunk(p) \/ PromptFails(p)
  BY <1>4 DEF AnswerChunk, LateChunk, PromptFails, InFlight, TypeOK, CallTypeOK
<1>5. QED
  BY <1>1, <1>2, <1>3, <1>4

\* Rows and their stamps stay as they are, whatever is added.
RowsStay ==
  /\ Len(messages) <= Len(messages)'
  /\ \A i \in 1..Len(messages) : messages'[i] = messages[i] /\ stamps'[i] = stamps[i]

LEMMA PromptStepTyped ==
  ASSUME TypeOK, ReplayTypeOK, PromptStep
  PROVE  ReplayTypeOK' /\ RowsStay
<1>1. CASE messages' = messages
  BY <1>1 DEF ReplayTypeOK, TypeOK, PromptStep, RowsStay
<1>2. CASE messages' # messages
  <2>1. PICK row \in Row : messages' = Append(messages, row)
    BY <1>2, RowAdded DEF PromptStep
  <2>2. messages \in Seq(Row) /\ Len(messages') = Len(messages) + 1 /\ Len(messages) \in Nat
    BY <2>1 DEF TypeOK
  <2>3. stamps' = Append(stamps, clock)
    BY <2>2 DEF PromptStep
  <2>4. stamps' \in Seq(0..MaxTime) /\ Len(stamps') = Len(messages')
    BY <2>2, <2>3 DEF ReplayTypeOK
  <2>5. ReplayTypeOK'
    BY <2>2, <2>4 DEF ReplayTypeOK, PromptStep
  <2>6. RowsStay
    BY <2>1, <2>2, <2>3 DEF ReplayTypeOK, RowsStay
  <2>7. QED
    BY <2>5, <2>6
<1>3. QED
  BY <1>1, <1>2

\* An order of rows that were there stays what it was.
LEMMA SortedStays ==
  ASSUME ReplayTypeOK, TypeOK, Sorted, RowsStay, UNCHANGED <<snapshot, loaded>>
  PROVE  Sorted'
<1>1. \A k \in 1..loaded : snapshot[k] \in 1..Len(messages)
  BY DEF Sorted, ReplayTypeOK, TypeOK
<1>2. \A i, j \in 1..Len(messages) : Before(i, j) => Before(i, j)'
  BY DEF RowsStay, Before
<1>3. QED
  BY <1>1, <1>2 DEF Sorted

\* A question that is stamped stays one.
LEMMA AskedStays ==
  ASSUME NEW n \in Nat, NEW m \in Nat, n <= m, n <= Len(messages), NEW t, NEW p,
         ReplayTypeOK, TypeOK, RowsStay, Asked(p, n, t)
  PROVE  \E q \in 1..m : messages'[q].role = "user" /\ messages'[q].prompt = p /\ stamps'[q] <= t
<1>1. PICK q \in 1..n : messages[q].role = "user" /\ messages[q].prompt = p /\ stamps[q] <= t
  BY DEF Asked
<1>2. q \in 1..Len(messages) /\ q \in 1..m
  BY DEF TypeOK
<1>3. messages'[q] = messages[q] /\ stamps'[q] = stamps[q]
  BY <1>2 DEF RowsStay
<1>4. QED
  BY <1>1, <1>2, <1>3

LEMMA PromptStepStamps ==
  ASSUME TypeOK, TypeOK', ReplayTypeOK, QuestionsStamped, PromptStep
  PROVE  QuestionsStamped'
<1>1. /\ RowsStay /\ back' = back /\ clock' = clock
      /\ Len(messages) \in Nat /\ Len(messages)' \in Nat /\ Len(messages) <= Len(messages)'
      /\ DOMAIN messages = 1..Len(messages) /\ DOMAIN messages' = 1..Len(messages)'
  <2>1. RowsStay
    BY PromptStepTyped
  <2>2. back' = back /\ clock' = clock
    BY DEF PromptStep
  <2>3. /\ Len(messages) \in Nat /\ DOMAIN messages = 1..Len(messages)
        /\ Len(messages)' \in Nat /\ DOMAIN messages' = 1..Len(messages)'
    BY DEF TypeOK
  <2>4. QED
    BY <2>1, <2>2, <2>3 DEF RowsStay
<1>2. ASSUME NEW p \in InFlight, p \notin back PROVE Asked(p, Len(messages), clock)'
  <2>1. Asked(p, Len(messages), clock)
    BY <1>2 DEF QuestionsStamped
  <2>2. \E q \in 1..Len(messages)' :
          messages'[q].role = "user" /\ messages'[q].prompt = p /\ stamps'[q] <= clock
    BY <1>1, <2>1, AskedStays
  <2>3. QED
    BY <1>1, <2>2 DEF Asked
<1>3. ASSUME NEW r \in DOMAIN messages,
             messages'[r].role = "assistant", messages'[r].prompt \notin back
      PROVE  Asked(messages[r].prompt, r - 1, stamps[r])'
  <2>1. messages'[r] = messages[r] /\ stamps'[r] = stamps[r] /\ r - 1 \in Nat /\ r - 1 <= Len(messages)
    BY <1>1 DEF RowsStay
  <2>2. Asked(messages[r].prompt, r - 1, stamps[r])
    BY <1>3, <2>1 DEF QuestionsStamped
  <2>3. PICK n \in Nat, p \in {messages[r].prompt}, t \in {stamps[r]} :
          n = r - 1 /\ p = messages[r].prompt /\ t = stamps[r]
    BY <2>1
  <2>4. \E q \in 1..n : messages'[q].role = "user" /\ messages'[q].prompt = p /\ stamps'[q] <= t
    <3>1. Asked(p, n, t)
      BY <2>2, <2>3
    <3>2. RowsStay /\ n <= n /\ n <= Len(messages)
      BY <1>1, <2>1, <2>3
    <3>3. QED
      BY <3>1, <3>2, AskedStays
  <2>5. QED
    BY <2>1, <2>3, <2>4 DEF Asked
<1>4. CASE messages' = messages /\ InFlight' \subseteq InFlight
  BY <1>1, <1>2, <1>3, <1>4 DEF QuestionsStamped
<1>5. ASSUME NEW p \in Prompts, NEW row \in Row,
             messages' = Append(messages, row), row.prompt = p,
             \/ row.role = "user" /\ InFlight' \subseteq InFlight \cup {p}
             \/ row.role = "assistant" /\ p \in InFlight /\ InFlight' \subseteq InFlight
      PROVE  QuestionsStamped'
  <2>1. PICK n \in Nat : n = Len(messages)
    BY <1>1
  <2>2. Len(messages)' = n + 1 /\ messages'[n + 1] = row
    BY <1>5, <2>1 DEF TypeOK
  <2>3. stamps'[n + 1] = clock
    BY <2>1, <2>2 DEF PromptStep, ReplayTypeOK
  <2>4. \A r \in DOMAIN messages' : r \in DOMAIN messages \/ r = n + 1
    BY <1>1, <2>1, <2>2
  <2>5. CASE row.role = "user" /\ InFlight' \subseteq InFlight \cup {p}
    <3>1. Asked(p, Len(messages), clock)'
      <4>1. clock <= clock'
        BY <1>1 DEF ReplayTypeOK
      <4>2. QED
        BY <1>1, <1>5, <2>2, <2>3, <2>5, <4>1 DEF Asked
    <3>2. \A q \in InFlight' \ back' : Asked(q, Len(messages), clock)'
      BY <1>1, <1>2, <2>5, <3>1
    <3>3. \A r \in DOMAIN messages' : messages'[r].role = "assistant" => r \in DOMAIN messages
      BY <2>2, <2>4, <2>5
    <3>4. QED
      BY <1>1, <1>3, <3>2, <3>3 DEF QuestionsStamped
  <2>6. CASE row.role = "assistant" /\ p \in InFlight /\ InFlight' \subseteq InFlight
    <3>1. \A q \in InFlight' \ back' : Asked(q, Len(messages), clock)'
      BY <1>1, <1>2, <2>6
    <3>2. ASSUME p \notin back
          PROVE  Asked(messages[n + 1].prompt, n + 1 - 1, stamps[n + 1])'
      <4>1. Asked(p, n, clock)
        BY <2>1, <2>6, <3>2 DEF QuestionsStamped
      <4>2. \E q \in 1..n :
              messages'[q].role = "user" /\ messages'[q].prompt = p /\ stamps'[q] <= clock
        BY <1>1, <2>1, <4>1, AskedStays
      <4>3. n + 1 - 1 = n
        BY <2>1
      <4>4. QED
        BY <1>5, <2>2, <2>3, <4>2, <4>3 DEF Asked
    <3>3. messages'[n + 1].prompt \notin back' =>
            Asked(messages[n + 1].prompt, n + 1 - 1, stamps[n + 1])'
      BY <1>1, <1>5, <2>2, <3>2
    <3>4. ASSUME NEW r \in DOMAIN messages',
                 messages'[r].role = "assistant", messages'[r].prompt \notin back'
          PROVE  Asked(messages[r].prompt, r - 1, stamps[r])'
      BY <1>1, <1>3, <2>4, <3>3, <3>4
    <3>5. QED
      BY <3>1, <3>4 DEF QuestionsStamped
  <2>7. QED
    BY <1>5, <2>5, <2>6
<1>6. QED
  BY <1>4, <1>5, RowAdded DEF PromptStep

LEMMA PromptStepPreserves ==
  ASSUME TypeOK, TypeOK', ReplayInv, PromptStep
  PROVE  ReplayInv'
<1>1. ReplayTypeOK' /\ RowsStay /\ QuestionsStamped'
  BY PromptStepTyped, PromptStepStamps DEF ReplayInv
<1>2. Sorted'
  BY <1>1, SortedStays DEF ReplayInv, PromptStep
<1>3. SentInOrder'
  BY DEF ReplayInv, SentInOrder, PromptStep
<1>4. QED
  BY <1>1, <1>2, <1>3 DEF ReplayInv

LEMMA TickPreserves ==
  ASSUME TypeOK, ReplayInv, Tick
  PROVE  ReplayInv'
<1> USE DEF ReplayInv
<1>1. PICK t \in 0..MaxTime :
        clock' = t /\ back' = IF t < clock THEN back \cup InFlight ELSE back
  BY DEF Tick
<1>2. UNCHANGED <<messages, InFlight, stamps, load, snapshot, sent, loaded>>
  BY DEF Tick, vars, InFlight
<1>3. ReplayTypeOK'
  BY <1>1, <1>2 DEF ReplayTypeOK, InFlight
<1>4. Sorted' /\ SentInOrder'
  BY <1>2 DEF Sorted, Before, SentInOrder
<1>5. \A p \in InFlight' \ back' : Asked(p, Len(messages), clock)'
  <2> SUFFICES ASSUME NEW p \in InFlight, p \notin back'
               PROVE  Asked(p, Len(messages), clock)'
    BY <1>2
  <2>1. p \notin back /\ clock <= t
    BY <1>1, TimeAssumption DEF ReplayTypeOK
  <2>2. PICK q \in 1..Len(messages) :
          messages[q].role = "user" /\ messages[q].prompt = p /\ stamps[q] <= clock
    BY <2>1 DEF QuestionsStamped, Asked
  <2>3. stamps[q] \in Int /\ clock \in Int /\ t \in Int
    BY <1>1, TimeAssumption DEF ReplayTypeOK
  <2>4. stamps[q] <= t
    BY <2>1, <2>2, <2>3
  <2>5. QED
    BY <1>1, <1>2, <2>2, <2>4 DEF Asked
<1>6. QuestionsStamped'
  BY <1>1, <1>2, <1>5 DEF QuestionsStamped, Asked
<1>7. QED
  BY <1>3, <1>4, <1>6

LEMMA LoadSessionPreserves ==
  ASSUME TypeOK, ReplayInv, LoadSession
  PROVE  ReplayInv'
<1> USE DEF ReplayInv
<1>1. UNCHANGED <<messages, InFlight, clock, stamps, sent, back>>
  BY DEF LoadSession, vars, InFlight
<1>2. /\ load = "none" /\ load' = "sending"
      /\ snapshot' = GetMessages /\ loaded' = Len(messages)
  BY DEF LoadSession
<1>3. Stamped
  BY DEF Stamped, ReplayTypeOK, TypeOK
<1>4. ReplayTypeOK'
  BY <1>1, <1>2 DEF ReplayTypeOK, TypeOK
<1>5. Sorted'
  <2>1. PICK n \in Nat : n = Len(messages)
    BY DEF TypeOK
  <2>2. /\ GetMessages \in [1..n -> 1..n]
        /\ \A k, l \in 1..n : k < l => Before(GetMessages[k], GetMessages[l])
        /\ \A i \in 1..n : \E k \in 1..n : GetMessages[k] = i
    BY <1>3, <2>1, GetMessagesSorts
  <2>3. \A i, j : Before(i, j)' <=> Before(i, j)
    BY <1>1 DEF Before
  <2>4. QED
    BY <1>2, <2>1, <2>2, <2>3 DEF Sorted
<1>6. SentInOrder'
  BY <1>1, <1>2 DEF SentInOrder, ReplayTypeOK
<1>7. QuestionsStamped'
  BY <1>1 DEF QuestionsStamped, Asked
<1>8. QED
  BY <1>4, <1>5, <1>6, <1>7

LEMMA SendMessagePreserves ==
  ASSUME TypeOK, ReplayInv, SendMessage
  PROVE  ReplayInv'
<1> USE DEF ReplayInv
<1>1. UNCHANGED <<messages, InFlight, clock, stamps, load, snapshot, loaded, back>>
  BY DEF SendMessage, vars, InFlight
<1>2. ReplayTypeOK' /\ QuestionsStamped'
  BY <1>1 DEF ReplayTypeOK, QuestionsStamped, Asked
<1>3. Sorted'
  BY <1>1 DEF Sorted, Before
<1>4. snapshot \in Seq(1..loaded) /\ Len(snapshot) = loaded
  BY DEF Sorted, ReplayTypeOK, TypeOK
<1>5. SentInOrder'
  <2>1. PICK n \in Nat : n = Len(sent)
    BY DEF SentInOrder
  <2>2. /\ n < loaded /\ n + 1 \in 1..loaded /\ loaded \in Nat
        /\ load = "sending" /\ sent' = Append(sent, snapshot[n + 1])
    BY <1>4, <2>1 DEF SendMessage, Rows, ReplayTypeOK, TypeOK
  <2>3. snapshot[n + 1] \in Nat
    BY <2>2 DEF Sorted
  <2>4. /\ sent' \in Seq(Nat) /\ Len(sent') = n + 1
        /\ \A k \in 1..n : sent'[k] = sent[k]
        /\ sent'[n + 1] = snapshot[n + 1]
    BY <2>1, <2>2, <2>3 DEF SentInOrder
  <2>5. \A k \in 1..n + 1 : sent'[k] = snapshot[k]
    BY <2>1, <2>4 DEF SentInOrder
  <2>6. QED
    BY <1>1, <2>2, <2>4, <2>5 DEF SentInOrder
<1>6. QED
  BY <1>2, <1>3, <1>5

LEMMA LoadEndsPreserves ==
  ASSUME TypeOK, ReplayInv, LoadReturns \/ LoadFails
  PROVE  ReplayInv'
<1> USE DEF ReplayInv
<1>1. UNCHANGED <<messages, InFlight, clock, stamps, snapshot, sent, loaded, back>>
  BY DEF LoadReturns, LoadFails, vars, InFlight
<1>2. ReplayTypeOK' /\ QuestionsStamped'
  BY <1>1 DEF ReplayTypeOK, QuestionsStamped, Asked, LoadReturns, LoadFails
<1>3. Sorted'
  BY <1>1 DEF Sorted, Before
<1>4. snapshot \in Seq(1..loaded) /\ Len(snapshot) = loaded
  BY DEF Sorted, ReplayTypeOK, TypeOK
<1>5. SentInOrder'
  BY <1>1, <1>4 DEF SentInOrder, LoadReturns, LoadFails, Rows
<1>6. QED
  BY <1>2, <1>3, <1>5

\* The strengthening holds in every reachable state.
LEMMA ReplayAlways == ReplaySpec => [](TypeOK /\ ReplayInv)
<1>1. ReplayInit => ReplayInv
  <2> SUFFICES ASSUME ReplayInit PROVE ReplayInv
    OBVIOUS
  <2>1. ReplayTypeOK
    BY TimeAssumption DEF ReplayInit, Init, ReplayTypeOK
  <2>2. Sorted /\ SentInOrder
    BY DEF ReplayInit, Init, Sorted, SentInOrder
  <2>3. QuestionsStamped
    BY DEF ReplayInit, Init, QuestionsStamped, InFlight
  <2>4. QED
    BY <2>1, <2>2, <2>3 DEF ReplayInv
<1>2. TypeOK /\ TypeOK' /\ ReplayInv /\ [ReplayNext]_replayVars => ReplayInv'
  <2> SUFFICES ASSUME TypeOK, TypeOK', ReplayInv, [ReplayNext]_replayVars PROVE ReplayInv'
    OBVIOUS
  <2>1. CASE UNCHANGED replayVars
    <3>1. /\ UNCHANGED <<prompt, messages, clock, stamps, load, snapshot, sent, loaded, back>>
          /\ InFlight' = InFlight
      BY <2>1 DEF replayVars, vars, InFlight
    <3>2. ReplayTypeOK' /\ SentInOrder'
      BY <3>1 DEF ReplayInv, ReplayTypeOK, SentInOrder
    <3>3. Sorted'
      BY <3>1 DEF ReplayInv, Sorted, Before
    <3>4. QuestionsStamped'
      BY <3>1 DEF ReplayInv, QuestionsStamped, Asked
    <3>5. QED
      BY <3>2, <3>3, <3>4 DEF ReplayInv
  <2>2. QED
    BY <2>1, PromptStepPreserves, TickPreserves, LoadSessionPreserves, SendMessagePreserves,
       LoadEndsPreserves DEF ReplayNext
<1>3. ReplaySpec => []TypeOK
  BY ReplayImplementsPrompts, TypeCorrect, PTL
<1>4. QED
  BY <1>1, <1>2, <1>3, PTL DEF ReplaySpec

\* Clock, stamps and load keep their types beside those of the prompts: every
\* row has a stamp, and no row a load has read ever goes (addMessage).
THEOREM ReplayTypeCorrect == ReplaySpec => [](TypeOK /\ ReplayTypeOK)
<1>1. ReplayInv => ReplayTypeOK
  BY DEF ReplayInv
<1>2. QED
  BY <1>1, ReplayAlways, PTL

LEMMA StampsAreTimes ==
  ASSUME ReplayInv
  PROVE  \A i \in 1..Len(messages) : stamps[i] \in 0..MaxTime
<1>1. stamps \in Seq(0..MaxTime) /\ Len(stamps) = Len(messages)
  BY DEF ReplayInv, ReplayTypeOK
<1>2. \A i \in 1..Len(stamps) : stamps[i] \in 0..MaxTime
  BY <1>1, TimeAssumption
<1>3. QED
  BY <1>1, <1>2

\* Each row sent is the one at its place in the snapshot.
LEMMA SentWasRead ==
  ASSUME TypeOK, ReplayInv, NEW k \in 1..Len(sent)
  PROVE  k \in 1..loaded /\ sent[k] = snapshot[k] /\ sent[k] \in 1..loaded
<1>1. Len(sent) \in Nat /\ loaded \in Nat /\ Len(sent) <= loaded
  BY DEF ReplayInv, SentInOrder, ReplayTypeOK, TypeOK
<1>2. k \in 1..loaded /\ sent[k] = snapshot[k]
  BY <1>1 DEF ReplayInv, SentInOrder
<1>3. snapshot[k] \in 1..loaded
  BY <1>2 DEF ReplayInv, Sorted
<1>4. QED
  BY <1>2, <1>3

\* What a load sends is sorted, complete when it returns, and never a row that
\* came after it began, whatever prompts add meanwhile (loadSession).
THEOREM ReplayIsExact == ReplaySpec => []ReplayExact
<1>1. TypeOK /\ ReplayInv => ReplayExact
  <2> SUFFICES ASSUME TypeOK, ReplayInv PROVE ReplayExact
    OBVIOUS
  <2> USE DEF ReplayInv
  <2>1. /\ DOMAIN sent = 1..Len(sent) /\ Len(sent) \in Nat /\ loaded \in Nat /\ Len(sent) <= loaded
        /\ loaded <= Len(messages) /\ Len(messages) \in Nat
    BY DEF SentInOrder, ReplayTypeOK, TypeOK
  <2>2. \A i \in DOMAIN sent : i \in 1..loaded /\ sent[i] = snapshot[i] /\ sent[i] \in 1..loaded
    BY <2>1, SentWasRead
  <2>3. \A i \in 1..loaded : stamps[i] \in Int /\ i \in Int
    <3>1. \A i \in 1..Len(messages) : stamps[i] \in 0..MaxTime
      BY StampsAreTimes
    <3>2. QED
      BY <2>1, <3>1, TimeAssumption
  <2>4. ASSUME NEW i \in DOMAIN sent, NEW j \in DOMAIN sent, i < j
        PROVE  sent[i] # sent[j] /\ stamps[sent[i]] <= stamps[sent[j]]
    <3>1. Before(sent[i], sent[j])
      BY <2>2, <2>4 DEF Sorted
    <3>2. QED
      BY <2>2, <2>3, <3>1 DEF Before
  <2>5. \A i \in DOMAIN sent : sent[i] <= loaded
    BY <2>1, <2>2
  <2>6. load = "done" => Len(sent) = loaded
    BY DEF SentInOrder
  <2>7. QED
    BY <2>4, <2>5, <2>6 DEF ReplayExact
<1>2. QED
  BY <1>1, ReplayAlways, PTL

\* A load that sends an answer has sent its question, unless the clock stepped
\* back while the call was in flight (addMessage, getMessages).
THEOREM QuestionsFirst == ReplaySpec => []QuestionFirst
<1>1. TypeOK /\ ReplayInv => QuestionFirst
  <2> SUFFICES ASSUME TypeOK, ReplayInv,
                      NEW i \in DOMAIN sent, messages[sent[i]].role = "assistant",
                      messages[sent[i]].prompt \notin back
               PROVE  \E j \in 1..i - 1 :
                        /\ messages[sent[j]].role = "user"
                        /\ messages[sent[j]].prompt = messages[sent[i]].prompt
    BY DEF QuestionFirst
  <2> USE DEF ReplayInv
  <2>1. /\ DOMAIN sent = 1..Len(sent) /\ Len(sent) \in Nat /\ loaded \in Nat /\ Len(sent) <= loaded
        /\ loaded <= Len(messages) /\ DOMAIN messages = 1..Len(messages) /\ Len(messages) \in Nat
    BY DEF SentInOrder, ReplayTypeOK, TypeOK
  <2>2. \A k \in 1..Len(sent) : k \in 1..loaded /\ sent[k] = snapshot[k] /\ sent[k] \in 1..loaded
    BY SentWasRead
  <2>3. PICK r \in 1..loaded : r = sent[i] /\ r = snapshot[i]
    BY <2>1, <2>2
  <2>4. PICK q \in 1..r - 1 : /\ messages[q].role = "user" /\ messages[q].prompt = messages[r].prompt
                              /\ stamps[q] <= stamps[r]
    BY <2>1, <2>3 DEF QuestionsStamped, Asked
  <2>5. q \in 1..loaded /\ q < r
    BY <2>1, <2>3, <2>4
  <2>6. stamps[q] \in Int /\ stamps[r] \in Int
    <3>1. \A k \in 1..Len(messages) : stamps[k] \in 0..MaxTime
      BY StampsAreTimes
    <3>2. QED
      BY <2>1, <2>3, <2>5, <3>1, TimeAssumption
  <2>7. ~Before(r, q) /\ q # r
    BY <2>1, <2>3, <2>4, <2>5, <2>6 DEF Before
  <2>8. PICK k \in 1..loaded : snapshot[k] = q
    BY <2>5 DEF Sorted
  <2>9. k < i
    BY <2>1, <2>2, <2>3, <2>7, <2>8 DEF Sorted
  <2>10. k \in 1..i - 1 /\ sent[k] = q
    BY <2>1, <2>2, <2>8, <2>9
  <2>11. QED
    BY <2>3, <2>4, <2>10
<1>2. QED
  BY <1>1, ReplayAlways, PTL

\* What holds of the prompts alone holds while a session is loaded: every call
\* that had the agent for itself is followed by its own answer, and one during
\* which no other is made by a whole one (prompt).
THEOREM AnswersWhileLoading == ReplaySpec => [](OwnAnswer /\ AnswerComplete) /\ ImplementsTranscript
BY ReplayImplementsPrompts, OwnAnswerStored, AnswersComplete, Implements, PTL
=============================================================================
