----------------------- MODULE TerminalManagerProofs -----------------------
(***************************************************************************)
(* For any number of terminals, any output and every limit: no process is  *)
(* left behind, the two ways to ask for an exit status agree, and the      *)
(* buffer is the end of all that was appended, after replacement           *)
(* characters, longer than its limit by at most two bytes for each         *)
(* continuation byte of a character.                                       *)
(***************************************************************************)
EXTENDS TerminalManager, SequenceTheorems, TLAPS

-----------------------------------------------------------------------------
(* Appending to a bounded buffer *)

\* The i-th byte of a run of replacement characters.
ReplacementByte(i) == IF i % 3 = 1 THEN -1 ELSE Continuation

\* buf is k replacement characters and then the end of text, byte by byte.
Ends(buf, text, k) ==
  /\ k \in Nat /\ 3 * k <= Len(buf)
  /\ Len(buf) - 3 * k <= Len(text)
  /\ \A i \in 1..Len(buf) :
       buf[i] = IF i <= 3 * k THEN ReplacementByte(i)
                   ELSE text[Len(text) - Len(buf) + i]

\* Legible, at one place.
LEMMA LegibleAt ==
  ASSUME NEW text, Legible(text), NEW m \in DOMAIN text, text[m] = Continuation
  PROVE  \E w \in 1..3 : w < m /\ text[m - w] # Continuation
<1>1. \E w \in 1..MaxWidth - 1 : w < m /\ text[m - w] # Continuation
  BY DEF Legible
<1>2. MaxWidth - 1 = 3
  BY DEF MaxWidth
<1>3. QED
  BY <1>1, <1>2

LEMMA ReplacementsFacts ==
  ASSUME NEW k \in Nat
  PROVE  /\ Replacements(k) \in Seq(Int)
         /\ Len(Replacements(k)) = 3 * k
         /\ \A i \in 1..3 * k : Replacements(k)[i] = ReplacementByte(i)
<1>1. \A i \in 1..3 * k : /\ Replacement[((i - 1) % 3) + 1] \in Int
                          /\ Replacement[((i - 1) % 3) + 1] = ReplacementByte(i)
  <2> SUFFICES ASSUME NEW i \in 1..3 * k
               PROVE  /\ Replacement[((i - 1) % 3) + 1] \in Int
                      /\ Replacement[((i - 1) % 3) + 1] = ReplacementByte(i)
    OBVIOUS
  <2>1. \/ (i - 1) % 3 = 0 /\ i % 3 = 1
        \/ (i - 1) % 3 = 1 /\ i % 3 = 2
        \/ (i - 1) % 3 = 2 /\ i % 3 = 0
    OBVIOUS
  <2>2. QED
    BY <2>1 DEF Replacement, ReplacementByte, Continuation
<1>2. Replacements(k) \in [1..3 * k -> Int]
  BY <1>1 DEF Replacements
<1>3. QED
  BY <1>1, <1>2 DEF Replacements

LEMMA LastBytesFacts ==
  ASSUME NEW text \in Seq(Int), NEW n \in 0..Len(text)
  PROVE  /\ LastBytes(text, n) \in Seq(Int)
         /\ Len(LastBytes(text, n)) = n
         /\ \A i \in 1..n : LastBytes(text, n)[i] = text[Len(text) - n + i]
<1>1. \A i \in Len(text) - n + 1 .. Len(text) : text[i] \in Int
  OBVIOUS
<1>2. QED
  BY <1>1, SubSeqProperties DEF LastBytes

\* A run of continuation bytes at a cut is shorter than a character.
LEMMA StrayFacts ==
  ASSUME NEW text, Legible(text), NEW n \in 0..Len(text)
  PROVE  /\ Stray(LastBytes(text, n)) \in 0..MaxWidth - 1
         /\ Stray(LastBytes(text, n)) <= n
         /\ Stray(LastBytes(text, n)) < n =>
              LastBytes(text, n)[Stray(LastBytes(text, n)) + 1] # Continuation
<1> DEFINE b == LastBytes(text, n)
           d == Len(text) - n
           P(k) == /\ \A i \in 1..k : b[i] = Continuation
                   /\ k < Len(b) => b[k + 1] # Continuation
<1>1. text \in Seq(Int) /\ Len(text) \in Nat /\ d \in Nat /\ DOMAIN text = 1..Len(text)
  BY DEF Legible
<1>2. Len(b) = n /\ \A i \in 1..n : b[i] = text[d + i]
  BY <1>1, LastBytesFacts
<1>3. \A k \in 0..n : (\A i \in 1..k : b[i] = Continuation) => k <= 3
  <2> SUFFICES ASSUME n >= 4, \A i \in 1..4 : b[i] = Continuation
               PROVE  FALSE
    BY <1>1
  <2>1. \A i \in 1..4 : text[d + i] = Continuation
    BY <1>2
  <2>2. d + 4 \in DOMAIN text
    BY <1>1
  <2>3. PICK w \in 1..3 : text[d + 4 - w] # Continuation
    <3>1. text[d + 4] = Continuation
      BY <2>1
    <3>2. QED
      BY <2>2, <3>1, LegibleAt
  <2>4. 4 - w \in 1..4 /\ d + 4 - w = d + (4 - w)
    BY <1>1
  <2>5. QED
    BY <2>1, <2>3, <2>4
<1>4. \E k \in 0..Len(b) : P(k)
  <2>1. CASE n = 0 \/ b[1] # Continuation
    <3>1. 0 \in 0..Len(b) /\ P(0)
      BY <1>1, <1>2, <2>1
    <3>2. QED
      BY <3>1
  <2>3. CASE n > 0 /\ b[1] = Continuation /\ (n > 1 => b[2] # Continuation)
    <3>1. 1 \in 0..Len(b) /\ P(1)
      BY <1>2, <2>3
    <3>2. QED
      BY <3>1
  <2>4. CASE n > 1 /\ b[1] = Continuation /\ b[2] = Continuation /\ (n > 2 => b[3] # Continuation)
    <3>1. 2 \in 0..Len(b) /\ P(2)
      BY <1>2, <2>4
    <3>2. QED
      BY <3>1
  <2>5. CASE n > 2 /\ \A i \in 1..3 : b[i] = Continuation
    <3>1. n > 3 => b[4] # Continuation
      BY <1>3, <2>5
    <3>2. 3 \in 0..Len(b) /\ P(3)
      BY <1>2, <2>5, <3>1
    <3>3. QED
      BY <3>2
  <2>6. QED
    BY <1>1, <2>1, <2>3, <2>4, <2>5
<1>5. Stray(b) = CHOOSE k \in 0..Len(b) : P(k)
  BY DEF Stray
<1>6. Stray(b) \in 0..Len(b) /\ P(Stray(b))
  <2> HIDE DEF P
  <2>1. QED
    BY <1>4, <1>5
<1>7. Stray(b) <= 3
  BY <1>2, <1>3, <1>6
<1>8. QED
  BY <1>2, <1>6, <1>7 DEF MaxWidth

LEMMA DecodeFacts ==
  ASSUME NEW text, Legible(text), NEW n \in 0..Len(text)
  PROVE  LET b == LastBytes(text, n)
             j == Stray(b)
         IN  /\ Decode(b) \in Seq(Int)
             /\ Len(Decode(b)) = n + 2 * j
             /\ \A i \in 1..n + 2 * j :
                  Decode(b)[i] = IF i <= 3 * j THEN ReplacementByte(i)
                                 ELSE text[Len(text) - (n + 2 * j) + i]
<1> DEFINE b == LastBytes(text, n)
           j == Stray(b)
           r == Replacements(j)
           e == LastBytes(b, n - j)
<1>1. text \in Seq(Int) /\ Len(text) \in Nat /\ n \in Nat
  BY DEF Legible
<1>2. j \in Nat /\ j <= n
  BY StrayFacts DEF MaxWidth
<1>3. b \in Seq(Int) /\ Len(b) = n /\ \A i \in 1..n : b[i] = text[Len(text) - n + i]
  BY <1>1, LastBytesFacts
<1>4. r \in Seq(Int) /\ Len(r) = 3 * j /\ \A i \in 1..3 * j : r[i] = ReplacementByte(i)
  BY <1>2, ReplacementsFacts
<1>5. e \in Seq(Int) /\ Len(e) = n - j /\ \A i \in 1..n - j : e[i] = b[j + i]
  <2> HIDE DEF j, b
  <2>1. n - j \in 0..Len(b)
    BY <1>1, <1>2, <1>3
  <2>2. /\ e \in Seq(Int) /\ Len(e) = n - j
        /\ \A i \in 1..n - j : e[i] = b[Len(b) - (n - j) + i]
    BY <1>3, <2>1, LastBytesFacts
  <2>3. \A i \in 1..n - j : Len(b) - (n - j) + i = j + i
    BY <1>1, <1>2, <1>3
  <2>4. QED
    BY <2>2, <2>3
<1>6. Decode(b) = r \o e
  BY <1>3 DEF Decode
<1> HIDE DEF b, j, r, e
<1>7. /\ r \o e \in Seq(Int)
      /\ Len(r \o e) = 3 * j + (n - j)
      /\ \A i \in 1..3 * j + (n - j) :
           (r \o e)[i] = IF i <= 3 * j THEN r[i] ELSE e[i - 3 * j]
  <2>1. /\ r \o e \in Seq(Int)
        /\ Len(r \o e) = Len(r) + Len(e)
        /\ \A i \in 1..Len(r) + Len(e) :
             (r \o e)[i] = IF i <= Len(r) THEN r[i] ELSE e[i - Len(r)]
    BY <1>4, <1>5, ConcatProperties, Zenon
  <2>2. QED
    BY <1>4, <1>5, <2>1
<1>8. ASSUME NEW i \in 1..n + 2 * j
      PROVE  (r \o e)[i] = IF i <= 3 * j THEN ReplacementByte(i)
                           ELSE text[Len(text) - (n + 2 * j) + i]
  <2>1. CASE i <= 3 * j
    BY <1>1, <1>2, <1>4, <1>7, <2>1
  <2>2. CASE i > 3 * j
    <3>1. i - 3 * j \in 1..n - j /\ j + (i - 3 * j) \in 1..n
      BY <1>1, <1>2, <2>2
    <3>2. i \in 1..3 * j + (n - j) /\ ~(i <= 3 * j)
      BY <1>1, <1>2, <2>2
    <3>3. (r \o e)[i] = e[i - 3 * j]
      BY <1>7, <3>2
    <3>4. e[i - 3 * j] = b[j + (i - 3 * j)]
      BY <1>5, <3>1
    <3>5. b[j + (i - 3 * j)] = text[Len(text) - n + (j + (i - 3 * j))]
      BY <1>3, <3>1
    <3>6. Len(text) - n + (j + (i - 3 * j)) = Len(text) - (n + 2 * j) + i
      BY <1>1, <1>2, <2>2
    <3>7. QED
      BY <3>2, <3>3, <3>4, <3>5, <3>6
  <2>3. i <= 3 * j \/ i > 3 * j
    BY <1>2
  <2>4. QED
    BY <2>1, <2>2, <2>3
<1>9. QED
  BY <1>1, <1>2, <1>6, <1>7, <1>8 DEF b, j

-----------------------------------------------------------------------------
LEMMA LegibleConcat ==
  ASSUME NEW s, NEW t, Legible(s), Legible(t)
  PROVE  Legible(s \o t)
<1>1. s \in Seq(Int) /\ t \in Seq(Int) /\ Len(s) \in Nat /\ Len(t) \in Nat
  BY DEF Legible
<1>2. /\ s \o t \in Seq(Int)
      /\ Len(s \o t) = Len(s) + Len(t)
      /\ \A i \in 1..Len(s) + Len(t) : (s \o t)[i] = IF i <= Len(s) THEN s[i] ELSE t[i - Len(s)]
  BY <1>1, ConcatProperties, Zenon
<1> DEFINE u == s \o t
<1> HIDE DEF u
<1>3. ASSUME NEW i \in 1..Len(s) + Len(t), u[i] = Continuation
      PROVE  \E w \in 1..MaxWidth - 1 : w < i /\ u[i - w] # Continuation
  <2>1. CASE i <= Len(s)
    <3>1. i \in DOMAIN s /\ s[i] = Continuation
      BY <1>1, <1>2, <1>3, <2>1 DEF u
    <3>2. PICK w \in 1..MaxWidth - 1 : w < i /\ s[i - w] # Continuation
      BY <3>1 DEF Legible
    <3>3. u[i - w] = s[i - w]
      BY <1>1, <1>2, <2>1, <3>2 DEF u, MaxWidth
    <3>4. QED
      BY <3>2, <3>3
  <2>2. CASE i > Len(s)
    <3> DEFINE m == i - Len(s)
    <3>1. m \in DOMAIN t /\ t[m] = Continuation
      BY <1>1, <1>2, <1>3, <2>2 DEF u
    <3>2. PICK w \in 1..MaxWidth - 1 : w < m /\ t[m - w] # Continuation
      <4> HIDE DEF m
      <4>1. QED
        BY <3>1 DEF Legible
    <3>3. /\ w < i /\ i - w \in 1..Len(s) + Len(t) /\ ~(i - w <= Len(s))
          /\ i - w - Len(s) = m - w
      BY <1>1, <2>2, <3>2 DEF MaxWidth
    <3>4. u[i - w] = t[m - w]
      <4> HIDE DEF m
      <4>1. QED
        BY <1>2, <3>3 DEF u
    <3>5. QED
      BY <3>2, <3>3, <3>4
  <2>3. QED
    BY <1>1, <2>1, <2>2
<1>4. u \in Seq(Int) /\ DOMAIN u = 1..Len(s) + Len(t)
  BY <1>1, <1>2 DEF u
<1>5. Legible(u)
  BY <1>3, <1>4 DEF Legible
<1>6. QED
  BY <1>5 DEF u

\* What is decoded is legible: the tail begins with the lead byte of a
\* character.
LEMMA LegibleDecoded ==
  ASSUME NEW text, Legible(text), NEW n \in 0..Len(text)
  PROVE  Legible(Decode(LastBytes(text, n)))
<1> DEFINE j == Stray(LastBytes(text, n))
           e == Decode(LastBytes(text, n))
           d == Len(text) - (n + 2 * j)
<1>1. text \in Seq(Int) /\ Len(text) \in Nat /\ n \in Nat
  BY DEF Legible
<1>2. j \in 0..3 /\ j <= n
  BY StrayFacts DEF MaxWidth
<1>3. j < n => text[d + 3 * j + 1] # Continuation
  <2> SUFFICES ASSUME j < n PROVE text[d + 3 * j + 1] # Continuation
    OBVIOUS
  <2>1. LastBytes(text, n)[j + 1] # Continuation
    BY StrayFacts
  <2>2. LastBytes(text, n)[j + 1] = text[Len(text) - n + (j + 1)]
    <3>1. j + 1 \in 1..n
      BY <1>1, <1>2
    <3> HIDE DEF j
    <3>2. QED
      BY <1>1, <3>1, LastBytesFacts
  <2>3. Len(text) - n + (j + 1) = d + 3 * j + 1
    BY <1>1, <1>2
  <2>4. QED
    BY <2>1, <2>2, <2>3
<1>4. /\ e \in Seq(Int)
      /\ Len(e) = n + 2 * j
      /\ \A i \in 1..n + 2 * j :
           e[i] = IF i <= 3 * j THEN ReplacementByte(i) ELSE text[d + i]
  BY DecodeFacts
<1> HIDE DEF j, e
<1>5. d \in Int /\ d + n + 2 * j = Len(text) /\ d + 3 * j >= 0
  BY <1>1, <1>2
<1> HIDE DEF d
<1>6. ASSUME NEW i \in 1..n + 2 * j, e[i] = Continuation
      PROVE  \E w \in 1..3 : w < i /\ e[i - w] # Continuation
  <2>1. CASE i <= 3 * j
    <3>1. ReplacementByte(i) = Continuation
      BY <1>4, <1>6, <2>1
    <3>2. \/ i % 3 = 2 /\ (i - 1) % 3 = 1 /\ i - 1 >= 1
          \/ i % 3 = 0 /\ (i - 2) % 3 = 1 /\ i - 2 >= 1
      BY <3>1 DEF ReplacementByte, Continuation
    <3>3. PICK w \in 1..2 : w < i /\ (i - w) % 3 = 1
      BY <3>2
    <3>4. i - w \in 1..n + 2 * j /\ i - w <= 3 * j
      BY <1>1, <1>2, <2>1, <3>3
    <3>5. e[i - w] = ReplacementByte(i - w)
      BY <1>4, <3>4
    <3>6. e[i - w] # Continuation
      BY <3>3, <3>5 DEF ReplacementByte, Continuation
    <3>7. QED
      BY <3>3, <3>6
  <2>2. CASE i > 3 * j
    <3>1. e[i] = text[d + i] /\ d + i \in DOMAIN text
      BY <1>1, <1>2, <1>4, <1>5, <2>2
    <3> DEFINE m == d + i
    <3>2. m \in DOMAIN text /\ text[m] = Continuation
      BY <1>6, <3>1
    <3> HIDE DEF m
    <3>3. PICK w \in 1..3 : w < m /\ text[m - w] # Continuation
      BY <3>2, LegibleAt
    <3>4. CASE i - w > 3 * j
      <4>1. i - w \in 1..n + 2 * j /\ d + (i - w) = m - w
        BY <1>1, <1>2, <1>5, <3>4 DEF m
      <4>2. e[i - w] = text[d + (i - w)]
        BY <1>2, <1>4, <3>4, <4>1
      <4>3. QED
        BY <1>2, <3>3, <3>4, <4>1, <4>2
    <3>5. CASE i - w <= 3 * j
      <4> DEFINE v == i - (3 * j + 1)
      <4>1. j < n /\ text[d + 3 * j + 1] # Continuation
        BY <1>1, <1>2, <1>3, <2>2
      <4>2. i # 3 * j + 1
        <5> SUFFICES ASSUME i = 3 * j + 1 PROVE FALSE
          OBVIOUS
        <5>1. m = d + 3 * j + 1
          BY <1>2, <1>5 DEF m
        <5>2. QED
          BY <3>2, <4>1, <5>1
      <4>3. v \in 1..3 /\ v < i
        BY <1>2, <2>2, <3>5, <4>2
      <4>4. /\ i - v = 3 * j + 1 /\ i - v \in 1..n + 2 * j /\ ~(i - v <= 3 * j)
            /\ d + (i - v) = d + 3 * j + 1
        BY <1>1, <1>2, <1>5, <2>2
      <4> HIDE DEF v
      <4>5. e[i - v] = text[d + (i - v)]
        BY <1>4, <4>4
      <4>6. QED
        BY <4>1, <4>3, <4>4, <4>5
    <3>6. QED
      BY <1>2, <3>4, <3>5
  <2>3. QED
    BY <1>2, <2>1, <2>2
<1>7. e \in Seq(Int) /\ DOMAIN e = 1..n + 2 * j /\ MaxWidth - 1 = 3
  BY <1>1, <1>2, <1>4 DEF MaxWidth
<1>8. Legible(e)
  BY <1>6, <1>7 DEF Legible
<1>9. QED
  BY <1>8 DEF e

LEMMA EndsConcat ==
  ASSUME NEW b \in Seq(Int), NEW text \in Seq(Int), NEW c \in Seq(Int), NEW k, Ends(b, text, k)
  PROVE  Ends(b \o c, text \o c, k)
<1>1. /\ b \o c \in Seq(Int)
      /\ Len(b \o c) = Len(b) + Len(c)
      /\ \A i \in 1..Len(b) + Len(c) : (b \o c)[i] = IF i <= Len(b) THEN b[i] ELSE c[i - Len(b)]
  BY ConcatProperties, Zenon
<1>2. /\ text \o c \in Seq(Int)
      /\ Len(text \o c) = Len(text) + Len(c)
      /\ \A i \in 1..Len(text) + Len(c) :
           (text \o c)[i] = IF i <= Len(text) THEN text[i] ELSE c[i - Len(text)]
  BY ConcatProperties, Zenon
<1> DEFINE bc == b \o c
           tc == text \o c
<1> HIDE DEF bc, tc
<1>3. /\ k \in Nat /\ 3 * k <= Len(b) /\ Len(b) - 3 * k <= Len(text)
      /\ Len(b) \in Nat /\ Len(text) \in Nat /\ Len(c) \in Nat
  BY DEF Ends
<1>4. ASSUME NEW i \in 1..Len(bc)
      PROVE  bc[i] = IF i <= 3 * k THEN ReplacementByte(i) ELSE tc[Len(tc) - Len(bc) + i]
  <2>1. CASE i <= Len(b)
    <3>1. bc[i] = b[i] /\ i \in 1..Len(b)
      BY <1>1, <1>3, <1>4, <2>1 DEF bc
    <3>2. b[i] = IF i <= 3 * k THEN ReplacementByte(i) ELSE text[Len(text) - Len(b) + i]
      BY <3>1 DEF Ends
    <3>3. CASE i <= 3 * k
      BY <3>1, <3>2, <3>3
    <3>4. CASE ~(i <= 3 * k)
      <4>1. /\ Len(tc) - Len(bc) + i = Len(text) - Len(b) + i
            /\ Len(text) - Len(b) + i \in 1..Len(text) + Len(c)
            /\ Len(text) - Len(b) + i <= Len(text)
        BY <1>1, <1>2, <1>3, <2>1, <3>1, <3>4 DEF bc, tc
      <4>2. tc[Len(text) - Len(b) + i] = text[Len(text) - Len(b) + i]
        BY <1>2, <4>1 DEF tc
      <4>3. QED
        BY <3>1, <3>2, <3>4, <4>1, <4>2
    <3>5. QED
      BY <3>3, <3>4
  <2>2. CASE i > Len(b)
    <3>1. bc[i] = c[i - Len(b)] /\ ~(i <= 3 * k)
      BY <1>1, <1>3, <1>4, <2>2 DEF bc
    <3> DEFINE m == Len(tc) - Len(bc) + i
    <3>2. m \in 1..Len(text) + Len(c) /\ ~(m <= Len(text)) /\ m - Len(text) = i - Len(b)
      BY <1>1, <1>2, <1>3, <1>4, <2>2 DEF bc, tc
    <3> HIDE DEF m
    <3>3. tc[m] = c[m - Len(text)]
      BY <1>2, <3>2 DEF tc
    <3>4. QED
      BY <3>1, <3>2, <3>3 DEF m
  <2>3. QED
    BY <1>1, <1>3, <1>4, <2>1, <2>2 DEF bc
<1>5. 3 * k <= Len(bc) /\ Len(bc) - 3 * k <= Len(tc)
  BY <1>1, <1>2, <1>3 DEF bc, tc
<1>6. QED
  BY <1>3, <1>4, <1>5 DEF Ends, bc, tc

\* Cutting the buffer keeps the end of the text: the cut falls into the text,
\* or between two of the replacement characters.
LEMMA EndsDecoded ==
  ASSUME NEW b, Legible(b), NEW text \in Seq(Int), NEW k, Ends(b, text, k),
         NEW n \in 0..Len(b)
  PROVE  \E l \in Nat : Ends(Decode(LastBytes(b, n)), text, l)
<1> DEFINE j == Stray(LastBytes(b, n))
           e == Decode(LastBytes(b, n))
           d == Len(b) - (n + 2 * j)
<1>1. b \in Seq(Int) /\ Len(b) \in Nat /\ Len(text) \in Nat /\ n \in Nat
  BY DEF Legible
<1>2. j \in 0..3 /\ j <= n
  BY StrayFacts DEF MaxWidth
<1>3. j < n => b[d + 3 * j + 1] # Continuation
  <2> SUFFICES ASSUME j < n PROVE b[d + 3 * j + 1] # Continuation
    OBVIOUS
  <2>1. LastBytes(b, n)[j + 1] # Continuation
    BY StrayFacts
  <2>2. LastBytes(b, n)[j + 1] = b[Len(b) - n + (j + 1)]
    <3>1. j + 1 \in 1..n
      BY <1>1, <1>2
    <3> HIDE DEF j
    <3>2. QED
      BY <1>1, <3>1, LastBytesFacts
  <2>3. Len(b) - n + (j + 1) = d + 3 * j + 1
    BY <1>1, <1>2
  <2>4. QED
    BY <2>1, <2>2, <2>3
<1>4. /\ e \in Seq(Int)
      /\ Len(e) = n + 2 * j
      /\ \A i \in 1..n + 2 * j :
           e[i] = IF i <= 3 * j THEN ReplacementByte(i) ELSE b[d + i]
  BY DecodeFacts
<1>5. /\ k \in Nat /\ 3 * k <= Len(b) /\ Len(b) - 3 * k <= Len(text)
      /\ \A i \in 1..Len(b) :
           b[i] = IF i <= 3 * k THEN ReplacementByte(i) ELSE text[Len(text) - Len(b) + i]
  BY DEF Ends
<1> HIDE DEF j, e
<1>6. d \in Int /\ d + n + 2 * j = Len(b) /\ d + 3 * j >= 0 /\ d + n + 2 * j >= 0
  BY <1>1, <1>2
<1> HIDE DEF d
<1>7. /\ Len(e) = n + 2 * j /\ k \in Nat
      /\ 3 * k <= Len(b) /\ Len(b) - 3 * k <= Len(text)
  BY <1>4, <1>5
<1>8. Len(e) \in Nat /\ d + Len(e) = Len(b)
  BY <1>1, <1>2, <1>6, <1>7
<1>9. \A i \in Nat : Len(text) - Len(b) + (d + i) = Len(text) - Len(e) + i
  BY <1>1, <1>6, <1>8
<1>10. CASE n - j <= Len(b) - 3 * k
  <2>1. ASSUME NEW i \in 1..Len(e)
        PROVE  e[i] = IF i <= 3 * j THEN ReplacementByte(i) ELSE text[Len(text) - Len(e) + i]
    <3>1. CASE i <= 3 * j
      BY <1>4, <2>1, <3>1
    <3>2. CASE ~(i <= 3 * j)
      <4>1. /\ d + i \in 1..Len(b) /\ ~(d + i <= 3 * k)
            /\ Len(text) - Len(b) + (d + i) = Len(text) - Len(e) + i
        <5>1. i \in 1..n + 2 * j /\ i > 3 * j
          BY <1>2, <1>7, <2>1, <3>2
        <5>2. d + i \in 1..Len(b)
          BY <1>1, <1>2, <1>6, <5>1
        <5>3. ~(d + i <= 3 * k)
          BY <1>1, <1>2, <1>6, <1>7, <1>10, <5>1
        <5>4. QED
          BY <1>1, <1>9, <5>1, <5>2, <5>3
      <4>2. e[i] = b[d + i]
        BY <1>4, <2>1, <3>2
      <4>3. b[d + i] = text[Len(text) - Len(b) + (d + i)]
        BY <1>5, <4>1
      <4>4. QED
        BY <3>2, <4>1, <4>2, <4>3
    <3>3. QED
      BY <3>1, <3>2
  <2>2. j \in Nat /\ 3 * j <= Len(e) /\ Len(e) - 3 * j <= Len(text)
    BY <1>1, <1>2, <1>7, <1>10
  <2>3. Ends(e, text, j)
    BY <2>1, <2>2 DEF Ends
  <2>4. QED
    BY <2>2, <2>3 DEF e
<1>11. CASE n - j > Len(b) - 3 * k
  <2>1. j < n /\ d + 3 * j + 1 \in 1..Len(b) /\ d + 3 * j + 1 <= 3 * k
    BY <1>1, <1>2, <1>6, <1>7, <1>11
  <2>2. ReplacementByte(d + 3 * j + 1) # Continuation
    BY <1>3, <1>5, <2>1
  <2>3. (d + 3 * j + 1) % 3 = 1
    BY <2>2 DEF ReplacementByte
  <2>4. PICK q \in Nat : d + 3 * j = 3 * q
    <3>1. (d + 3 * j) \div 3 \in Nat /\ d + 3 * j = 3 * ((d + 3 * j) \div 3)
      BY <1>2, <1>6, <2>3
    <3>2. QED
      BY <3>1
  <2> DEFINE l == j + (k - q)
  <2>5. /\ l \in Nat /\ l >= j /\ 3 * l = 3 * k - d
        /\ 3 * l <= Len(e) /\ Len(e) - 3 * l <= Len(text)
    BY <1>1, <1>2, <1>6, <1>7, <2>1, <2>4
  <2> HIDE DEF l
  <2>6. ASSUME NEW i \in 1..Len(e)
        PROVE  e[i] = IF i <= 3 * l THEN ReplacementByte(i) ELSE text[Len(text) - Len(e) + i]
    <3>1. CASE i <= 3 * j
      <4>1. i <= 3 * l
        BY <1>2, <2>5, <3>1
      <4>2. QED
        BY <1>4, <2>6, <3>1, <4>1
    <3>2. CASE ~(i <= 3 * j)
      <4>1. e[i] = b[d + i] /\ d + i \in 1..Len(b)
        <5>1. i \in 1..n + 2 * j /\ d + i \in 1..Len(b)
          BY <1>1, <1>2, <1>6, <1>7, <2>6, <3>2
        <5>2. QED
          BY <1>4, <3>2, <5>1
      <4>2. CASE i <= 3 * l
        <5>1. d + i <= 3 * k
          BY <1>5, <1>6, <2>5, <4>2
        <5>2. b[d + i] = ReplacementByte(d + i)
          BY <1>5, <4>1, <5>1
        <5>3. (d + i) % 3 = i % 3
          BY <1>2, <2>4, <1>6
        <5>4. QED
          BY <4>1, <4>2, <5>2, <5>3 DEF ReplacementByte
      <4>3. CASE ~(i <= 3 * l)
        <5>1. ~(d + i <= 3 * k) /\ Len(text) - Len(b) + (d + i) = Len(text) - Len(e) + i
          <6>1. i \in Nat
            BY <2>6
          <6>2. QED
            BY <1>6, <1>7, <1>9, <2>5, <4>3, <6>1
        <5>2. b[d + i] = text[Len(text) - Len(b) + (d + i)]
          BY <1>5, <4>1, <5>1
        <5>3. QED
          BY <4>1, <4>3, <5>1, <5>2
      <4>4. QED
        BY <4>2, <4>3
    <3>3. QED
      BY <3>1, <3>2
  <2>7. Ends(e, text, l)
    BY <2>5, <2>6 DEF Ends
  <2>8. QED
    BY <2>5, <2>7 DEF e
<1>12. QED
  BY <1>1, <1>2, <1>7, <1>10, <1>11

\* Byte by byte or as a whole: replacement characters, then the last bytes.
LEMMA EndsIsConcat ==
  ASSUME NEW b \in Seq(Int), NEW text \in Seq(Int), NEW k, Ends(b, text, k)
  PROVE  /\ k \in 0..Len(b) \div 3
         /\ b = Replacements(k) \o LastBytes(text, Len(b) - 3 * k)
<1> DEFINE n == Len(b) - 3 * k
           r == Replacements(k)
           l == LastBytes(text, n)
<1>1. /\ k \in Nat /\ 3 * k <= Len(b) /\ n \in 0..Len(text)
      /\ Len(b) \in Nat /\ Len(text) \in Nat
  BY DEF Ends
<1>2. r \in Seq(Int) /\ Len(r) = 3 * k /\ \A i \in 1..3 * k : r[i] = ReplacementByte(i)
  BY <1>1, ReplacementsFacts
<1>3. l \in Seq(Int) /\ Len(l) = n /\ \A i \in 1..n : l[i] = text[Len(text) - n + i]
  <2> HIDE DEF n
  <2>1. QED
    BY <1>1, LastBytesFacts
<1> HIDE DEF r, l
<1>4. /\ r \o l \in Seq(Int)
      /\ Len(r \o l) = Len(r) + Len(l)
      /\ \A i \in 1..Len(r) + Len(l) : (r \o l)[i] = IF i <= Len(r) THEN r[i] ELSE l[i - Len(r)]
  BY <1>2, <1>3, ConcatProperties, Zenon
<1>5. Len(r) + Len(l) = Len(b)
  BY <1>1, <1>2, <1>3
<1>6. ASSUME NEW i \in 1..Len(b) PROVE b[i] = (r \o l)[i]
  <2>1. b[i] = IF i <= 3 * k THEN ReplacementByte(i) ELSE text[Len(text) - Len(b) + i]
    BY DEF Ends
  <2>2. CASE i <= 3 * k
    BY <1>1, <1>2, <1>4, <1>5, <2>1, <2>2
  <2>3. CASE ~(i <= 3 * k)
    <3> DEFINE m == i - 3 * k
    <3>1. m \in 1..n /\ Len(text) - n + m = Len(text) - Len(b) + i
      BY <1>1, <2>3
    <3>2. (r \o l)[i] = l[m]
      BY <1>2, <1>4, <1>5, <2>3
    <3> HIDE DEF m
    <3>3. l[m] = text[Len(text) - n + m]
      BY <1>3, <3>1
    <3>4. QED
      BY <2>1, <2>3, <3>1, <3>2, <3>3
  <2>4. QED
    BY <2>2, <2>3
<1>7. b = r \o l
  <2>1. Len(b) = Len(r \o l)
    BY <1>4, <1>5
  <2>2. QED
    BY <1>4, <1>6, <2>1, SeqEqual, Zenon
<1>8. k \in 0..Len(b) \div 3
  BY <1>1
<1>9. QED
  BY <1>7, <1>8 DEF r, l

\* Appending: the buffer stays legible and the end of what was appended, it
\* loses nothing as long as the limit allows, and its bound is kept.
THEOREM AppendKeepsTail ==
  ASSUME NEW b, NEW text, NEW c, Legible(b), Legible(text), Legible(c),
         NEW k, Ends(b, text, k), NEW most \in Nat \cup {NoLimit}
  PROVE  /\ Legible(AppendOutput(b, c, most)) /\ Legible(text \o c)
         /\ \E l \in Nat : Ends(AppendOutput(b, c, most), text \o c, l)
         /\ ~Exceeds(b \o c, most) => AppendOutput(b, c, most) = b \o c
         /\ most # NoLimit => Len(AppendOutput(b, c, most)) <= most + 2 * (MaxWidth - 1)
<1> DEFINE bc == b \o c
           tc == text \o c
           a == AppendOutput(b, c, most)
<1>1. Legible(bc) /\ Legible(tc)
  BY LegibleConcat
<1>2. Ends(bc, tc, k)
  BY EndsConcat DEF Legible
<1>3. bc \in Seq(Int) /\ tc \in Seq(Int) /\ Len(bc) \in Nat /\ k \in Nat
  BY <1>1, <1>2 DEF Legible, Ends
<1>4. a = Truncate(bc, most)
  BY DEF AppendOutput
<1> HIDE DEF bc, tc, a
<1>5. CASE ~Exceeds(bc, most)
  <2>1. a = bc
    BY <1>4, <1>5 DEF Truncate
  <2>2. most # NoLimit => Len(a) <= most + 2 * (MaxWidth - 1)
    BY <1>3, <1>5, <2>1 DEF Exceeds, MaxWidth
  <2>3. QED
    BY <1>1, <1>2, <1>3, <2>1, <2>2 DEF a, bc, tc
<1>6. CASE Exceeds(bc, most)
  <2>1. most \in 0..Len(bc)
    BY <1>3, <1>6 DEF Exceeds
  <2>2. a = Decode(LastBytes(bc, most))
    BY <1>4, <1>6 DEF Truncate
  <2>3. Legible(a) /\ \E l \in Nat : Ends(a, tc, l)
    BY <1>1, <1>2, <1>3, <2>1, <2>2, LegibleDecoded, EndsDecoded
  <2>4. Len(a) = most + 2 * Stray(LastBytes(bc, most))
    BY <1>1, <2>1, <2>2, DecodeFacts
  <2>5. Stray(LastBytes(bc, most)) \in 0..3
    BY <1>1, <2>1, StrayFacts DEF MaxWidth
  <2>6. Len(a) <= most + 2 * (MaxWidth - 1)
    BY <2>1, <2>4, <2>5 DEF MaxWidth
  <2>7. QED
    BY <1>1, <1>6, <2>3, <2>6 DEF a, bc, tc
<1>7. QED
  BY <1>5, <1>6

-----------------------------------------------------------------------------
(* Processes and their exit status *)

\* What an exit status may be while its process is in a given state.
StatusFollowsProcess ==
  \A t \in Terminals :
    \/ /\ process[t] \in {"none", "running", "exited", "failed"}
       /\ exitPromise[t] = "none" /\ exitResult[t] = "none"
    \/ /\ process[t] = "errored"
       /\ exitPromise[t] = "error" /\ exitResult[t] = "error"
    \/ /\ process[t] = "closed"
       /\ exitPromise[t] \in {"exit", "error"} /\ exitResult[t] = "exit"

\* The processes, signals and promises keep their types; a waitForExit is
\* answered once (create, kill, release, waitForExit).
THEOREM ProcessTypes == Spec => []ProcessTypeOK
<1>1. Init => ProcessTypeOK
  <2> SUFFICES ASSUME Init PROVE ProcessTypeOK
    OBVIOUS
  <2>1. waits \in [Terminals -> 0..MaxWaits]
    BY MaxWaitsAssumption DEF Init
  <2>2. cleaned \in BOOLEAN
    BY DEF Init
  <2>3. QED
    BY <2>1, <2>2 DEF Init, ProcessTypeOK, ProcessState, Results
<1>2. ProcessTypeOK /\ [Next]_vars => ProcessTypeOK'
  <2> SUFFICES ASSUME ProcessTypeOK, [Next]_vars PROVE ProcessTypeOK'
    OBVIOUS
  <2> USE DEF ProcessTypeOK
  <2>1. ASSUME NEW t \in Terminals, Create(t) PROVE ProcessTypeOK'
    BY <2>1 DEF Create, ProcessState, exitVars
  <2>2. ASSUME NEW t \in Terminals, WaitForExit(t) PROVE ProcessTypeOK'
    BY <2>2, MaxWaitsAssumption DEF WaitForExit, mapVars, exitVars
  <2>3. ASSUME NEW t \in Terminals, WaitReturns(t) PROVE ProcessTypeOK'
    BY <2>3, MaxWaitsAssumption DEF WaitReturns, mapVars, exitVars
  <2>4. ASSUME NEW t \in Terminals, Kill(t) PROVE ProcessTypeOK'
    BY <2>4 DEF Kill, Signal, mapVars, exitVars
  <2>5. ASSUME NEW t \in Terminals, ReleaseTerminal(t) PROVE ProcessTypeOK'
    BY <2>5 DEF ReleaseTerminal, Release, Signal, exitVars
  <2>6. ASSUME NEW t \in Terminals, NEW c \in Chunks, Data(t, c) PROVE ProcessTypeOK'
    BY <2>6 DEF Data, mapVars, exitVars
  <2>7. ASSUME NEW t \in Terminals, ProcessExits(t) PROVE ProcessTypeOK'
    BY <2>7 DEF ProcessExits, ProcessState, mapVars, exitVars
  <2>8. ASSUME NEW t \in Terminals, CloseEvent(t) PROVE ProcessTypeOK'
    BY <2>8 DEF CloseEvent, Resolve, ProcessState, Results, mapVars
  <2>9. ASSUME NEW t \in Terminals, ErrorEvent(t) PROVE ProcessTypeOK'
    BY <2>9 DEF ErrorEvent, FailWith, Resolve, ProcessState, Results, mapVars
  <2>10. ASSUME Cleanup PROVE ProcessTypeOK'
    BY <2>10 DEF Cleanup, Release, Signal, exitVars
  <2>11. ASSUME UNCHANGED vars PROVE ProcessTypeOK'
    BY <2>11 DEF vars, mapVars, exitVars
  <2>12. QED
    BY <2>1, <2>2, <2>3, <2>4, <2>5, <2>6, <2>7, <2>8, <2>9, <2>10, <2>11 DEF Next
<1>3. QED
  BY <1>1, <1>2, PTL DEF Spec

\* The exit status follows the state of the process: nothing before an event,
\* the first event's for the waits, the last one's for getOutput (create).
LEMMA StatusInvariant == Spec => []StatusFollowsProcess
<1>1. Init => StatusFollowsProcess
  BY DEF Init, StatusFollowsProcess
<1>2. ProcessTypeOK /\ StatusFollowsProcess /\ [Next]_vars => StatusFollowsProcess'
  <2> SUFFICES ASSUME ProcessTypeOK, StatusFollowsProcess, [Next]_vars
               PROVE  StatusFollowsProcess'
    OBVIOUS
  <2> USE DEF ProcessTypeOK, StatusFollowsProcess
  <2>1. ASSUME NEW t \in Terminals, Create(t) PROVE StatusFollowsProcess'
    BY <2>1 DEF Create, exitVars
  <2>2. ASSUME NEW t \in Terminals, ProcessExits(t) PROVE StatusFollowsProcess'
    BY <2>2 DEF ProcessExits, exitVars
  <2>3. ASSUME NEW t \in Terminals, CloseEvent(t) PROVE StatusFollowsProcess'
    BY <2>3 DEF CloseEvent, Resolve
  <2>4. ASSUME NEW t \in Terminals, ErrorEvent(t) PROVE StatusFollowsProcess'
    BY <2>4 DEF ErrorEvent, FailWith, Resolve
  <2>5. ASSUME \/ \E t \in Terminals :
                    \/ WaitForExit(t) \/ WaitReturns(t) \/ Kill(t) \/ ReleaseTerminal(t)
                    \/ \E c \in Chunks : Data(t, c)
               \/ Cleanup
               \/ UNCHANGED vars
        PROVE  StatusFollowsProcess'
    BY <2>5 DEF WaitForExit, WaitReturns, Kill, ReleaseTerminal, Data, Cleanup,
                vars, exitVars
  <2>6. QED
    BY <2>1, <2>2, <2>3, <2>4, <2>5 DEF Next
<1>3. QED
  BY <1>1, <1>2, ProcessTypes, PTL DEF Spec

\* What NoProcessLeft says of one running process.
Accounted(t) ==
  \/ signal[t] = "kill"
  \/ t \in terminals /\ (cleaned => t \in late)

\* A running process is in the map or was killed, and after the clean-up only
\* terminals created since are left (create, kill, release, releaseAll).
THEOREM NoneLeft == Spec => []NoProcessLeft
<1>1. Init => NoProcessLeft
  BY DEF Init, NoProcessLeft
<1>2. ProcessTypeOK /\ StatusFollowsProcess /\ NoProcessLeft /\ [Next]_vars
      => NoProcessLeft'
  <2> SUFFICES ASSUME ProcessTypeOK, StatusFollowsProcess, NoProcessLeft, [Next]_vars,
                      NEW u \in Terminals, process'[u] = "running"
               PROVE  Accounted(u)'
    BY DEF NoProcessLeft, Accounted
  <2> USE DEF Accounted
  <2>1. ASSUME NEW t \in Terminals, Create(t)
        PROVE Accounted(u)'
    BY <2>1 DEF Create, ProcessTypeOK, NoProcessLeft
  <2>2. ASSUME NEW t \in Terminals, Kill(t)
        PROVE Accounted(u)'
    BY <2>2 DEF Kill, Signal, ProcessTypeOK, NoProcessLeft, mapVars
  <2>3. ASSUME NEW t \in Terminals, ReleaseTerminal(t)
        PROVE Accounted(u)'
    <3>1. CASE u = t
      BY <2>3, <3>1 DEF ReleaseTerminal, Release, Signal, ProcessTypeOK, NoProcessLeft,
                        StatusFollowsProcess
    <3>2. CASE u # t
      BY <2>3, <3>2 DEF ReleaseTerminal, Release, Signal, ProcessTypeOK, NoProcessLeft
    <3>3. QED
      BY <3>1, <3>2
  <2>4. ASSUME Cleanup
        PROVE Accounted(u)'
    BY <2>4 DEF Cleanup, Release, Signal, ProcessTypeOK, NoProcessLeft, StatusFollowsProcess
  <2>5. ASSUME NEW t \in Terminals, ProcessExits(t) \/ CloseEvent(t) \/ ErrorEvent(t)
        PROVE Accounted(u)'
    BY <2>5 DEF ProcessExits, CloseEvent, ErrorEvent, ProcessTypeOK, NoProcessLeft, mapVars
  <2>6. ASSUME \/ \E t \in Terminals :
                    \/ WaitForExit(t) \/ WaitReturns(t)
                    \/ \E c \in Chunks : Data(t, c)
               \/ UNCHANGED vars
        PROVE Accounted(u)'
    BY <2>6 DEF WaitForExit, WaitReturns, Data, vars, NoProcessLeft, mapVars
  <2>7. QED
    BY <2>1, <2>2, <2>3, <2>4, <2>5, <2>6 DEF Next
<1>3. QED
  BY <1>1, <1>2, ProcessTypes, StatusInvariant, PTL DEF Spec

\* waitForExit and getOutput disagree only about a command that could not be
\* spawned and whose "close" came after its "error" (create).
THEOREM StatusesAgree == Spec => []ExitStatusAgrees
<1>1. StatusFollowsProcess => ExitStatusAgrees
  BY DEF StatusFollowsProcess, ExitStatusAgrees
<1>2. QED
  BY <1>1, StatusInvariant, PTL

-----------------------------------------------------------------------------
\* What one terminal's buffer is at any time: legible, the end of what was
\* written, all of it unless it says otherwise, and within its bound until the
\* message of a failed spawn is appended.
BufferOK(t) ==
  /\ Legible(buffer[t]) /\ Legible(written[t])
  /\ \E k \in Nat : Ends(buffer[t], written[t], k)
  /\ ~truncated[t] => buffer[t] = written[t]
  /\ limit[t] # NoLimit /\ exitPromise[t] # "error" =>
       Len(buffer[t]) <= limit[t] + 2 * (MaxWidth - 1)
  /\ process[t] = "none" => buffer[t] = <<>>

CountsOK ==
  /\ limit \in [Terminals -> Limits \cup {NoLimit}]
  /\ truncated \in [Terminals -> BOOLEAN]
  /\ chunks \in [Terminals -> 0..MaxChunks]
  /\ DOMAIN buffer = Terminals /\ DOMAIN written = Terminals
  /\ buffer = [t \in Terminals |-> buffer[t]]
  /\ written = [t \in Terminals |-> written[t]]

OutputInv == CountsOK /\ \A t \in Terminals : BufferOK(t)

LEMMA OutputInvTyped == OutputInv => OutputTypeOK
<1> SUFFICES ASSUME OutputInv PROVE OutputTypeOK
  OBVIOUS
<1>1. \A t \in Terminals : buffer[t] \in Text /\ written[t] \in Text
  BY DEF OutputInv, BufferOK, Legible, Text
<1>2. buffer \in [Terminals -> Text] /\ written \in [Terminals -> Text]
  BY <1>1 DEF OutputInv, CountsOK
<1>3. QED
  BY <1>2 DEF OutputInv, CountsOK, OutputTypeOK

LEMMA OutputInvInit == Init => OutputInv
<1> SUFFICES ASSUME Init PROVE OutputInv
  OBVIOUS
<1>1. CountsOK
  BY MaxWaitsAssumption DEF Init, CountsOK
<1>2. Legible(<<>>)
  BY DEF Legible
<1>3. Ends(<<>>, <<>>, 0)
  BY DEF Ends
<1>4. ASSUME NEW t \in Terminals PROVE BufferOK(t)
  BY <1>2, <1>3 DEF Init, BufferOK
<1>5. QED
  BY <1>1, <1>4 DEF OutputInv

\* A buffer nobody appends to.
LEMMA BufferKept ==
  ASSUME NEW t \in Terminals, BufferOK(t),
         buffer'[t] = buffer[t], written'[t] = written[t], truncated'[t] = truncated[t],
         limit'[t] = limit[t], exitPromise[t] = "error" => exitPromise'[t] = "error",
         process'[t] = "none" => process[t] = "none"
  PROVE  BufferOK(t)'
BY DEF BufferOK

LEMMA CreateKeepsOutput ==
  ASSUME OutputInv, ProcessTypeOK, NEW t \in Terminals, Create(t)
  PROVE  OutputInv'
<1>1. CountsOK'
  BY DEF OutputInv, CountsOK, Create, outputVars
<1>2. ASSUME NEW u \in Terminals PROVE BufferOK(u)'
  <2>1. CASE u = t
    <3>1. buffer[u] = <<>> /\ Len(buffer[u]) = 0
      BY <2>1 DEF OutputInv, BufferOK, Create
    <3>2. limit'[u] \in Nat \cup {NoLimit} /\ process'[u] # "none"
      BY <2>1, OutputAssumption DEF OutputInv, CountsOK, Create, ProcessTypeOK
    <3>3. Len(buffer'[u]) = 0 /\ buffer'[u] = buffer[u]
      BY <3>1 DEF Create, outputVars
    <3>4. limit'[u] # NoLimit => Len(buffer'[u]) <= limit'[u] + 2 * (MaxWidth - 1)
      BY <3>2, <3>3 DEF MaxWidth
    <3>5. written'[u] = written[u] /\ truncated'[u] = truncated[u]
      BY DEF Create, outputVars
    <3>6. QED
      BY <3>2, <3>3, <3>4, <3>5 DEF OutputInv, BufferOK
  <2>2. CASE u # t
    <3>1. /\ UNCHANGED <<buffer, written, truncated, exitPromise>>
          /\ limit'[u] = limit[u] /\ process'[u] = process[u]
      BY <2>2 DEF Create, outputVars, exitVars, OutputInv, CountsOK, ProcessTypeOK
    <3>2. QED
      BY <3>1, BufferKept DEF OutputInv
  <2>3. QED
    BY <2>1, <2>2
<1>3. QED
  BY <1>1, <1>2 DEF OutputInv

LEMMA DataKeepsOutput ==
  ASSUME OutputInv, ProcessTypeOK, NEW t \in Terminals, NEW c \in Chunks, Data(t, c)
  PROVE  OutputInv'
<1>1. CountsOK'
  <2>1. chunks[t] + 1 \in 0..MaxChunks
    BY MaxWaitsAssumption DEF OutputInv, CountsOK, Data
  <2>2. QED
    BY <2>1 DEF OutputInv, CountsOK, Data, Exceeds, mapVars
<1>2. /\ buffer'[t] = AppendOutput(buffer[t], c, limit[t])
      /\ written'[t] = written[t] \o c
      /\ truncated'[t] = (truncated[t] \/ Exceeds(buffer[t] \o c, limit[t]))
      /\ limit' = limit /\ process' = process
  BY DEF OutputInv, CountsOK, Data, mapVars
<1>3. ASSUME NEW u \in Terminals PROVE BufferOK(u)'
  <2>1. CASE u = t
    <3>1. PICK k \in Nat : Ends(buffer[t], written[t], k)
      BY DEF OutputInv, BufferOK
    <3>2. Legible(buffer[t]) /\ Legible(written[t]) /\ Legible(c)
      BY OutputAssumption DEF OutputInv, BufferOK
    <3>3. limit[t] \in Nat \cup {NoLimit}
      BY OutputAssumption DEF OutputInv, CountsOK
    <3>4. /\ Legible(buffer'[t]) /\ Legible(written'[t])
          /\ \E l \in Nat : Ends(buffer'[t], written'[t], l)
          /\ ~Exceeds(buffer[t] \o c, limit[t]) => buffer'[t] = buffer[t] \o c
          /\ limit[t] # NoLimit => Len(buffer'[t]) <= limit[t] + 2 * (MaxWidth - 1)
      <4> DEFINE b == buffer[t]
                 text == written[t]
                 lim == limit[t]
      <4>1. Legible(b) /\ Legible(text) /\ Legible(c) /\ Ends(b, text, k)
            /\ lim \in Nat \cup {NoLimit}
        BY <3>1, <3>2, <3>3
      <4>2. /\ buffer'[t] = AppendOutput(b, c, lim) /\ written'[t] = text \o c
            /\ buffer[t] \o c = b \o c /\ limit[t] = lim
        BY <1>2
      <4> HIDE DEF b, text, lim
      <4>3. /\ Legible(AppendOutput(b, c, lim)) /\ Legible(text \o c)
            /\ \E l \in Nat : Ends(AppendOutput(b, c, lim), text \o c, l)
            /\ ~Exceeds(b \o c, lim) => AppendOutput(b, c, lim) = b \o c
            /\ lim # NoLimit => Len(AppendOutput(b, c, lim)) <= lim + 2 * (MaxWidth - 1)
        BY <4>1, AppendKeepsTail
      <4>4. QED
        BY <4>2, <4>3
    <3>5. ~truncated'[t] => buffer'[t] = written'[t]
      BY <1>2, <3>4 DEF OutputInv, BufferOK
    <3>6. process'[t] # "none"
      BY <1>2 DEF Data
    <3>7. QED
      BY <1>2, <2>1, <3>4, <3>5, <3>6 DEF BufferOK
  <2>2. CASE u # t
    <3>1. /\ buffer'[u] = buffer[u] /\ written'[u] = written[u]
          /\ truncated'[u] = truncated[u]
          /\ UNCHANGED <<limit, exitPromise, process>>
      BY <2>2 DEF Data, mapVars, exitVars, OutputInv, CountsOK
    <3>2. QED
      BY <3>1, BufferKept DEF OutputInv
  <2>3. QED
    BY <2>1, <2>2
<1>4. QED
  BY <1>1, <1>3 DEF OutputInv

LEMMA ErrorKeepsOutput ==
  ASSUME OutputInv, ProcessTypeOK, StatusFollowsProcess, NEW t \in Terminals, ErrorEvent(t)
  PROVE  OutputInv'
<1>1. CountsOK'
  BY DEF OutputInv, CountsOK, ErrorEvent, mapVars
<1>2. /\ buffer'[t] = buffer[t] \o ErrorText
      /\ written'[t] = written[t] \o ErrorText
      /\ UNCHANGED <<truncated, limit>>
      /\ process'[t] = "errored"
  BY DEF OutputInv, CountsOK, ErrorEvent, mapVars, ProcessTypeOK
<1>3. exitPromise'[t] = "error"
  BY DEF ErrorEvent, FailWith, Resolve, StatusFollowsProcess, ProcessTypeOK
<1>4. ASSUME NEW u \in Terminals PROVE BufferOK(u)'
  <2>1. CASE u = t
    <3>1. PICK k \in Nat : Ends(buffer[t], written[t], k)
      BY DEF OutputInv, BufferOK
    <3>2. Legible(buffer[t]) /\ Legible(written[t]) /\ Legible(ErrorText)
      BY OutputAssumption DEF OutputInv, BufferOK
    <3>3. Legible(buffer'[t]) /\ Legible(written'[t])
      BY <1>2, <3>2, LegibleConcat
    <3>4. Ends(buffer'[t], written'[t], k)
      BY <1>2, <3>1, <3>2, EndsConcat DEF Legible
    <3>5. ~truncated'[t] => buffer'[t] = written'[t]
      BY <1>2 DEF OutputInv, BufferOK
    <3>6. QED
      BY <1>2, <1>3, <2>1, <3>3, <3>4, <3>5 DEF BufferOK
  <2>2. CASE u # t
    <3>1. /\ buffer'[u] = buffer[u] /\ written'[u] = written[u]
          /\ UNCHANGED <<truncated, limit>>
          /\ exitPromise'[u] = exitPromise[u] /\ process'[u] = process[u]
      BY <2>2 DEF ErrorEvent, FailWith, Resolve, mapVars, OutputInv, CountsOK, ProcessTypeOK
    <3>2. QED
      BY <3>1, BufferKept DEF OutputInv
  <2>3. QED
    BY <2>1, <2>2
<1>5. QED
  BY <1>1, <1>4 DEF OutputInv

\* The steps that append nothing.
LEMMA OthersKeepOutput ==
  ASSUME OutputInv, ProcessTypeOK, UNCHANGED <<limit, outputVars>>,
         \A t \in Terminals : /\ exitPromise[t] = "error" => exitPromise'[t] = "error"
                              /\ process'[t] = "none" => process[t] = "none"
  PROVE  OutputInv'
<1>1. CountsOK'
  BY DEF OutputInv, CountsOK, outputVars
<1>2. ASSUME NEW t \in Terminals PROVE BufferOK(t)'
  BY BufferKept DEF OutputInv, outputVars
<1>3. QED
  BY <1>1, <1>2 DEF OutputInv

LEMMA OutputInvariant == Spec => []OutputInv
<1>1. OutputInv /\ ProcessTypeOK /\ StatusFollowsProcess /\ [Next]_vars => OutputInv'
  <2> SUFFICES ASSUME OutputInv, ProcessTypeOK, StatusFollowsProcess, [Next]_vars
               PROVE  OutputInv'
    OBVIOUS
  <2>1. ASSUME NEW t \in Terminals,
               WaitForExit(t) \/ WaitReturns(t) \/ Kill(t) \/ ReleaseTerminal(t)
        PROVE  OutputInv'
    BY <2>1, OthersKeepOutput
    DEF WaitForExit, WaitReturns, Kill, ReleaseTerminal, mapVars, exitVars
  <2>2. ASSUME NEW t \in Terminals, ProcessExits(t) \/ CloseEvent(t)
        PROVE  OutputInv'
    BY <2>2, OthersKeepOutput
    DEF ProcessExits, CloseEvent, Resolve, mapVars, exitVars, ProcessTypeOK
  <2>3. ASSUME Cleanup \/ UNCHANGED vars PROVE OutputInv'
    BY <2>3, OthersKeepOutput DEF Cleanup, vars, mapVars, exitVars
  <2>4. QED
    BY <2>1, <2>2, <2>3, CreateKeepsOutput, DataKeepsOutput, ErrorKeepsOutput DEF Next
<1>2. QED
  BY <1>1, OutputInvInit, ProcessTypes, StatusInvariant, PTL DEF Spec

\* All variables keep their types; a waitForExit is answered once (create,
\* appendOutput, waitForExit).
THEOREM TypeCorrect == Spec => []TypeOK
<1>1. ProcessTypeOK /\ OutputInv => TypeOK
  BY OutputInvTyped DEF TypeOK
<1>2. QED
  BY <1>1, ProcessTypes, OutputInvariant, PTL

\* The buffer is the end of all that was written, after replacements of a cut
\* character, and keeps its bound, for every limit and any output
\* (appendOutput).
THEOREM OutputIsEnd == Spec => []OutputIsTail
<1>1. OutputInv => OutputIsTail
  <2> SUFFICES ASSUME OutputInv, NEW t \in Terminals
               PROVE  /\ IF truncated[t]
                         THEN \E k \in 0..Len(buffer[t]) \div 3 :
                                LET n == Len(buffer[t]) - 3 * k
                                IN  /\ n <= Len(written[t])
                                    /\ buffer[t] = Replacements(k) \o LastBytes(written[t], n)
                         ELSE buffer[t] = written[t]
                      /\ limit[t] # NoLimit /\ exitPromise[t] # "error" =>
                           Len(buffer[t]) <= limit[t] + 2 * (MaxWidth - 1)
    BY DEF OutputIsTail
  <2>1. PICK k \in Nat : Ends(buffer[t], written[t], k)
    BY DEF OutputInv, BufferOK
  <2>2. /\ k \in 0..Len(buffer[t]) \div 3
        /\ Len(buffer[t]) - 3 * k <= Len(written[t])
        /\ buffer[t] = Replacements(k) \o LastBytes(written[t], Len(buffer[t]) - 3 * k)
    <3>1. buffer[t] \in Seq(Int) /\ written[t] \in Seq(Int)
      BY DEF OutputInv, BufferOK, Legible
    <3>2. QED
      BY <2>1, <3>1, EndsIsConcat DEF Ends
  <2>3. QED
    BY <2>2 DEF OutputInv, BufferOK
<1>2. QED
  BY <1>1, OutputInvariant, PTL

-----------------------------------------------------------------------------
(* What liveness rests on: no wait is forgotten *)

\* What answers the waits for a terminal that is no longer in the map: they
\* have their answer, or an event is due, or the process has been killed.
AnswerOwed ==
  \A t \in Terminals :
    t \notin terminals /\ waits[t] > 0 =>
      \/ exitPromise[t] # "none"
      \/ process[t] \in {"exited", "failed"}
      \/ process[t] = "running" /\ signal[t] = "kill"

\* Only what was created is in the map or waited for.
Created == \A t \in Terminals : t \in terminals \/ waits[t] > 0 => process[t] # "none"

LEMMA CreatedFirst == Spec => []Created
<1>1. Init => Created
  BY DEF Init, Created
<1>2. ProcessTypeOK /\ Created /\ [Next]_vars => Created'
  <2> SUFFICES ASSUME ProcessTypeOK, Created, [Next]_vars PROVE Created'
    OBVIOUS
  <2> USE DEF ProcessTypeOK, Created
  <2>1. ASSUME NEW t \in Terminals, Create(t) PROVE Created'
    BY <2>1 DEF Create
  <2>2. ASSUME NEW t \in Terminals, WaitForExit(t) PROVE Created'
    BY <2>2 DEF WaitForExit, mapVars
  <2>3. ASSUME NEW t \in Terminals, WaitReturns(t) PROVE Created'
    BY <2>3, MaxWaitsAssumption DEF WaitReturns, mapVars
  <2>4. ASSUME NEW t \in Terminals, ReleaseTerminal(t) PROVE Created'
    BY <2>4 DEF ReleaseTerminal, Release
  <2>5. ASSUME NEW t \in Terminals, ProcessExits(t) \/ CloseEvent(t) \/ ErrorEvent(t)
        PROVE  Created'
    BY <2>5 DEF ProcessExits, CloseEvent, ErrorEvent, mapVars
  <2>6. ASSUME \/ \E t \in Terminals : Kill(t) \/ \E c \in Chunks : Data(t, c)
               \/ UNCHANGED vars
        PROVE  Created'
    BY <2>6 DEF Kill, Data, vars, mapVars
  <2>7. CASE Cleanup
    BY <2>7 DEF Cleanup, Release
  <2>8. QED
    BY <2>1, <2>2, <2>3, <2>4, <2>5, <2>6, <2>7 DEF Next
<1>3. QED
  BY <1>1, <1>2, ProcessTypes, PTL DEF Spec

\* A waitForExit on a terminal that was released, by the agent or at the
\* disconnect, is never left with nothing that could answer it, whatever state
\* the process was released in (waitForExit, release, releaseAll).
THEOREM NoWaitForgotten == Spec => []AnswerOwed
<1>1. ProcessTypeOK /\ StatusFollowsProcess /\ NoProcessLeft /\ Created => AnswerOwed
  BY DEF ProcessTypeOK, StatusFollowsProcess, NoProcessLeft, Created, AnswerOwed
<1>2. QED
  BY <1>1, ProcessTypes, StatusInvariant, NoneLeft, CreatedFirst, PTL
=============================================================================
