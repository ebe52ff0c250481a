---------------------- MODULE FilesystemManagerProofs ----------------------
(***************************************************************************)
(* For any number of writes and reads and contents of any length: what a   *)
(* lone write stores, where lines of overlapping writes end up, and that a *)
(* read of a file at rest returns the lines that were asked for.           *)
(***************************************************************************)
EXTENDS FilesystemManager, TLAPS

FileTypeOK == up \in BOOLEAN /\ runtime \in {"docker", "apple"} /\ file \in Seq(Lines)

WriteTypeOK ==
  /\ call \in [Writes -> {"none", "mkdir", "writing", "done", "failed"}]
  /\ size \in [Writes -> Nat]
  /\ cat \in [Writes -> {"none", "opening", "open", "ok", "failed"}]
  /\ written \in [Writes -> Nat]
  /\ opener \in Origins
  /\ crowded \subseteq Writes

ReadTypeOK ==
  /\ read \in [Reads -> {"none", "reading", "done", "failed"}]
  /\ asked \in [Reads -> Positions]
  /\ pos \in [Reads -> Nat]
  /\ result \in [Reads -> Seq(Lines \cup {Garbled})]
  /\ seen \in [Reads -> Seq(Lines)]
  /\ disturbed \subseteq Reads

\* A process starts with its call, and a call that resolved had all that was
\* delivered stored: by the process, which the client did not leave.
CallFollowsCat ==
  \A w \in Writes :
    /\ call[w] \in {"none", "mkdir"} => cat[w] = "none"
    /\ cat[w] \in {"none", "opening"} => written[w] = 0
    /\ written[w] <= Delivered(w)
    /\ call[w] = "done" => cat[w] = "ok" /\ written[w] = Delivered(w)
    /\ call[w] = "writing" /\ cat[w] = "ok" => written[w] = Delivered(w)
    /\ cat[w] = "open" => opener \in Writes

\* Two writes in flight at a time are both crowded, and so is whoever opened
\* the file last while another has it open.
CrowdsKnown ==
  /\ \A w, u \in Writes : w # u /\ InFlight(w) /\ InFlight(u) => {w, u} \subseteq crowded
  /\ \A u \in Writes : cat[u] = "open" /\ opener # u => {opener, u} \subseteq crowded

WriteInv ==
  /\ FileTypeOK /\ WriteTypeOK
  /\ CallFollowsCat /\ CrowdsKnown
  /\ LoneWriteStored /\ NoShiftedLines

-----------------------------------------------------------------------------
\* What Put does to a file of lines: the line at i, holes before it if it is
\* beyond the end, and every other line as it was.
LEMMA PutFacts ==
  ASSUME NEW f \in Seq(Lines), NEW i \in Nat \ {0}, NEW l \in Lines
  PROVE  /\ Put(f, i, l) \in Seq(Lines)
         /\ Len(Put(f, i, l)) = IF i > Len(f) THEN i ELSE Len(f)
         /\ \A j \in 1..Len(Put(f, i, l)) :
              Put(f, i, l)[j] = IF j = i THEN l ELSE IF j <= Len(f) THEN f[j] ELSE Hole
<1> DEFINE n == IF i > Len(f) THEN i ELSE Len(f)
<1>1. n \in Nat
  OBVIOUS
<1>2. Hole \in Lines
  BY DEF Hole, Lines, Origins
<1>3. Put(f, i, l) \in [1..n -> Lines]
  BY <1>1, <1>2 DEF Put
<1>4. QED
  BY <1>1, <1>3 DEF Put

\* A line written at the end of a beginning of a content lengthens it.
LEMMA ContentGrows ==
  ASSUME NEW w \in Writes, NEW n \in Nat
  PROVE  /\ Content(w, n) \in Seq(Lines)
         /\ Put(Content(w, n), n + 1, <<w, n + 1>>) = Content(w, n + 1)
<1>1. Content(w, n) \in [1..n -> Lines]
  BY DEF Content, Lines, Origins
<1>2. Content(w, n) \in Seq(Lines) /\ Len(Content(w, n)) = n
  BY <1>1
<1>3. (IF n + 1 > n THEN n + 1 ELSE n) = n + 1
  OBVIOUS
<1>4. QED
  BY <1>2, <1>3 DEF Content, Put

-----------------------------------------------------------------------------
\* No file, call or process is involved.
LEMMA WriteStutter ==
  WriteInv /\ UNCHANGED <<up, runtime, file, writeVars>> => WriteInv'
  BY DEF WriteInv, FileTypeOK, WriteTypeOK, CallFollowsCat, CrowdsKnown,
         LoneWriteStored, NoShiftedLines, writeVars, InFlight, Delivered

LEMMA WriteInit == Init => WriteInv
<1> SUFFICES ASSUME Init PROVE WriteInv
  OBVIOUS
<1>1. PICK n \in 0..MaxLines : file = Content(Original, n)
  BY DEF Init
<1>2. n \in Nat
  BY MaxLinesAssumption
<1>3. file \in [1..n -> Lines]
  BY <1>1, <1>2 DEF Content, Lines, Origins
<1>4. file \in Seq(Lines) /\ DOMAIN file = 1..n
  BY <1>2, <1>3
<1>5. NoShiftedLines
  <2> SUFFICES ASSUME NEW i \in DOMAIN file PROVE file[i] = <<Original, i>> /\ i # 0
    BY DEF NoShiftedLines, Hole
  <2> QED
    BY <1>1, <1>2, <1>4 DEF Content
<1>6. WriteTypeOK /\ CallFollowsCat /\ CrowdsKnown /\ LoneWriteStored
  BY OriginalAssumption
     DEF Init, WriteTypeOK, CallFollowsCat, CrowdsKnown, LoneWriteStored, InFlight, Origins,
         Delivered
<1>7. QED
  BY <1>4, <1>5, <1>6 DEF WriteInv, FileTypeOK, Init

\* Every step keeps the invariant of the writes.
LEMMA WriteNext == WriteInv /\ [Next]_vars => WriteInv'
<1> SUFFICES ASSUME WriteInv, [Next]_vars PROVE WriteInv'
  OBVIOUS
<1> USE DEF WriteInv, FileTypeOK, WriteTypeOK, Delivered
<1>1. ASSUME NEW w \in Writes, Write(w) PROVE WriteInv'
  <2>1. PICK n \in 0..MaxLines : size' = [size EXCEPT ![w] = n]
    BY <1>1 DEF Write
  <2>2. crowded' \subseteq Writes /\ crowded \subseteq crowded'
    BY <1>1 DEF Write
  <2>3. WriteTypeOK'
    <3>1. n \in Nat /\ size' \in [Writes -> Nat]
      BY <2>1, MaxLinesAssumption
    <3>2. /\ call' \in [Writes -> {"none", "mkdir", "writing", "done", "failed"}]
          /\ cat' \in [Writes -> {"none", "opening", "open", "ok", "failed"}]
      BY <1>1 DEF Write, StartCat
    <3>3. UNCHANGED <<written, opener>>
      BY <1>1 DEF Write
    <3>4. QED
      BY <2>2, <3>1, <3>2, <3>3
  <2>4. CallFollowsCat'
    BY <1>1, <2>1 DEF Write, StartCat, CallFollowsCat
  <2>5. \A u \in Writes : InFlight(u) /\ u # w => {u, w} \subseteq crowded'
    BY <1>1 DEF Write
  <2>6. \A u \in Writes : u # w => InFlight(u)' = InFlight(u)
    BY <1>1 DEF Write, StartCat, InFlight
  <2>7. \A u \in Writes : cat'[u] = "open" => cat[u] = "open"
    BY <1>1 DEF Write, StartCat
  <2>8. CrowdsKnown'
    BY <1>1, <2>2, <2>5, <2>6, <2>7 DEF Write, CrowdsKnown
  <2>9. LoneWriteStored'
    <3>1. \A u \in Writes : u # w => call'[u] = call[u] /\ size'[u] = size[u]
      BY <1>1, <2>1 DEF Write, StartCat
    <3>2. call'[w] # "done"
      BY <1>1 DEF Write, StartCat
    <3>3. QED
      BY <1>1, <2>2, <3>1, <3>2 DEF Write, LoneWriteStored
  <2>10. NoShiftedLines'
    BY <1>1, <2>2 DEF Write, NoShiftedLines
  <2>11. QED
    BY <1>1, <2>3, <2>4, <2>8, <2>9, <2>10 DEF Write
<1>2. ASSUME NEW w \in Writes, MkdirSettles(w) PROVE WriteInv'
  <2>1. \A u \in Writes : InFlight(u)' = InFlight(u)
    BY <1>2 DEF MkdirSettles, StartCat, InFlight
  <2>2. QED
    BY <1>2, <2>1 DEF MkdirSettles, StartCat, CallFollowsCat, CrowdsKnown,
                      LoneWriteStored, NoShiftedLines
<1>3. ASSUME NEW w \in Writes, CatOpens(w) PROVE WriteInv'
  <2>1. \A u \in Writes : InFlight(u)' = InFlight(u)
    BY <1>3 DEF CatOpens, InFlight
  <2>2. WriteTypeOK' /\ FileTypeOK' /\ CallFollowsCat'
    BY <1>3 DEF CatOpens, CallFollowsCat, Origins
  <2>3. CrowdsKnown'
    BY <1>3, <2>1 DEF CatOpens, CrowdsKnown, InFlight
  <2>4. LoneWriteStored' /\ NoShiftedLines'
    BY <1>3 DEF CatOpens, LoneWriteStored, NoShiftedLines, Content, CallFollowsCat
  <2>5. QED
    BY <2>2, <2>3, <2>4
<1>4. ASSUME NEW w \in Writes, CatWrites(w) PROVE WriteInv'
  <2> DEFINE i == written[w] + 1
  <2>1. i \in Nat \ {0} /\ <<w, i>> \in Lines /\ file' = Put(file, i, <<w, i>>)
    BY <1>4 DEF CatWrites, Lines, Origins
  <2>2. written' = [written EXCEPT ![w] = i] /\ cat[w] = "open" /\ i <= Delivered(w)
    BY <1>4 DEF CatWrites
  <2>3. UNCHANGED <<up, runtime, call, size, cat, opener, crowded>>
    BY <1>4 DEF CatWrites
  <2>4. WriteTypeOK' /\ FileTypeOK'
    BY <2>1, <2>2, <2>3, PutFacts
  <2>5. CallFollowsCat'
    BY <2>1, <2>2, <2>3 DEF CallFollowsCat
  <2>6. CrowdsKnown'
    BY <2>3 DEF CrowdsKnown, InFlight
  <2>7. opener = w \/ (opener \in crowded /\ w \in crowded)
    BY <2>2 DEF CrowdsKnown
  <2>8. LoneWriteStored'
    <3> SUFFICES ASSUME NEW u \in Writes, u \notin crowded, opener = u
                 PROVE  /\ file' = Content(u, written'[u])
                        /\ runtime = "apple" => file' = <<>>
                        /\ runtime = "docker" /\ call[u] = "done" => written'[u] = size[u]
      BY <2>3 DEF LoneWriteStored
    <3>1. u = w
      BY <2>7
    <3>2. call[w] # "done"
      BY <2>2 DEF CallFollowsCat
    <3>3. file = Content(w, written[w])
      BY <3>1 DEF LoneWriteStored
    <3>4. file' = Content(w, i)
      BY <2>1, <3>3, ContentGrows
    <3>5. QED
      BY <2>2, <3>1, <3>2, <3>4
  <2>9. NoShiftedLines'
    <3> SUFFICES ASSUME NEW j \in DOMAIN file'
                 PROVE  IF file'[j] = Hole THEN crowded # {} ELSE file'[j][2] = j
      BY <2>3 DEF NoShiftedLines
    <3>1. j \in 1..Len(file') /\ j \in Nat \ {0}
      BY <2>4
    <3>2. file'[j] = IF j = i THEN <<w, i>> ELSE IF j <= Len(file) THEN file[j] ELSE Hole
      <4>1. \A k \in 1..Len(Put(file, i, <<w, i>>)) :
              Put(file, i, <<w, i>>)[k] =
                IF k = i THEN <<w, i>> ELSE IF k <= Len(file) THEN file[k] ELSE Hole
        <5>1. file \in Seq(Lines) /\ i \in Nat \ {0} /\ <<w, i>> \in Lines
          BY <2>1
        <5> HIDE DEF WriteInv, FileTypeOK, WriteTypeOK, Delivered, i
        <5> QED
          BY <5>1, PutFacts
      <4>2. QED
        BY <2>1, <3>1, <4>1
    <3>3. CASE j = i
      <4>1. file'[j] = <<w, i>> /\ w # Original
        BY <3>2, <3>3, OriginalAssumption
      <4>2. file'[j] # Hole /\ file'[j][2] = j
        BY <4>1, <3>3 DEF Hole
      <4>3. QED
        BY <4>2
    <3>4. CASE j # i /\ j <= Len(file)
      BY <3>1, <3>2, <3>4 DEF NoShiftedLines
    <3>5. CASE j # i /\ j > Len(file)
      <4>1. Len(file') = IF i > Len(file) THEN i ELSE Len(file)
        BY <2>1, PutFacts
      <4>2. j < i
        BY <2>1, <2>4, <3>1, <3>5, <4>1
      <4>3. SUFFICES ASSUME crowded = {} PROVE FALSE
        BY <3>1, <3>2, <3>5, <2>1
      <4>4. file = Content(w, written[w])
        BY <2>7, <4>3 DEF LoneWriteStored
      <4>5. Len(file) = written[w]
        BY <4>4, ContentGrows DEF Content
      <4>6. QED
        BY <3>1, <3>5, <4>2, <4>5
    <3>6. QED
      BY <3>1, <3>3, <3>4, <3>5
  <2>10. QED
    BY <2>4, <2>5, <2>6, <2>8, <2>9
<1>5. ASSUME NEW w \in Writes, CatEnds(w) PROVE WriteInv'
  <2>1. \A u \in Writes : InFlight(u)' => InFlight(u)
    BY <1>5 DEF CatEnds, InFlight
  <2>2. QED
    BY <1>5, <2>1 DEF CatEnds, CallFollowsCat, CrowdsKnown, LoneWriteStored, NoShiftedLines
<1>6. ASSUME NEW w \in Writes, CatFails(w) PROVE WriteInv'
  <2>1. \A u \in Writes : InFlight(u)' => InFlight(u)
    BY <1>6 DEF CatFails, InFlight
  <2>2. QED
    BY <1>6, <2>1 DEF CatFails, CallFollowsCat, CrowdsKnown, LoneWriteStored, NoShiftedLines
<1>7. ASSUME NEW w \in Writes, ClientLost(w) PROVE WriteInv'
  <2>1. \A u \in Writes : InFlight(u)' => InFlight(u)
    BY <1>7 DEF ClientLost, InFlight
  <2>2. QED
    BY <1>7, <2>1 DEF ClientLost, CallFollowsCat, CrowdsKnown, LoneWriteStored, NoShiftedLines
<1>8. ASSUME NEW w \in Writes, Close(w) PROVE WriteInv'
  <2>1. \A u \in Writes : InFlight(u)' => InFlight(u)
    BY <1>8 DEF Close, InFlight
  <2>2. QED
    BY <1>8, <2>1 DEF Close, CallFollowsCat, CrowdsKnown, LoneWriteStored, NoShiftedLines
<1>9. ASSUME ContainerExits PROVE WriteInv'
  <2>1. \A u \in Writes : InFlight(u)' => InFlight(u)
    BY <1>9 DEF ContainerExits, InFlight
  <2>2. QED
    BY <1>9, <2>1 DEF ContainerExits, CallFollowsCat, CrowdsKnown, LoneWriteStored,
                      NoShiftedLines
<1>10. ASSUME UNCHANGED <<up, runtime, file, writeVars>> PROVE WriteInv'
  BY <1>10, WriteStutter DEF WriteInv
<1>11. QED
  BY <1>1, <1>2, <1>3, <1>4, <1>5, <1>6, <1>7, <1>8, <1>9, <1>10
     DEF Next, vars, Read, ReadLine, ReadReturns, ReadFails

LEMMA Writing == Spec => []WriteInv
<1>1. QED
  BY WriteInit, WriteNext, PTL DEF Spec

-----------------------------------------------------------------------------
\* What an undisturbed read has collected: the lines of its range among those
\* its command has read.
Collected(r) ==
  LET first == FirstLine(asked[r])
  IN  /\ pos[r] <= Len(seen[r])
      /\ LastLine(asked[r]) # Null => pos[r] <= LastLine(asked[r])
      /\ Len(result[r]) = IF pos[r] < first THEN 0 ELSE pos[r] - first + 1
      /\ \A i \in 1..Len(result[r]) : result[r][i] \in {seen[r][first + i - 1], Garbled}

ReadProgress ==
  \A r \in Reads :
    /\ read[r] = "none" => pos[r] = 0 /\ result[r] = <<>>
    /\ read[r] \in {"reading", "done"} => ~Refused(asked[r])
    /\ r \notin disturbed =>
         /\ read[r] = "reading" => file = seen[r]
         /\ read[r] \in {"reading", "done"} => Collected(r)
         /\ read[r] = "done" => pos[r] >= Len(seen[r]) \/ PastRange(r)

ReadInv == ReadTypeOK /\ ReadProgress

\* The numbers of an accepted request.
LEMMA RangeFacts ==
  ASSUME NEW a \in Positions, ~Refused(a)
  PROVE  /\ FirstLine(a) \in Nat \ {0}
         /\ LastLine(a) \in Nat \cup {Null}
         /\ a.limit = Null <=> LastLine(a) = Null
         /\ a.limit # Null => /\ a.limit \in Nat \ {0}
                              /\ LastLine(a) = FirstLine(a) + a.limit - 1
  BY NullAssumption DEF Positions, Refused, FirstLine, LastLine

\* The lines a request asks for are those from its first to its last line, as
\* far as the file has them.
LEMMA AskedFacts ==
  ASSUME NEW f \in Seq(Lines), NEW a \in Positions, ~Refused(a), NEW n \in Nat,
         n <= Len(f), LastLine(a) # Null => n <= LastLine(a),
         n >= Len(f) \/ (LastLine(a) # Null /\ n >= LastLine(a))
  PROVE  /\ Asked(f, a) \in Seq(Lines)
         /\ Len(Asked(f, a)) = IF n < FirstLine(a) THEN 0 ELSE n - FirstLine(a) + 1
         /\ \A i \in 1..Len(Asked(f, a)) : Asked(f, a)[i] = f[FirstLine(a) + i - 1]
<1> DEFINE first == FirstLine(a)
           rest == IF a.line = Null THEN f ELSE SubSeq(f, a.line, Len(f))
<1>1. first \in Nat \ {0}
  BY RangeFacts
<1>2. /\ rest \in Seq(Lines)
      /\ Len(rest) = IF Len(f) < first THEN 0 ELSE Len(f) - first + 1
      /\ \A i \in 1..Len(rest) : rest[i] = f[first + i - 1]
  <2>1. CASE a.line = Null
    BY <2>1 DEF FirstLine
  <2>2. CASE a.line # Null
    BY <1>1, <2>2 DEF FirstLine
  <2>3. QED
    BY <2>1, <2>2
<1>3. Asked(f, a) \in Seq(Lines)
  <2>1. a.limit = Null \/ a.limit > Len(rest) => Asked(f, a) = rest
    BY DEF Asked
  <2>2. ~(a.limit = Null \/ a.limit > Len(rest)) => Asked(f, a) = SubSeq(rest, 1, a.limit)
    BY DEF Asked
  <2>3. a.limit # Null => a.limit \in Nat \ {0}
    BY RangeFacts
  <2>4. CASE a.limit = Null \/ a.limit > Len(rest)
    BY <1>2, <2>1, <2>4
  <2>5. CASE ~(a.limit = Null \/ a.limit > Len(rest))
    <3>1. a.limit \in 1..Len(rest)
      BY <1>2, <2>3, <2>5
    <3>2. ASSUME NEW s \in Seq(Lines), NEW m \in 1..Len(s) PROVE SubSeq(s, 1, m) \in Seq(Lines)
      OBVIOUS
    <3>3. QED
      BY <1>2, <2>2, <2>5, <3>1, <3>2
  <2>6. QED
    BY <2>4, <2>5
<1>4. CASE a.limit = Null
  BY <1>1, <1>2, <1>4, <1>3, RangeFacts DEF Asked
<1>5. CASE a.limit # Null
  <2>1. a.limit \in Nat \ {0} /\ LastLine(a) = first + a.limit - 1 /\ LastLine(a) # Null
    BY <1>5, RangeFacts
  <2>2. CASE a.limit > Len(rest)
    <3>1. Asked(f, a) = rest
      BY <2>2 DEF Asked
    <3>2. n = Len(f)
      BY <1>1, <1>2, <2>1, <2>2
    <3>3. QED
      BY <1>1, <1>2, <1>3, <3>1, <3>2
  <2>3. CASE a.limit <= Len(rest)
    <3>1. Asked(f, a) = SubSeq(rest, 1, a.limit)
      BY <1>2, <1>5, <2>1, <2>3 DEF Asked
    <3>2. /\ Len(Asked(f, a)) = a.limit
          /\ \A i \in 1..a.limit : Asked(f, a)[i] = rest[i]
      BY <1>2, <2>1, <2>3, <3>1
    <3>3. QED
      <4>1. n = first + a.limit - 1
        <5>1. first + a.limit - 1 <= Len(f)
          BY <1>1, <1>2, <2>1, <2>3
        <5>2. n <= first + a.limit - 1 /\ (n >= Len(f) \/ n >= first + a.limit - 1)
          BY <2>1
        <5>3. QED
          BY <1>1, <2>1, <5>1, <5>2
      <4>2. \A i \in 1..a.limit : i \in 1..Len(rest) /\ rest[i] = f[first + i - 1]
        BY <1>2, <2>1, <2>3
      <4>3. QED
        <5>1. Len(Asked(f, a)) = n - first + 1 /\ n >= first
          BY <1>1, <2>1, <3>2, <4>1
        <5>2. \A i \in 1..Len(Asked(f, a)) : Asked(f, a)[i] = f[first + i - 1]
          BY <3>2, <4>2
        <5>3. ~(n < first)
          BY <1>1, <5>1
        <5>4. QED
          BY <1>3, <5>1, <5>2, <5>3
  <2>4. QED
    BY <1>2, <2>1, <2>2, <2>3
<1>6. QED
  BY <1>4, <1>5

\* The types of the reads, and what they have collected.
LEMMA ReadInit == Init => ReadInv
<1> SUFFICES ASSUME Init PROVE ReadInv
  OBVIOUS
<1>1. ReadTypeOK
  BY DEF Init, ReadTypeOK, Positions
<1>2. ReadProgress
  BY DEF Init, ReadProgress
<1>3. QED
  BY <1>1, <1>2 DEF ReadInv

\* A step that leaves the reads and the file alone keeps their invariant.
LEMMA ReadStutter == ReadInv /\ UNCHANGED <<file, readVars, disturbed>> => ReadInv'
  BY DEF ReadInv, ReadTypeOK, ReadProgress, Collected, PastRange, readVars

\* A step that changes the file disturbs every read in flight.
LEMMA ReadDisturbed == ReadInv /\ Disturb /\ UNCHANGED readVars => ReadInv'
  BY DEF ReadInv, ReadTypeOK, ReadProgress, Collected, PastRange, readVars, Disturb

LEMMA ReadNext == FileTypeOK /\ ReadInv /\ [Next]_vars => ReadInv'
<1> SUFFICES ASSUME FileTypeOK, ReadInv, [Next]_vars PROVE ReadInv'
  OBVIOUS
<1> USE DEF ReadInv, ReadTypeOK
<1>1. ASSUME NEW r \in Reads, NEW a \in Requests, Read(r, a) PROVE ReadInv'
  <2>1. a \in Positions
    BY MaxLinesAssumption DEF Requests, Positions
  <2>2. ReadTypeOK'
    BY <1>1, <2>1 DEF Read, FileTypeOK
  <2>3. ASSUME NEW q \in Reads, q # r
        PROVE  UNCHANGED <<read[q], asked[q], pos[q], result[q], seen[q]>>
    BY <1>1, <2>3 DEF Read
  <2>4. read[r] = "none" /\ pos'[r] = 0 /\ result'[r] = <<>> /\ asked'[r] = a /\ seen'[r] = file
    BY <1>1 DEF Read, ReadProgress
  <2>5. read'[r] = IF Refused(a) THEN "failed" ELSE "reading"
    BY <1>1 DEF Read
  <2>6. ~Refused(a) => Collected(r)'
    <3> SUFFICES ASSUME ~Refused(a) PROVE Collected(r)'
      OBVIOUS
    <3>1. FirstLine(a) \in Nat \ {0} /\ (LastLine(a) # Null => 0 <= LastLine(a))
      BY <2>1, RangeFacts
    <3>2. QED
      BY <2>4, <3>1 DEF Collected, FileTypeOK
  <2>7. ReadProgress'
    <3>1. UNCHANGED <<file, disturbed>>
      BY <1>1 DEF Read
    <3>2. ASSUME NEW q \in Reads, q # r
          PROVE  Collected(q)' = Collected(q) /\ PastRange(q)' = PastRange(q)
      BY <2>3, <3>2 DEF Collected, PastRange
    <3>3. QED
      BY <2>3, <2>4, <2>5, <2>6, <3>1, <3>2 DEF ReadProgress
  <2>8. QED
    BY <2>2, <2>7
<1>2. ASSUME NEW r \in Reads, ReadLine(r) PROVE ReadInv'
  <2> DEFINE n == pos[r] + 1
             first == FirstLine(asked[r])
  <2>1. PICK l \in {file[n], Garbled} :
          result' = IF n < first THEN result ELSE [result EXCEPT ![r] = Append(@, l)]
    BY <1>2 DEF ReadLine
  <2>2. /\ read[r] = "reading" /\ n <= Len(file) /\ ~PastRange(r)
        /\ pos' = [pos EXCEPT ![r] = n]
        /\ UNCHANGED <<file, read, asked, seen, disturbed>>
    BY <1>2 DEF ReadLine, FileTypeOK
  <2>3. l \in Lines \cup {Garbled}
    BY <2>1, <2>2 DEF FileTypeOK
  <2>4. ReadTypeOK'
    BY <2>1, <2>2, <2>3
  <2>5. ASSUME NEW q \in Reads, q # r
        PROVE  Collected(q)' = Collected(q) /\ PastRange(q)' = PastRange(q)
    BY <2>1, <2>2, <2>5 DEF Collected, PastRange
  <2>6. ASSUME r \notin disturbed PROVE Collected(r)'
    <3>1. ~Refused(asked[r]) /\ file = seen[r] /\ Collected(r)
      BY <2>2, <2>6 DEF ReadProgress
    <3>2. /\ first \in Nat \ {0}
          /\ LastLine(asked[r]) # Null => LastLine(asked[r]) \in Nat /\ n <= LastLine(asked[r])
      BY <2>2, <3>1, RangeFacts DEF PastRange
    <3>3. CASE n < first
      BY <2>1, <2>2, <3>1, <3>2, <3>3 DEF Collected
    <3>4. CASE n >= first
      <4>1. Len(result[r]) = n - first
        BY <3>1, <3>2, <3>4 DEF Collected
      <4>2. result'[r] = Append(result[r], l) /\ Len(result'[r]) = n - first + 1
        BY <2>1, <3>2, <3>4, <4>1
      <4>3. ASSUME NEW i \in 1..Len(result'[r])
            PROVE  result'[r][i] \in {seen[r][first + i - 1], Garbled}
        <5>1. CASE i = n - first + 1
          BY <2>1, <3>1, <3>2, <4>1, <4>2, <5>1
        <5>2. CASE i <= n - first
          BY <3>1, <3>2, <4>1, <4>2, <5>2 DEF Collected
        <5>3. QED
          BY <3>2, <4>2, <5>1, <5>2
      <4>4. QED
        BY <2>2, <3>1, <3>2, <3>4, <4>2, <4>3 DEF Collected
    <3>5. QED
      BY <3>2, <3>3, <3>4
  <2>7. ReadProgress'
    BY <2>1, <2>2, <2>5, <2>6 DEF ReadProgress
  <2>8. QED
    BY <2>4, <2>7
<1>3. ASSUME NEW r \in Reads, ReadReturns(r) PROVE ReadInv'
  <2>1. ReadTypeOK'
    BY <1>3 DEF ReadReturns
  <2>2. \A q \in Reads : Collected(q)' = Collected(q) /\ PastRange(q)' = PastRange(q)
    BY <1>3 DEF ReadReturns, Collected, PastRange
  <2>3. QED
    BY <1>3, <2>1, <2>2 DEF ReadReturns, ReadProgress
<1>4. ASSUME NEW r \in Reads, ReadFails(r) PROVE ReadInv'
  <2>1. ReadTypeOK'
    BY <1>4 DEF ReadFails
  <2>2. \A q \in Reads : Collected(q)' = Collected(q) /\ PastRange(q)' = PastRange(q)
    BY <1>4 DEF ReadFails, Collected, PastRange
  <2>3. QED
    BY <1>4, <2>1, <2>2 DEF ReadFails, ReadProgress
<1>5. ASSUME NEW w \in Writes, CatOpens(w) \/ CatWrites(w) PROVE ReadInv'
  BY <1>5, ReadDisturbed DEF CatOpens, CatWrites
<1>6. ASSUME UNCHANGED <<file, readVars, disturbed>> PROVE ReadInv'
  BY <1>6, ReadStutter
<1>7. QED
  BY <1>1, <1>2, <1>3, <1>4, <1>5, <1>6
     DEF Next, vars, Write, MkdirSettles, CatEnds, CatFails, ClientLost, Close, ContainerExits

LEMMA Reading == Spec => []ReadInv
<1>1. WriteInv => FileTypeOK
  BY DEF WriteInv
<1>2. QED
  BY <1>1, Writing, ReadInit, ReadNext, PTL DEF Spec

-----------------------------------------------------------------------------
\* The variables keep their types, and the process of a write that resolved
\* ended well (spawnWithStdin).
THEOREM FileTypes == Spec => []TypeOK
<1>1. WriteInv /\ ReadInv => TypeOK
  BY DEF WriteInv, FileTypeOK, WriteTypeOK, CallFollowsCat, ReadInv, ReadTypeOK, TypeOK
<1>2. QED
  BY <1>1, Writing, Reading, PTL

\* A write nothing overlapped has stored a beginning of its content and nothing
\* else: all of it when it resolved under Docker, nothing under the Apple
\* runtime, whose process gets no input (write; spawn in container-exec.ts).
THEOREM LoneWrites == Spec => []LoneWriteStored
<1>1. WriteInv => LoneWriteStored
  BY DEF WriteInv
<1>2. QED
  BY <1>1, Writing, PTL

\* Overlapping writes mix their lines, but never move one (write).
THEOREM LinesInPlace == Spec => []NoShiftedLines
<1>1. WriteInv => NoShiftedLines
  BY DEF WriteInv
<1>2. QED
  BY <1>1, Writing, PTL

\* A read of a file at rest returns the lines that were asked for (read).
THEOREM ReadsExact == Spec => []ReadExact
<1>1. ReadInv => ReadExact
  <2> SUFFICES ASSUME ReadInv, NEW r \in Reads \ disturbed, read[r] = "done"
               PROVE  LET expected == Asked(seen[r], asked[r])
                      IN  /\ Len(result[r]) = Len(expected)
                          /\ \A i \in DOMAIN expected : result[r][i] \in {expected[i], Garbled}
    BY DEF ReadExact
  <2> DEFINE a == asked[r]
             f == seen[r]
  <2>1. a \in Positions /\ f \in Seq(Lines) /\ pos[r] \in Nat /\ ~Refused(a)
    BY DEF ReadInv, ReadTypeOK, ReadProgress
  <2>2. Collected(r) /\ (pos[r] >= Len(f) \/ PastRange(r))
    BY DEF ReadInv, ReadProgress
  <2>3. /\ Asked(f, a) \in Seq(Lines)
        /\ Len(Asked(f, a)) = IF pos[r] < FirstLine(a) THEN 0 ELSE pos[r] - FirstLine(a) + 1
        /\ \A i \in 1..Len(Asked(f, a)) : Asked(f, a)[i] = f[FirstLine(a) + i - 1]
    BY <2>1, <2>2, AskedFacts DEF Collected, PastRange
  <2>4. Len(result[r]) = Len(Asked(f, a)) /\ DOMAIN Asked(f, a) = 1..Len(Asked(f, a))
    BY <2>1, <2>2, <2>3 DEF Collected
  <2>5. QED
    BY <2>2, <2>3, <2>4 DEF Collected
<1>2. QED
  BY <1>1, Reading, PTL
=============================================================================
