------------------------- MODULE FilesystemManager -------------------------
(***************************************************************************)
(* One file of the container, and the agent's requests for it              *)
(* (filesystem-manager.ts): a write pipes its content to `cat >`, a read   *)
(* collects the output of sed, head or cat.  Requests for the same file    *)
(* are not ordered by anything.                                            *)
(***************************************************************************)
EXTENDS Integers, Sequences, FiniteSets

CONSTANTS
  Writes,    \* writeTextFile requests
  Reads,     \* readTextFile requests
  Original,  \* the origin of the lines the file has at the start
  Garbled,   \* a line with a character decoded in two halves
  Null,      \* no line, no limit
  MaxLines   \* bound: lines of the file at the start, and of a content

ASSUME OriginalAssumption == Original \notin Writes
ASSUME MaxLinesAssumption == MaxLines \in Nat
ASSUME NullAssumption == Null \notin Int

VARIABLES
  up,        \* does the container run?
  runtime,   \* which CLI the host has: "docker" or "apple"
  file,      \* its lines: <<origin, number>>
  call,      \* state of write()
  size,      \* lines of its content
  cat,       \* the process in the container
  written,   \* lines it has written
  opener,    \* history: whose cat was the last to open the file
  crowded,   \* history: writes that overlapped another
  read,      \* state of read()
  asked,     \* its line and limit
  pos,       \* lines its command has read
  result,    \* its stdout
  seen,      \* history: the file when it was called
  disturbed  \* history: reads during which the file changed

writeVars == <<call, size, cat, written, opener, crowded>>
readVars == <<read, asked, pos, result, seen>>
vars == <<up, runtime, file, writeVars, readVars, disturbed>>

Origins == Writes \cup {Original}
Hole == <<Original, 0>>
Lines == Origins \X Nat
Content(o, n) == [i \in 1..n |-> <<o, i>>]
Positions == [line : Nat \cup {Null}, limit : Nat \cup {Null}]

\* The variables keep their types; no process is left of a write that was
\* answered, unless its docker client was lost (spawnWithStdin).
TypeOK ==
  /\ up \in BOOLEAN
  /\ runtime \in {"docker", "apple"}
  /\ file \in Seq(Lines)
  /\ call \in [Writes -> {"none", "mkdir", "writing", "done", "failed"}]
  /\ size \in [Writes -> Nat]
  /\ cat \in [Writes -> {"none", "opening", "open", "ok", "failed"}]
  /\ written \in [Writes -> Nat]
  /\ opener \in Origins
  /\ crowded \subseteq Writes
  /\ read \in [Reads -> {"none", "reading", "done", "failed"}]
  /\ asked \in [Reads -> Positions]
  /\ pos \in [Reads -> Nat]
  /\ result \in [Reads -> Seq(Lines \cup {Garbled})]
  /\ seen \in [Reads -> Seq(Lines)]
  /\ disturbed \subseteq Reads
  /\ \A w \in Writes : call[w] = "done" => cat[w] = "ok"

Init ==
  /\ up = TRUE
  /\ runtime \in {"docker", "apple"}
  /\ \E n \in 0..MaxLines : file = Content(Original, n)
  /\ call = [w \in Writes |-> "none"]
  /\ size = [w \in Writes |-> 0]
  /\ cat = [w \in Writes |-> "none"]
  /\ written = [w \in Writes |-> 0]
  /\ opener = Original
  /\ crowded = {}
  /\ read = [r \in Reads |-> "none"]
  /\ asked = [r \in Reads |-> [line |-> Null, limit |-> Null]]
  /\ pos = [r \in Reads |-> 0]
  /\ result = [r \in Reads |-> <<>>]
  /\ seen = [r \in Reads |-> <<>>]
  /\ disturbed = {}

-----------------------------------------------------------------------------
(* write() *)

InFlight(w) == call[w] \in {"mkdir", "writing"} \/ cat[w] \in {"opening", "open"}

\* The lines of its content that reach the process: `docker exec` is given -i,
\* `container exec` is not, and what is piped to it goes nowhere.
Delivered(w) == IF runtime = "docker" THEN size[w] ELSE 0

StartCat(w) ==
  /\ call' = [call EXCEPT ![w] = "writing"]
  /\ cat' = [cat EXCEPT ![w] = "opening"]

\* A path without a parent directory goes straight to the write.
Write(w) ==
  /\ call[w] = "none"
  /\ \E n \in 0..MaxLines : size' = [size EXCEPT ![w] = n]
  /\ \/ StartCat(w)
     \/ call' = [call EXCEPT ![w] = "mkdir"] /\ UNCHANGED cat
  /\ LET others == {u \in Writes : InFlight(u)}
     IN  crowded' = IF others = {} THEN crowded ELSE crowded \cup others \cup {w}
  /\ UNCHANGED <<up, runtime, file, written, opener, readVars, disturbed>>

\* mkdir -p ends; how, is ignored.
MkdirSettles(w) ==
  /\ call[w] = "mkdir"
  /\ StartCat(w)
  /\ UNCHANGED <<up, runtime, file, size, written, opener, crowded, readVars, disturbed>>

Disturb == disturbed' = disturbed \cup {r \in Reads : read[r] = "reading"}

\* The shell opens the file for cat, which empties it.
CatOpens(w) ==
  /\ up /\ cat[w] = "opening"
  /\ cat' = [cat EXCEPT ![w] = "open"]
  /\ file' = <<>>
  /\ opener' = w
  /\ Disturb
  /\ UNCHANGED <<up, runtime, call, size, written, crowded, readVars>>

\* Line i is set to l; the lines between the end of the file and i are holes.
Put(f, i, l) ==
  [j \in 1..(IF i > Len(f) THEN i ELSE Len(f)) |->
     IF j = i THEN l ELSE IF j <= Len(f) THEN f[j] ELSE Hole]

\* Plausible bug: `cat >>`, which writes at the end of the file.
CatWrites_Appends(w) ==
  /\ up /\ cat[w] = "open" /\ written[w] < Delivered(w)
  /\ written' = [written EXCEPT ![w] = @ + 1]
  /\ file' = Append(file, <<w, written[w] + 1>>)
  /\ Disturb
  /\ UNCHANGED <<up, runtime, call, size, cat, opener, crowded, readVars>>

\* cat writes at its own offset, wherever others have put the end of the file.
CatWrites(w) ==
  /\ up /\ cat[w] = "open" /\ written[w] < Delivered(w)
  /\ written' = [written EXCEPT ![w] = @ + 1]
  /\ file' = Put(file, written[w] + 1, <<w, written[w] + 1>>)
  /\ Disturb
  /\ UNCHANGED <<up, runtime, call, size, cat, opener, crowded, readVars>>

\* Its input ends with what is delivered, or with the client that sent it.
CatEnds(w) ==
  /\ cat[w] = "open"
  /\ written[w] = Delivered(w) \/ call[w] = "failed"
  /\ cat' = [cat EXCEPT ![w] = "ok"]
  /\ UNCHANGED <<up, runtime, file, call, size, written, opener, crowded, readVars, disturbed>>

\* No such directory, no permission, no container; disk full, killed.
CatFails(w) ==
  /\ cat[w] \in {"opening", "open"}
  /\ cat' = [cat EXCEPT ![w] = "failed"]
  /\ UNCHANGED <<up, runtime, file, call, size, written, opener, crowded, readVars, disturbed>>

\* The CLI client ends without its process ("close" without code 0, as it is
\* killed): write() rejects, cat goes on.
ClientLost(w) ==
  /\ call[w] = "writing"
  /\ call' = [call EXCEPT ![w] = "failed"]
  /\ UNCHANGED <<up, runtime, file, size, cat, written, opener, crowded, readVars, disturbed>>

\* Plausible bug: the exit code is not looked at.
Close_AnyCode(w) ==
  /\ call[w] = "writing" /\ cat[w] \in {"ok", "failed"}
  /\ call' = [call EXCEPT ![w] = "done"]
  /\ UNCHANGED <<up, runtime, file, size, cat, written, opener, crowded, readVars, disturbed>>

Close(w) ==
  /\ call[w] = "writing" /\ cat[w] \in {"ok", "failed"}
  /\ call' = [call EXCEPT ![w] = IF cat[w] = "ok" THEN "done" ELSE "failed"]
  /\ UNCHANGED <<up, runtime, file, size, cat, written, opener, crowded, readVars, disturbed>>

\* The idle timer or a crash ends the container and what runs in it.
ContainerExits ==
  /\ up
  /\ up' = FALSE
  /\ cat' = [w \in Writes |-> IF cat[w] = "open" THEN "failed" ELSE cat[w]]
  /\ UNCHANGED <<runtime, file, call, size, written, opener, crowded, readVars, disturbed>>

-----------------------------------------------------------------------------
(* read() *)

Refused(a) ==
  \/ a.line # Null /\ a.line < 1
  \/ a.limit # Null /\ a.limit < 1

\* Plausible bug: the end line is one too far.
LastLine_PastEnd(a) ==
  IF a.limit = Null THEN Null
  ELSE IF a.line = Null THEN a.limit ELSE a.line + a.limit

\* `sed -n L,Ep` (sed -n 'L,$p', cat) prints from L to E (to the end);
\* `head -n N` stops after line N.
FirstLine(a) == IF a.line = Null THEN 1 ELSE a.line
LastLine(a) ==
  IF a.limit = Null THEN Null
  ELSE IF a.line = Null THEN a.limit ELSE a.line + a.limit - 1

Read(r, a) ==
  /\ read[r] = "none"
  /\ read' = [read EXCEPT ![r] = IF Refused(a) THEN "failed" ELSE "reading"]
  /\ asked' = [asked EXCEPT ![r] = a]
  /\ seen' = [seen EXCEPT ![r] = file]
  /\ UNCHANGED <<up, runtime, file, writeVars, pos, result, disturbed>>

PastRange(r) == LastLine(asked[r]) # Null /\ pos[r] >= LastLine(asked[r])

\* A line goes through the command; when a chunk of stdout ends inside one of
\* its characters, each half is decoded alone (stdout += chunk.toString()).
ReadLine(r) ==
  /\ up /\ read[r] = "reading"
  /\ pos[r] < Len(file) /\ ~PastRange(r)
  /\ pos' = [pos EXCEPT ![r] = @ + 1]
  /\ \E l \in {file[pos[r] + 1], Garbled} :
       result' = IF pos[r] + 1 < FirstLine(asked[r]) THEN result
                 ELSE [result EXCEPT ![r] = Append(@, l)]
  /\ UNCHANGED <<up, runtime, file, writeVars, read, asked, seen, disturbed>>

ReadReturns(r) ==
  /\ read[r] = "reading"
  /\ pos[r] >= Len(file) \/ PastRange(r)
  /\ read' = [read EXCEPT ![r] = "done"]
  /\ UNCHANGED <<up, runtime, file, writeVars, asked, pos, result, seen, disturbed>>

\* "error", or "close" with another code than 0.
ReadFails(r) ==
  /\ read[r] = "reading"
  /\ read' = [read EXCEPT ![r] = "failed"]
  /\ UNCHANGED <<up, runtime, file, writeVars, asked, pos, result, seen, disturbed>>

-----------------------------------------------------------------------------
Requests ==
  LET numbers == 0..MaxLines \cup {Null} IN [line : numbers, limit : numbers]

Next ==
  \/ \E w \in Writes :
       \/ Write(w) \/ MkdirSettles(w)
       \/ CatOpens(w) \/ CatWrites(w) \/ CatEnds(w) \/ CatFails(w)
       \/ ClientLost(w) \/ Close(w)
  \/ ContainerExits
  \/ \E r \in Reads :
       \/ \E a \in Requests : Read(r, a)
       \/ ReadLine(r) \/ ReadReturns(r) \/ ReadFails(r)

Spec == Init /\ [][Next]_vars

-----------------------------------------------------------------------------
\* A write that overlapped no other, counting the process a lost client left
\* behind, has stored a beginning of its content and nothing else until another
\* write opens the file: with Docker all of it if it resolved, with the Apple
\* runtime nothing, resolved or not (write; spawn in container-exec.ts).
LoneWriteStored ==
  \A w \in Writes \ crowded :
    opener = w =>
      /\ file = Content(w, written[w])
      /\ runtime = "apple" => file = <<>>
      /\ runtime = "docker" /\ call[w] = "done" => written[w] = size[w]

\* However writes overlap, a line is at the place its own content has it, and
\* only overlapping writes leave holes (write: every cat has its own offset).
NoShiftedLines ==
  \A i \in DOMAIN file :
    IF file[i] = Hole THEN crowded # {} ELSE file[i][2] = i

\* What a request asks for: limit lines of those from line on.
Asked(f, a) ==
  LET rest == IF a.line = Null THEN f ELSE SubSeq(f, a.line, Len(f))
  IN  IF a.limit = Null \/ a.limit > Len(rest) THEN rest ELSE SubSeq(rest, 1, a.limit)

\* A read during which the file does not change returns exactly the lines that
\* were asked for, but for those a chunk boundary garbled, whatever writes are
\* in flight (read, spawnAndCollect).
ReadExact ==
  \A r \in Reads \ disturbed :
    read[r] = "done" =>
      LET expected == Asked(seen[r], asked[r])
      IN  /\ Len(result[r]) = Len(expected)
          /\ \A i \in DOMAIN expected : result[r][i] \in {expected[i], Garbled}
=============================================================================
