---------------------------- MODULE OutputBuffer ----------------------------
(***************************************************************************)
(* The byte-limited output of a terminal (appendOutput, terminal-          *)
(* manager.ts).  Text is the sequence of its UTF-8 bytes: a character of   *)
(* width w is a lead byte, any number but 0, and w - 1 continuation bytes, *)
(* written 0.                                                              *)
(***************************************************************************)
EXTENDS Integers, Sequences

CONSTANT NoLimit   \* no outputByteLimit was requested

ASSUME NoLimitAssumption == NoLimit \notin Int

MaxWidth == 4
Continuation == 0

\* U+FFFD, what a decoder makes of a byte it cannot read; 3 bytes long.
Replacement == <<-1, Continuation, Continuation>>

\* What toString makes of any bytes: a continuation byte is within reach of
\* the lead byte of its character.
Legible(text) ==
  /\ text \in Seq(Int)
  /\ \A i \in DOMAIN text :
       text[i] = Continuation =>
         \E w \in 1..MaxWidth - 1 : w < i /\ text[i - w] # Continuation

LastBytes(text, n) == SubSeq(text, Len(text) - n + 1, Len(text))

\* k replacement characters.
Replacements(k) == [i \in 1..3 * k |-> Replacement[((i - 1) % 3) + 1]]

\* Continuation bytes at the start of text, left of a character that was cut.
Stray(text) ==
  CHOOSE k \in 0..Len(text) :
    /\ \A i \in 1..k : text[i] = Continuation
    /\ k < Len(text) => text[k + 1] # Continuation

\* Buffer.toString on bytes that begin anywhere: a character each for them.
Decode(bytes) ==
  LET k == Stray(bytes) IN Replacements(k) \o LastBytes(bytes, Len(bytes) - k)

Exceeds(text, limit) == limit # NoLimit /\ Len(text) > limit

\* Plausible bug: the head of the output is kept instead of its tail.
Truncate_KeepsHead(text, limit) ==
  IF Exceeds(text, limit) THEN Decode(SubSeq(text, 1, limit)) ELSE text

\* The last bytes that fit, decoded.
Truncate(text, limit) ==
  IF Exceeds(text, limit) THEN Decode(LastBytes(text, limit)) ELSE text

AppendOutput(text, chunk, limit) == Truncate(text \o chunk, limit)
=============================================================================
