---------------------------- MODULE SessionModes ----------------------------
(***************************************************************************)
(* The mode section of a CLAUDE.md (session-modes.ts).  The file is a      *)
(* sequence of tokens: the two markers, the prompts of modes, other text.  *)
(***************************************************************************)
EXTENDS Integers, Sequences

Start == "<!-- SWAPCLAW_MODE -->"
End == "<!-- /SWAPCLAW_MODE -->"
ValidModes == {"code", "ask", "architect"}
Markers == {Start, End}

ModeBlock(mode) == <<Start, mode, End>>

\* The places of a start marker and of a later end marker.
Sections(f) ==
  {p \in (DOMAIN f) \X (DOMAIN f) : f[p[1]] = Start /\ f[p[2]] = End /\ p[1] < p[2]}

Replace(f, p, block) == SubSeq(f, 1, p[1] - 1) \o block \o SubSeq(f, p[2] + 1, Len(f))

\* Plausible bug: a greedy regular expression, up to the last end marker.
ApplyModeToClaude_Greedy(f, mode) ==
  IF Sections(f) = {} THEN f \o ModeBlock(mode)
  ELSE Replace(f, CHOOSE p \in Sections(f) : \A q \in Sections(f) : p[1] <= q[1] /\ p[2] >= q[2],
               ModeBlock(mode))

\* Plausible bug: a new section every time.
ApplyModeToClaude_Appends(f, mode) == f \o ModeBlock(mode)

\* Plausible bug: everything from the start marker on is replaced.
ApplyModeToClaude_ToTheEnd(f, mode) ==
  IF Sections(f) = {} THEN f \o ModeBlock(mode)
  ELSE LET p == CHOOSE p \in Sections(f) : \A q \in Sections(f) : p[1] <= q[1]
       IN  Replace(f, <<p[1], Len(f)>>, ModeBlock(mode))

\* The leftmost match of START[\s\S]*?END, or the end of the file.
ApplyModeToClaude(f, mode) ==
  IF Sections(f) = {} THEN f \o ModeBlock(mode)
  ELSE Replace(f, CHOOSE p \in Sections(f) :
                    \A q \in Sections(f) : p[1] < q[1] \/ (p[1] = q[1] /\ p[2] <= q[2]),
               ModeBlock(mode))
=============================================================================
