------------------------- MODULE MCTerminalManager -------------------------
(* Two terminals; characters of one and of four bytes.                     *)
EXTENDS TerminalManager

CONSTANTS t1, t2

OneByte == <<1>>
FourBytes == <<4, Continuation, Continuation, Continuation>>

MCTerminals == {t1, t2}
MCChunks == {OneByte, FourBytes}
MCLimits == {3, NoLimit}
MCErrorText == <<1, 1>>
=============================================================================
