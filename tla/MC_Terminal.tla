----------------------------- MODULE MC_Terminal -----------------------------
(* Terminal with two sessions, of which one prints.                         *)
EXTENDS Terminal, TLC

CONSTANTS s1, s2

MCSessions == {s1, s2}

\* With a buffer of three pieces, the replay is none (twice), a piece after
\* the end of a line, or the whole of a buffer that has lost the first piece.
MCOutput == s1 :> <<"text", "line", "text", "line">> @@ s2 :> <<>>
=============================================================================
