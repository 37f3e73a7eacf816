------------------------------ MODULE Windows ------------------------------
(***************************************************************************)
(* The end of a sequence: what the ring buffer keeps of the output and the *)
(* intercepter of a line.                                                  *)
(***************************************************************************)
EXTENDS Integers, Sequences

\* The last n elements of s, or all of it when it is shorter.
LastOf(s, n) == IF Len(s) <= n THEN s ELSE SubSeq(s, Len(s) - n + 1, Len(s))

=============================================================================
