--------------------------- MODULE MC_Intercept ---------------------------
(***************************************************************************)
(* The intercepter alone, on every output of up to MaxOutput pieces and    *)
(* every way to cut it into chunks of up to MaxChunk, against what a       *)
(* prompt is when the whole line is seen at once.                          *)
(***************************************************************************)
EXTENDS Intercepter

CONSTANTS MaxOutput, MaxChunk

ASSUME OutputAssumption == {MaxOutput, MaxChunk} \subseteq Nat

VARIABLES output,    \* what has been read
          buf,       \* the intercepter's buffer
          found      \* the prompts it has returned

vars == <<output, buf, found>>

Init == output = <<>> /\ buf = <<>> /\ found = <<>>

Read ==
  \E kinds \in BoundedSeq(Kinds, MaxChunk) \ {<<>>} :
    LET chunk == [k \in DOMAIN kinds |->
                    [at |-> Len(output) + k, kind |-> kinds[k]]]
        scan  == Scan(buf, chunk)
    IN  /\ Len(output) + Len(chunk) <= MaxOutput
        /\ output' = output \o chunk
        /\ buf' = scan.buf
        /\ found' = found \o scan.prompts

Finished == Len(output) = MaxOutput /\ UNCHANGED vars

Next == Read \/ Finished

Spec == Init /\ [][Next]_vars

\* The buffer is a part of the line that is being read, and never grows
\* beyond MaxLine, whatever the output (intercepter.go:53).
BufferIsBounded ==
  /\ Len(buf) <= MaxLine
  /\ IsSuffix(buf, output)
  /\ \A k \in DOMAIN buf : buf[k].kind # "nl"

\* The line that ends at e, without its line end.
LineUpTo(e) ==
  LET start == SelectLastInSeq(SubSeq(output, 1, e), LAMBDA b : b.kind = "nl")
  IN  SubSeq(output, start + 1, e)

LineEnds == {e \in DOMAIN output :
               e = Len(output) \/ KindAt(output, e + 1) = "nl"}

\* A prompt that ends a line, or that the output stops at to wait for an
\* answer, has been found however reads have cut it, as long as it is in the
\* last MaxLine bytes of the line (intercepter.go:37-70).
PromptsFound ==
  \A e \in LineEnds :
    ToSet(MatchLine(LastOf(LineUpTo(e), MaxLine))) \subseteq ToSet(found)

\* No prompt is returned twice, neither with the next chunk nor at the end
\* of its line (intercepter.go:64).
NoPromptTwice ==
  \A j, k \in DOMAIN found : found[j] = found[k] => j = k

=============================================================================
