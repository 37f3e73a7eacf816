---------------------------- MODULE Intercepter ----------------------------
(***************************************************************************)
(* internal/intercept: finds confirmation prompts in the output of a       *)
(* session.  Output is cut into the pieces that matter here, each of which *)
(* a read can end after: the two halves of an ANSI sequence ("esc", "fin") *)
(* and of an indicator such as "(Y/n)" ("open", "shut"), the spaces and    *)
(* the colon that may follow it ("pad"), the end of a line ("nl") and any  *)
(* other text.  A byte carries its place in the output, so that a prompt   *)
(* is known by the place where its indicator ends; its text, options and   *)
(* default are left out.                                                   *)
(***************************************************************************)
EXTENDS Windows, SequencesExt

CONSTANT MaxLine      \* maxLineBuffer

Kinds == {"text", "esc", "fin", "open", "shut", "pad", "nl"}

ASSUME LineAssumption == MaxLine \in Nat \ {0}

KindAt(s, k) == IF k \in DOMAIN s THEN s[k].kind ELSE "none"

\* s without its complete ANSI sequences.
StripANSI(s) ==
  LET InEscape(k) ==
        \/ KindAt(s, k) = "esc" /\ KindAt(s, k + 1) = "fin"
        \/ KindAt(s, k) = "fin" /\ KindAt(s, k - 1) = "esc"
      Keep(kept, k) == IF InEscape(k) THEN kept ELSE Append(kept, s[k])
  IN  FoldLeftDomain(Keep, <<>>, s)

\* The prompt a line ends with, if it does.
MatchLine(s) ==
  LET line == StripANSI(s)
      end  == SelectLastInSeq(line, LAMBDA b : b.kind # "pad")
  IN  IF KindAt(line, end) = "shut" /\ KindAt(line, end - 1) = "open"
      THEN <<line[end].at>> ELSE <<>>

\* A line without an end grows for ever.
ScanByteUnbounded(s, b) ==                                     \* mutant
  IF b.kind = "nl"
  THEN [buf |-> <<>>, prompts |-> s.prompts \o MatchLine(s.buf)]
  ELSE [s EXCEPT !.buf = Append(@, b)]

\* One byte: a complete line is matched, an incomplete one grows.
ScanByte(s, b) ==
  IF b.kind = "nl"
  THEN [buf |-> <<>>, prompts |-> s.prompts \o MatchLine(s.buf)]
  ELSE [s EXCEPT !.buf = LastOf(Append(@, b), MaxLine)]

Scanned(buf, chunk) ==
  FoldLeft(ScanByte, [buf |-> buf, prompts |-> <<>>], chunk)

\* The incomplete line of an earlier chunk is dropped.
ScanAlone(buf, chunk) ==                                       \* mutant
  LET s == Scanned(<<>>, chunk) IN
  [buf |-> s.buf, prompts |-> s.prompts \o MatchLine(s.buf)]

\* A prompt that was found stays in the buffer.
ScanAgain(buf, chunk) ==                                       \* mutant
  LET s == Scanned(buf, chunk) IN
  [buf |-> s.buf, prompts |-> s.prompts \o MatchLine(s.buf)]

\* A chunk; the line it leaves incomplete is matched as well, and dropped
\* when it is a prompt.
Scan(buf, chunk) ==
  LET s == Scanned(buf, chunk)
      p == MatchLine(s.buf)
  IN  [buf |-> IF p = <<>> THEN s.buf ELSE <<>>, prompts |-> s.prompts \o p]

=============================================================================
