-------------------------- MODULE InterceptProofs --------------------------
(***************************************************************************)
(* The intercepter finds every prompt, once, and in bounded memory,        *)
(* whatever is printed and however reads cut it.                           *)
(*                                                                         *)
(* The invariant says where the buffer stands in the current line: it has  *)
(* the last MaxLine pieces of what follows a cut, which is the start of    *)
(* the line or ends with the last prompt that was found.  Hence what is    *)
(* found next lies beyond the cut, and is new; and a prompt of the whole   *)
(* line is either the one before the cut or a prompt of the buffer, since  *)
(* nothing but padding and ANSI sequences separates it from the end.       *)
(***************************************************************************)
EXTENDS MC_Intercept, StreamLemmas

----------------------------------------------------------------------------
(* Lines, and what has been found of them.                                *)

\* Every piece carries its place.
Placed(q) == q \in Seq(Piece) /\ \A k \in 1 .. Len(q) : q[k].at = k

\* The line of q that ends at e starts after a.
Line(q, a, e) ==
  /\ a \in 0 .. e
  /\ a = 0 \/ q[a].kind = "nl"
  /\ \A k \in a + 1 .. e : q[k].kind # "nl"

\* The prompt that the line ends with has been found.
Caught(q, a, e, f) ==
  ToSet(MatchLine(LastOf(SubSeq(q, a + 1, e), MaxLine))) \subseteq ToSet(f)

\* Nothing but padding and ANSI sequences follows a prompt at j up to c.
Ends(q, j, c) ==
  q[j].kind = "shut" /\ \A k \in j + 1 .. c : q[k].kind \in {"esc", "fin", "pad"}

\* The buffer has the end of the current line; what was cut off from it, up
\* to c, ends with a prompt that has been found.
Progress(q, b, f, a, c) ==
  /\ Line(q, a, Len(q)) /\ c \in a .. Len(q)
  /\ b = LastOf(SubSeq(q, c + 1, Len(q)), MaxLine)
  /\ c = a \/ \E j \in a + 1 .. c : j \in ToSet(f) /\ Ends(q, j, c)
  /\ f \in Seq(Nat)
  /\ \A k \in 1 .. Len(f) : f[k] <= c
  /\ \A k, l \in 1 .. Len(f) : k < l => f[k] < f[l]

----------------------------------------------------------------------------
(* What MatchLine says of a window on the output.                          *)

\* k is in a complete ANSI sequence of the pieces after o up to n.
EscapeIn(q, o, n, k) ==
  \/ q[k].kind = "esc" /\ k + 1 <= n /\ q[k + 1].kind = "fin"
  \/ q[k].kind = "fin" /\ o + 1 <= k - 1 /\ q[k - 1].kind = "esc"

\* These pieces end with a prompt.
PromptIn(q, o, n, i, j) ==
  /\ i \in o + 1 .. n /\ j \in o + 1 .. n /\ i < j
  /\ q[i].kind = "open" /\ q[j].kind = "shut"
  /\ \A k \in i + 1 .. j - 1 : EscapeIn(q, o, n, k)
  /\ \A k \in j + 1 .. n : EscapeIn(q, o, n, k) \/ q[k].kind = "pad"

\* Where the last MaxLine pieces after d start.
Origin(q, d) == IF Len(q) - d <= MaxLine THEN d ELSE Len(q) - MaxLine

\* The pieces of the last MaxLine after d, by their places in q.
LEMMA WindowIs ==
  ASSUME NEW q \in Seq(Piece), NEW d \in 0 .. Len(q), NEW w,
         w = LastOf(SubSeq(q, d + 1, Len(q)), MaxLine)
  PROVE  /\ Origin(q, d) \in d .. Len(q)
         /\ w \in Seq(Piece) /\ Len(w) = Len(q) - Origin(q, d)
         /\ \A k \in 1 .. Len(q) - Origin(q, d) : w[k] = q[Origin(q, d) + k]
  <1> DEFINE n == Len(q)
             s == SubSeq(q, d + 1, n)
             o == Origin(q, d)
             m == WindowLen(n - d, MaxLine)
  <1>0. n \in Nat /\ MaxLine \in Nat /\ MaxLine > 0 /\ d \in Nat /\ d <= n
    BY LineAssumption
  <1>1. s \in Seq(Piece) /\ Len(s) = n - d /\ \A k \in 1 .. n - d : s[k] = q[d + k]
    BY <1>0
  <1>2. /\ LastOf(s, MaxLine) \in Seq(Piece)
        /\ Len(LastOf(s, MaxLine)) = m
        /\ \A k \in 1 .. m : LastOf(s, MaxLine)[k] = s[n - d - m + k]
    <2> HIDE DEF s
    <2>1. /\ LastOf(s, MaxLine) \in Seq(Piece)
          /\ Len(LastOf(s, MaxLine)) = WindowLen(Len(s), MaxLine)
          /\ \A k \in 1 .. WindowLen(Len(s), MaxLine) :
               LastOf(s, MaxLine)[k] = s[Len(s) - WindowLen(Len(s), MaxLine) + k]
      BY <1>0, <1>1, LastOfFacts
    <2>2. QED
      BY <1>1, <2>1
  <1>3. o = n - m /\ o \in d .. n /\ m \in 0 .. n - d
    BY <1>0 DEF Origin, WindowLen
  <1>4. w = LastOf(s, MaxLine)
    OBVIOUS
  <1> HIDE DEF n, s, o, m
  <1>5. \A k \in 1 .. n - o : w[k] = q[o + k]
    <2> SUFFICES ASSUME NEW k \in 1 .. n - o PROVE w[k] = q[o + k]
      OBVIOUS
    <2>1. k \in 1 .. m /\ n - d - m + k \in 1 .. n - d /\ d + (n - d - m + k) = o + k
      BY <1>0, <1>3
    <2>2. QED
      BY <1>1, <1>2, <1>4, <2>1
  <1>6. w \in Seq(Piece) /\ Len(w) = n - o
    BY <1>0, <1>2, <1>3, <1>4
  <1>7. QED
    BY <1>3, <1>5, <1>6 DEF n, o

\* Whether a piece of a window is in an ANSI sequence, by its place in q.
LEMMA EscapeShifts ==
  ASSUME NEW q \in Seq(Piece), NEW o \in 0 .. Len(q), NEW w \in Seq(Piece),
         Len(w) = Len(q) - o, \A k \in 1 .. Len(q) - o : w[k] = q[o + k],
         NEW k \in 1 .. Len(w)
  PROVE  InEscape(w, k) <=> EscapeIn(q, o, Len(q), o + k)
  <1> DEFINE n == Len(q)
             m == Len(w)
  <1>0. n \in Nat /\ m \in Nat /\ m = n - o /\ DOMAIN w = 1 .. m /\ o \in Nat
    OBVIOUS
  <1>1. \A x \in 1 .. m : KindAt(w, x) = q[o + x].kind
    BY <1>0 DEF KindAt
  <1>2. \A x : x \notin 1 .. m => KindAt(w, x) = "none"
    BY <1>0 DEF KindAt
  <1> HIDE DEF n, m
  <1>3. KindAt(w, k) = q[o + k].kind
    BY <1>0, <1>1 DEF m
  <1>4. KindAt(w, k + 1) = "fin" <=> (o + k + 1 <= n /\ q[o + k + 1].kind = "fin")
    <2>1. CASE k + 1 \in 1 .. m
      <3>1. KindAt(w, k + 1) = q[o + (k + 1)].kind /\ o + (k + 1) = o + k + 1 /\ o + k + 1 <= n
        BY <1>0, <1>1, <2>1 DEF m
      <3>2. QED
        BY <3>1
    <2>2. CASE k + 1 \notin 1 .. m
      <3>1. KindAt(w, k + 1) = "none" /\ ~(o + k + 1 <= n)
        BY <1>0, <1>2, <2>2 DEF m
      <3>2. QED
        BY <3>1
    <2>3. QED
      BY <2>1, <2>2
  <1>5. KindAt(w, k - 1) = "esc" <=> (o + 1 <= o + k - 1 /\ q[o + k - 1].kind = "esc")
    <2>1. CASE k - 1 \in 1 .. m
      <3>1. KindAt(w, k - 1) = q[o + (k - 1)].kind
        BY <1>1, <2>1
      <3>2. k \in Int /\ o \in Int
        BY <1>0
      <3>3. o + (k - 1) = o + k - 1 /\ o + 1 <= o + k - 1
        BY <2>1, <3>2
      <3>4. QED
        BY <3>1, <3>3
    <2>2. CASE k - 1 \notin 1 .. m
      <3>1. KindAt(w, k - 1) = "none" /\ ~(o + 1 <= o + k - 1)
        BY <1>0, <1>2, <2>2 DEF m
      <3>2. QED
        BY <3>1
    <2>3. QED
      BY <2>1, <2>2
  <1>6. QED
    BY <1>3, <1>4, <1>5 DEF InEscape, EscapeIn, n

\* Whether a window ends with a prompt, by its place in q.
LEMMA PromptShifts ==
  ASSUME NEW q \in Seq(Piece), NEW o \in 0 .. Len(q), NEW w \in Seq(Piece),
         Len(w) = Len(q) - o, \A k \in 1 .. Len(q) - o : w[k] = q[o + k],
         NEW i \in Nat, NEW j \in Nat
  PROVE  PromptAt(w, i, j) <=> PromptIn(q, o, Len(q), o + i, o + j)
  <1> DEFINE n == Len(q)
             m == Len(w)
  <1>0. n \in Nat /\ m \in Nat /\ m = n - o /\ o \in Nat
    OBVIOUS
  <1>1. \A k \in 1 .. m : InEscape(w, k) <=> EscapeIn(q, o, n, o + k)
    BY EscapeShifts
  <1>2. \A k \in 1 .. m : w[k] = q[o + k]
    OBVIOUS
  <1> HIDE DEF n, m
  <1>3. ASSUME PromptAt(w, i, j) PROVE PromptIn(q, o, n, o + i, o + j)
    <2>1. /\ i \in 1 .. m /\ j \in 1 .. m /\ i < j
          /\ w[i].kind = "open" /\ w[j].kind = "shut"
          /\ \A k \in i + 1 .. j - 1 : InEscape(w, k)
          /\ \A k \in j + 1 .. m : InEscape(w, k) \/ w[k].kind = "pad"
      BY <1>3 DEF PromptAt, m
    <2>2. o + i \in o + 1 .. n /\ o + j \in o + 1 .. n /\ o + i < o + j
      BY <1>0, <2>1
    <2>3. q[o + i].kind = "open" /\ q[o + j].kind = "shut"
      BY <1>2, <2>1
    <2>4. ASSUME NEW k \in o + i + 1 .. o + j - 1 PROVE EscapeIn(q, o, n, k)
      <3>1. k - o \in i + 1 .. j - 1 /\ k - o \in 1 .. m /\ o + (k - o) = k
        BY <1>0, <2>1
      <3>2. QED
        BY <1>1, <2>1, <3>1
    <2>5. ASSUME NEW k \in o + j + 1 .. n PROVE EscapeIn(q, o, n, k) \/ q[k].kind = "pad"
      <3>1. k - o \in j + 1 .. m /\ k - o \in 1 .. m /\ o + (k - o) = k
        BY <1>0, <2>1
      <3>2. QED
        BY <1>1, <1>2, <2>1, <3>1
    <2>6. QED
      BY <2>2, <2>3, <2>4, <2>5 DEF PromptIn
  <1>4. ASSUME PromptIn(q, o, n, o + i, o + j) PROVE PromptAt(w, i, j)
    <2>1. /\ o + i \in o + 1 .. n /\ o + j \in o + 1 .. n /\ o + i < o + j
          /\ q[o + i].kind = "open" /\ q[o + j].kind = "shut"
          /\ \A k \in o + i + 1 .. o + j - 1 : EscapeIn(q, o, n, k)
          /\ \A k \in o + j + 1 .. n : EscapeIn(q, o, n, k) \/ q[k].kind = "pad"
      BY <1>4 DEF PromptIn
    <2>2. i \in 1 .. m /\ j \in 1 .. m /\ i < j
      <3>1. o + i \in o + 1 .. n /\ o + j \in o + 1 .. n /\ o + i < o + j
        BY <2>1
      <3>2. i \in Nat /\ j \in Nat
        OBVIOUS
      <3>3. QED
        BY ONLY <1>0, <3>1, <3>2
    <2>3. w[i].kind = "open" /\ w[j].kind = "shut"
      BY <1>2, <2>1, <2>2
    <2>4. ASSUME NEW k \in i + 1 .. j - 1 PROVE InEscape(w, k)
      <3>1. o + k \in o + i + 1 .. o + j - 1 /\ k \in 1 .. m
        BY <1>0, <2>2
      <3>2. QED
        BY <1>1, <2>1, <3>1
    <2>5. ASSUME NEW k \in j + 1 .. m PROVE InEscape(w, k) \/ w[k].kind = "pad"
      <3>1. o + k \in o + j + 1 .. n /\ k \in 1 .. m
        BY <1>0, <2>2
      <3>2. QED
        BY <1>1, <1>2, <2>1, <3>1
    <2>6. QED
      BY <2>2, <2>3, <2>4, <2>5 DEF PromptAt, m
  <1>5. QED
    BY <1>3, <1>4 DEF n

\* What MatchLine says of the end of q.
LEMMA WindowMatch ==
  ASSUME NEW q, Placed(q), NEW d \in 0 .. Len(q), NEW w,
         w = LastOf(SubSeq(q, d + 1, Len(q)), MaxLine)
  PROVE  /\ \A i, j \in Nat : PromptIn(q, Origin(q, d), Len(q), i, j) => MatchLine(w) = <<j>>
         /\ \/ MatchLine(w) = <<>>
            \/ \E i, j \in Nat : PromptIn(q, Origin(q, d), Len(q), i, j) /\ MatchLine(w) = <<j>>
  <1> DEFINE n == Len(q)
             o == Origin(q, d)
  <1>0. q \in Seq(Piece) /\ n \in Nat /\ d \in Nat
    BY DEF Placed
  <1>1. /\ o \in d .. n /\ w \in Seq(Piece) /\ Len(w) = n - o
        /\ \A k \in 1 .. n - o : w[k] = q[o + k]
    BY <1>0, WindowIs
  <1>2. o \in 0 .. n /\ o \in Nat
    BY <1>0, <1>1
  <1> HIDE DEF o
  <1>3. \A i, j \in Nat : PromptAt(w, i, j) <=> PromptIn(q, o, n, o + i, o + j)
    BY <1>0, <1>1, <1>2, PromptShifts
  <1>4. \A k \in 1 .. Len(w) : w[k].at = o + k
    <2> SUFFICES ASSUME NEW k \in 1 .. Len(w) PROVE w[k].at = o + k
      OBVIOUS
    <2>1. k \in 1 .. n - o /\ o + k \in 1 .. n
      BY <1>0, <1>1, <1>2
    <2>2. w[k] = q[o + k] /\ q[o + k].at = o + k
      BY <1>1, <2>1 DEF Placed
    <2>3. QED
      BY <2>2
  <1>5. ASSUME NEW i \in Nat, NEW j \in Nat, PromptIn(q, o, n, i, j)
        PROVE  MatchLine(w) = <<j>>
    <2>1. i \in o + 1 .. n /\ j \in o + 1 .. n
      BY <1>5 DEF PromptIn
    <2>2. i - o \in Nat /\ j - o \in Nat /\ o + (i - o) = i /\ o + (j - o) = j
          /\ j - o \in 1 .. Len(w)
      BY <1>0, <1>1, <1>2, <2>1
    <2>3. PromptAt(w, i - o, j - o)
      BY <1>3, <1>5, <2>2
    <2>4. MatchLine(w) = <<w[j - o].at>>
      BY <1>1, <2>2, <2>3, MatchLineIs
    <2>5. w[j - o].at = j
      BY <1>4, <2>2
    <2>6. QED
      BY <2>4, <2>5
  <1>6. ASSUME NEW i \in Nat, NEW j \in Nat, PromptAt(w, i, j), MatchLine(w) = <<w[j].at>>
        PROVE  \E k, l \in Nat : PromptIn(q, o, n, k, l) /\ MatchLine(w) = <<l>>
    <2>1. PromptIn(q, o, n, o + i, o + j)
      BY <1>3, <1>6
    <2>2. j \in 1 .. Len(w)
      BY <1>6 DEF PromptAt
    <2>3. MatchLine(w) = <<o + j>> /\ o + i \in Nat /\ o + j \in Nat
      BY <1>2, <1>4, <1>6, <2>2
    <2>4. QED
      BY <2>1, <2>3
  <1>7. \/ MatchLine(w) = <<>>
        \/ \E i, j \in Nat : PromptAt(w, i, j) /\ MatchLine(w) = <<w[j].at>>
    BY <1>1, MatchLineIs
  <1>8. QED
    BY <1>5, <1>6, <1>7 DEF n, o

\* A prompt that ends a window after a and is not cut in two at c is found
\* by the window after c, or is the one that the part up to c ends with.
LEMMA CutPrompt ==
  ASSUME NEW q \in Seq(Piece), NEW a \in Nat, NEW c \in a .. Len(q), NEW j0 \in a + 1 .. c,
         Ends(q, j0, c), NEW o \in Nat, o < c, NEW i \in Nat, NEW j \in Nat,
         PromptIn(q, o, Len(q), i, j)
  PROVE  j = j0 \/ PromptIn(q, c, Len(q), i, j)
  <1> DEFINE n == Len(q)
  <1>0. n \in Nat /\ c \in Nat /\ j0 \in Nat /\ j0 <= c /\ c <= n
    OBVIOUS
  <1>1. /\ i \in o + 1 .. n /\ j \in o + 1 .. n /\ i < j
        /\ q[i].kind = "open" /\ q[j].kind = "shut"
        /\ \A k \in i + 1 .. j - 1 : EscapeIn(q, o, n, k)
        /\ \A k \in j + 1 .. n : EscapeIn(q, o, n, k) \/ q[k].kind = "pad"
    BY DEF PromptIn
  <1>2. q[j0].kind = "shut" /\ \A k \in j0 + 1 .. c : q[k].kind \in {"esc", "fin", "pad"}
    BY DEF Ends
  <1> HIDE DEF n
  <1>3. ~EscapeIn(q, o, n, j0)
    BY <1>2 DEF EscapeIn
  <1>4. CASE j <= c
    <2>1. ~(j0 < j)
      <3> SUFFICES ASSUME j0 < j PROVE FALSE
        OBVIOUS
      <3>1. j \in j0 + 1 .. c
        BY <1>0, <1>4
      <3>2. QED
        BY <1>1, <1>2, <3>1
    <2>2. ~(j < j0)
      <3> SUFFICES ASSUME j < j0 PROVE FALSE
        OBVIOUS
      <3>1. j0 \in j + 1 .. n
        BY <1>0
      <3>2. QED
        BY <1>1, <1>2, <1>3, <3>1
    <2>3. QED
      BY <1>0, <2>1, <2>2
  <1>5. CASE j > c
    <2>1. i > c
      <3> SUFFICES ASSUME i <= c PROVE FALSE
        OBVIOUS
      <3>1. CASE i < j0
        <4>1. j0 \in i + 1 .. j - 1
          BY <1>0, <1>5, <3>1
        <4>2. QED
          BY <1>1, <1>3, <4>1
      <3>2. CASE i = j0
        BY <1>1, <1>2, <3>2
      <3>3. CASE i > j0
        <4>1. i \in j0 + 1 .. c
          BY <1>0, <3>3
        <4>2. QED
          BY <1>1, <1>2, <4>1
      <3>4. QED
        BY <1>0, <3>1, <3>2, <3>3
    <2>2. i \in c + 1 .. n /\ j \in c + 1 .. n
      BY <1>0, <1>1, <1>5, <2>1
    <2>3. ASSUME NEW k \in i + 1 .. n, EscapeIn(q, o, n, k)
          PROVE  EscapeIn(q, c, n, k)
      <3>1. c + 1 <= k - 1
        BY <1>0, <2>1
      <3>2. QED
        BY <2>3, <3>1 DEF EscapeIn
    <2>4. \A k \in i + 1 .. j - 1 : EscapeIn(q, c, n, k)
      <3> SUFFICES ASSUME NEW k \in i + 1 .. j - 1 PROVE EscapeIn(q, c, n, k)
        OBVIOUS
      <3>1. k \in i + 1 .. n
        BY <1>0, <2>2
      <3>2. QED
        BY <1>1, <2>3, <3>1
    <2>5. \A k \in j + 1 .. n : EscapeIn(q, c, n, k) \/ q[k].kind = "pad"
      <3> SUFFICES ASSUME NEW k \in j + 1 .. n PROVE EscapeIn(q, c, n, k) \/ q[k].kind = "pad"
        OBVIOUS
      <3>1. k \in i + 1 .. n
        BY <1>0, <1>1, <2>2
      <3>2. QED
        BY <1>1, <2>3, <3>1
    <2>6. PromptIn(q, c, n, i, j)
      BY <1>1, <2>2, <2>4, <2>5 DEF PromptIn
    <2>7. QED
      BY <2>6 DEF n
  <1>6. QED
    BY <1>0, <1>4, <1>5

\* The line that q ends with is matched: what the buffer gives is all that
\* is missing, and is new.
LEMMA BufferMatch ==
  ASSUME NEW q, Placed(q), NEW b, NEW f, NEW a \in Nat, NEW c \in Nat, Progress(q, b, f, a, c)
  PROVE  /\ Caught(q, a, Len(q), f \o MatchLine(b))
         /\ \/ MatchLine(b) = <<>>
            \/ \E x \in c + 1 .. Len(q) : MatchLine(b) = <<x>> /\ Ends(q, x, Len(q))
  <1> DEFINE n == Len(q)
             w == LastOf(SubSeq(q, a + 1, n), MaxLine)
             o == Origin(q, a)
             oc == Origin(q, c)
             m == MatchLine(b)
  <1>0. /\ n \in Nat /\ q \in Seq(Piece) /\ a \in 0 .. n /\ c \in a .. n /\ c \in 0 .. n
        /\ Line(q, a, n)
        /\ b = LastOf(SubSeq(q, c + 1, n), MaxLine) /\ f \in Seq(Nat)
        /\ MaxLine \in Nat
    BY LineAssumption DEF Progress, Placed
  <1>1. /\ \A i, j \in Nat : PromptIn(q, o, n, i, j) => MatchLine(w) = <<j>>
        /\ \/ MatchLine(w) = <<>>
           \/ \E i, j \in Nat : PromptIn(q, o, n, i, j) /\ MatchLine(w) = <<j>>
    BY <1>0, WindowMatch
  <1>2. /\ \A i, j \in Nat : PromptIn(q, oc, n, i, j) => m = <<j>>
        /\ \/ m = <<>>
           \/ \E i, j \in Nat : PromptIn(q, oc, n, i, j) /\ m = <<j>>
    BY <1>0, WindowMatch
  <1>3. o \in a .. n /\ oc \in c .. n
    BY <1>0, LineAssumption DEF Origin
  <1>4. o = oc \/ (o < c /\ oc = c)
    <2>1. /\ o = IF n - a <= MaxLine THEN a ELSE n - MaxLine
          /\ oc = IF n - c <= MaxLine THEN c ELSE n - MaxLine
      BY DEF Origin
    <2>2. n \in Nat /\ a \in Nat /\ c \in Nat /\ MaxLine \in Nat /\ a <= c
      BY <1>0
    <2> HIDE DEF n, o, oc
    <2>3. QED
      BY ONLY <2>1, <2>2
  <1> HIDE DEF w, o, oc, m, n
  <1>5. m = <<>> \/ \E x \in c + 1 .. n : m = <<x>> /\ Ends(q, x, n)
    <2> SUFFICES ASSUME m # <<>> PROVE \E x \in c + 1 .. n : m = <<x>> /\ Ends(q, x, n)
      OBVIOUS
    <2>1. PICK i \in Nat, j \in Nat : PromptIn(q, oc, n, i, j) /\ m = <<j>>
      BY <1>2
    <2>2. /\ j \in oc + 1 .. n /\ q[j].kind = "shut"
          /\ \A k \in j + 1 .. n : EscapeIn(q, oc, n, k) \/ q[k].kind = "pad"
      BY <2>1 DEF PromptIn
    <2>3. j \in c + 1 .. n
      BY <1>0, <1>3, <2>2
    <2>4. Ends(q, j, n)
      BY <2>2 DEF Ends, EscapeIn
    <2>5. QED
      BY <2>1, <2>3, <2>4
  <1>6. m \in Seq(Nat)
    <2>1. CASE m = <<>>
      BY <2>1
    <2>2. ASSUME NEW x \in c + 1 .. n, m = <<x>> PROVE m \in Seq(Nat)
      <3>1. x \in Nat
        BY <1>0
      <3>2. QED
        BY <2>2, <3>1
    <2>3. QED
      BY <1>5, <2>1, <2>2
  <1>7. \A x : x \in ToSet(f) \/ x \in ToSet(m) => x \in ToSet(f \o m)
    <2>1. ASSUME NEW x, x \in ToSet(f) PROVE x \in ToSet(f \o m)
      <3>1. PICK k \in 1 .. Len(f) : x = f[k]
        BY <1>0, <2>1 DEF ToSet
      <3>2. k \in 1 .. Len(f \o m) /\ (f \o m)[k] = x
        BY <1>0, <1>6, <3>1
      <3>3. DOMAIN (f \o m) = 1 .. Len(f \o m)
        BY <1>0, <1>6
      <3>4. QED
        BY <3>2, <3>3 DEF ToSet
    <2>2. ASSUME NEW x, x \in ToSet(m) PROVE x \in ToSet(f \o m)
      <3>1. PICK k \in 1 .. Len(m) : x = m[k]
        BY <1>6, <2>2 DEF ToSet
      <3>2. Len(f) + k \in 1 .. Len(f \o m) /\ (f \o m)[Len(f) + k] = x
        BY <1>0, <1>6, <3>1
      <3>3. DOMAIN (f \o m) = 1 .. Len(f \o m)
        BY <1>0, <1>6
      <3>4. QED
        BY <3>2, <3>3 DEF ToSet
    <2>3. QED
      BY <2>1, <2>2
  <1>8. ToSet(MatchLine(w)) \subseteq ToSet(f) \cup ToSet(m)
    <2>1. CASE MatchLine(w) = <<>>
      BY <2>1 DEF ToSet
    <2>2. ASSUME NEW i \in Nat, NEW j \in Nat, PromptIn(q, o, n, i, j), MatchLine(w) = <<j>>
          PROVE  j \in ToSet(f) \cup ToSet(m)
      <3>1. ASSUME PromptIn(q, oc, n, i, j) PROVE j \in ToSet(m)
        <4>1. m = <<j>>
          BY <1>2, <3>1
        <4>2. QED
          BY <4>1 DEF ToSet
      <3>2. CASE o = oc
        BY <2>2, <3>1, <3>2
      <3>3. CASE o < c /\ oc = c
        <4>1. c # a
          BY <1>0, <1>3, <3>3
        <4>2. PICK j0 \in a + 1 .. c : j0 \in ToSet(f) /\ Ends(q, j0, c)
          BY <4>1 DEF Progress
        <4>3. j = j0 \/ PromptIn(q, c, n, i, j)
          <5>1. o \in Nat /\ c \in a .. Len(q) /\ PromptIn(q, o, Len(q), i, j)
            BY <1>0, <1>3, <2>2 DEF n
          <5>2. QED
            BY <1>0, <3>3, <4>2, <5>1, CutPrompt DEF n
        <4>4. QED
          BY <3>1, <3>3, <4>2, <4>3
      <3>4. QED
        BY <1>4, <3>2, <3>3
    <2>3. ASSUME NEW j \in Nat, MatchLine(w) = <<j>> PROVE ToSet(MatchLine(w)) = {j}
      BY <2>3 DEF ToSet
    <2>4. QED
      BY <1>1, <2>1, <2>2, <2>3
  <1>9. ToSet(MatchLine(w)) \subseteq ToSet(f \o m)
    BY <1>7, <1>8
  <1>10. Caught(q, a, n, f \o m)
    BY <1>9, Zenon DEF Caught, w
  <1>11. QED
    BY <1>5, <1>10 DEF n, m

\* A prompt beyond the cut extends what has been found.
LEMMA FoundGrows ==
  ASSUME NEW f \in Seq(Nat), NEW c \in Nat,
         \A k \in 1 .. Len(f) : f[k] <= c,
         \A k, l \in 1 .. Len(f) : k < l => f[k] < f[l],
         NEW n \in Nat, c <= n, NEW m, m = <<>> \/ \E x \in c + 1 .. n : m = <<x>>
  PROVE  /\ f \o m \in Seq(Nat)
         /\ \A k \in 1 .. Len(f \o m) : (f \o m)[k] <= n
         /\ \A k, l \in 1 .. Len(f \o m) : k < l => (f \o m)[k] < (f \o m)[l]
  <1>0. Len(f) \in Nat /\ \A k \in 1 .. Len(f) : f[k] \in Nat
    OBVIOUS
  <1>1. CASE m = <<>>
    <2>1. f \o m = f
      BY <1>1
    <2>2. QED
      BY <1>0, <2>1
  <1>2. ASSUME NEW x \in c + 1 .. n, m = <<x>>
        PROVE  /\ f \o m \in Seq(Nat)
               /\ \A k \in 1 .. Len(f \o m) : (f \o m)[k] <= n
               /\ \A k, l \in 1 .. Len(f \o m) : k < l => (f \o m)[k] < (f \o m)[l]
    <2> DEFINE g == f \o m
    <2>1. x \in Nat /\ m \in Seq(Nat) /\ Len(m) = 1 /\ m[1] = x
      BY <1>2
    <2>2. g \in Seq(Nat) /\ Len(g) = Len(f) + 1 /\ g[Len(f) + 1] = x
          /\ \A k \in 1 .. Len(f) : g[k] = f[k]
      <3>1. /\ g \in Seq(Nat) /\ Len(g) = Len(f) + Len(m)
            /\ \A k \in 1 .. Len(f) + Len(m) : g[k] = IF k <= Len(f) THEN f[k] ELSE m[k - Len(f)]
        BY <2>1, ConcatProperties
      <3>2. \A k \in 1 .. Len(f) : k \in 1 .. Len(f) + 1 /\ k <= Len(f)
        BY <1>0
      <3>3. /\ Len(f) + 1 \in 1 .. Len(f) + 1 /\ ~(Len(f) + 1 <= Len(f))
            /\ Len(f) + 1 - Len(f) = 1
        BY <1>0
      <3> HIDE DEF g
      <3>4. Len(g) = Len(f) + 1
        BY <2>1, <3>1
      <3>5. g[Len(f) + 1] = x
        <4>1. g[Len(f) + 1] = m[Len(f) + 1 - Len(f)]
          BY <2>1, <3>1, <3>3
        <4>2. QED
          BY <2>1, <3>3, <4>1
      <3>6. ASSUME NEW k \in 1 .. Len(f) PROVE g[k] = f[k]
        BY <2>1, <3>1, <3>2
      <3>7. QED
        BY <3>1, <3>4, <3>5, <3>6
    <2>2a. \A k \in 1 .. Len(f) : g[k] \in Nat /\ g[k] <= c
      BY <1>0, <2>2
    <2>2b. c < x /\ x <= n /\ g[Len(f) + 1] = x
      BY <2>2
    <2> HIDE DEF g
    <2>3. \A k \in 1 .. Len(g) : k \in 1 .. Len(f) \/ k = Len(f) + 1
      BY <1>0, <2>2
    <2>4. \A k \in 1 .. Len(g) : g[k] <= n
      BY <2>2a, <2>2b, <2>3
    <2>5. ASSUME NEW k \in 1 .. Len(g), NEW l \in 1 .. Len(g), k < l PROVE g[k] < g[l]
      <3>1. k \in 1 .. Len(f)
        BY <1>0, <2>2, <2>5
      <3>2. CASE l = Len(f) + 1
        <4>1. g[k] \in Nat /\ g[k] <= c /\ g[l] = x
          BY <2>2a, <2>2b, <3>1, <3>2
        <4>2. x \in Nat /\ c \in Nat /\ c < x
          BY <2>1, <2>2b
        <4>3. QED
          BY ONLY <4>1, <4>2
      <3>3. CASE l \in 1 .. Len(f)
        BY <2>2, <2>5, <3>1, <3>3
      <3>4. QED
        BY <2>3, <3>2, <3>3
    <2>6. QED
      BY <2>2, <2>4, <2>5 DEF g
  <1>3. QED
    BY <1>1, <1>2
----------------------------------------------------------------------------
(* One piece, and the end of a chunk.                                      *)

\* The lines of q that have ended were matched.
Past(q, f) ==
  \A e \in 1 .. Len(q), a \in 0 .. Len(q) :
    e + 1 <= Len(q) /\ q[e + 1].kind = "nl" /\ Line(q, a, e) => Caught(q, a, e, f)

\* So was the line that q ends with.
Present(q, f) == \A a \in 0 .. Len(q) : Line(q, a, Len(q)) => Caught(q, a, Len(q), f)

\* What has been found stays found.
LEMMA ToSetConcat ==
  ASSUME NEW f \in Seq(Nat), NEW m \in Seq(Nat)
  PROVE  ToSet(f) \subseteq ToSet(f \o m)
  <1>1. ASSUME NEW x, x \in ToSet(f) PROVE x \in ToSet(f \o m)
    <2>1. PICK k \in 1 .. Len(f) : x = f[k]
      BY <1>1 DEF ToSet
    <2>2. k \in 1 .. Len(f \o m) /\ (f \o m)[k] = x
      BY <2>1
    <2>3. DOMAIN (f \o m) = 1 .. Len(f \o m)
      OBVIOUS
    <2>4. QED
      BY <2>2, <2>3 DEF ToSet
  <1>2. QED
    BY <1>1

\* The line that ends at a place has one start.
LEMMA LineUnique ==
  ASSUME NEW q, NEW e \in Nat, NEW a, NEW b, Line(q, a, e), Line(q, b, e)
  PROVE  a = b
  <1>0. /\ a \in 0 .. e /\ b \in 0 .. e
        /\ a = 0 \/ q[a].kind = "nl"
        /\ b = 0 \/ q[b].kind = "nl"
        /\ \A k \in a + 1 .. e : q[k].kind # "nl"
        /\ \A k \in b + 1 .. e : q[k].kind # "nl"
    BY DEF Line
  <1>1. ~(a < b)
    <2> SUFFICES ASSUME a < b PROVE FALSE
      OBVIOUS
    <2>1. b \in a + 1 .. e /\ b # 0
      BY <1>0
    <2>2. QED
      BY <1>0, <2>1
  <1>2. ~(b < a)
    <2> SUFFICES ASSUME b < a PROVE FALSE
      OBVIOUS
    <2>1. a \in b + 1 .. e /\ a # 0
      BY <1>0
    <2>2. QED
      BY <1>0, <2>1
  <1>3. QED
    BY <1>0, <1>1, <1>2

\* q1 is q with the piece p; what q is does not change when it grows.
Grown(q, p, q1) ==
  /\ Placed(q1) /\ Len(q1) = Len(q) + 1 /\ q1[Len(q) + 1] = p
  /\ \A k \in 1 .. Len(q) : q1[k] = q[k]
  /\ \A a \in Nat, e \in 0 .. Len(q) : SubSeq(q1, a + 1, e) = SubSeq(q, a + 1, e)
  /\ \A a \in Nat, e \in 0 .. Len(q) : Line(q1, a, e) <=> Line(q, a, e)

\* What one more piece leaves as it was.
LEMMA Extends ==
  ASSUME NEW q, Placed(q), NEW p \in Piece, p.at = Len(q) + 1,
         NEW q1, q1 = Append(q, p)
  PROVE  Grown(q, p, q1)
  <1> DEFINE n == Len(q)
  <1>1. q \in Seq(Piece) /\ n \in Nat /\ \A k \in 1 .. n : q[k].at = k
    BY DEF Placed
  <1>2. /\ q1 \in Seq(Piece) /\ Len(q1) = n + 1 /\ q1[n + 1] = p
        /\ \A k \in 1 .. n : q1[k] = q[k]
    BY <1>1
  <1>3. Placed(q1)
    <2>1. ASSUME NEW k \in 1 .. n + 1 PROVE q1[k].at = k
      <3>1. CASE k = n + 1
        BY <1>2, <3>1
      <3>2. CASE k \in 1 .. n
        BY <1>1, <1>2, <3>2
      <3>3. k = n + 1 \/ k \in 1 .. n
        BY <1>1
      <3>4. QED
        BY <3>1, <3>2, <3>3
    <2>2. QED
      BY <1>2, <2>1 DEF Placed
  <1>4. ASSUME NEW a \in Nat, NEW e \in 0 .. n
        PROVE  SubSeq(q1, a + 1, e) = SubSeq(q, a + 1, e)
    <2> DEFINE u == SubSeq(q1, a + 1, e)
               v == SubSeq(q, a + 1, e)
               len == IF a + 1 <= e THEN e - (a + 1) + 1 ELSE 0
    <2>1. \A k \in a + 1 .. e : k \in 1 .. n /\ q[k] \in Piece /\ q1[k] \in Piece
      BY <1>1, <1>2
    <2>2. /\ u \in Seq(Piece) /\ Len(u) = len
          /\ \A k \in 1 .. len : u[k] = q1[a + 1 + k - 1]
      BY <1>1, <2>1, SubSeqProperties
    <2>3. /\ v \in Seq(Piece) /\ Len(v) = len
          /\ \A k \in 1 .. len : v[k] = q[a + 1 + k - 1]
      BY <1>1, <2>1, SubSeqProperties
    <2>4. \A k \in 1 .. len : a + 1 + k - 1 \in 1 .. n
      BY <1>1
    <2> HIDE DEF u, v, len, n
    <2>5. \A k \in 1 .. len : u[k] = v[k]
      BY <1>2, <2>2, <2>3, <2>4
    <2>6. u = v
      BY <2>2, <2>3, <2>5, SeqEqual
    <2>7. QED
      BY <2>6 DEF u, v
  <1>5. ASSUME NEW a \in Nat, NEW e \in 0 .. n
        PROVE  Line(q1, a, e) <=> Line(q, a, e)
    <2>1. \A k \in a + 1 .. e : q1[k] = q[k]
      BY <1>1, <1>2
    <2>2. a \in 0 .. e /\ a # 0 => q1[a] = q[a]
      BY <1>1, <1>2
    <2>3. QED
      BY <2>1, <2>2 DEF Line
  <1>6. QED
    BY <1>2, <1>3, <1>4, <1>5 DEF Grown

\* A piece that does not end the line.
LEMMA PieceStep ==
  ASSUME NEW q, Placed(q), NEW p \in Piece, p.at = Len(q) + 1, p.kind # "nl",
         NEW q1, q1 = Append(q, p),
         NEW b, NEW f, NEW a \in Nat, NEW c \in Nat, Progress(q, b, f, a, c), Past(q, f)
  PROVE  Progress(q1, LastOf(Append(b, p), MaxLine), f, a, c) /\ Past(q1, f)
  <1> DEFINE n == Len(q)
             s == SubSeq(q, c + 1, n)
             s1 == SubSeq(q1, c + 1, n + 1)
  <1>0. n \in Nat /\ q \in Seq(Piece) /\ MaxLine \in Nat
    BY LineAssumption DEF Placed
  <1>1. /\ Line(q, a, n) /\ c \in a .. n
        /\ b = LastOf(s, MaxLine)
        /\ c = a \/ \E j \in a + 1 .. c : j \in ToSet(f) /\ Ends(q, j, c)
        /\ f \in Seq(Nat)
        /\ \A k \in 1 .. Len(f) : f[k] <= c
        /\ \A k, l \in 1 .. Len(f) : k < l => f[k] < f[l]
    BY DEF Progress
  <1>2. /\ Placed(q1) /\ q1 \in Seq(Piece) /\ Len(q1) = n + 1 /\ q1[n + 1] = p
        /\ \A k \in 1 .. n : q1[k] = q[k]
        /\ \A x \in Nat, e \in 0 .. n : SubSeq(q1, x + 1, e) = SubSeq(q, x + 1, e)
        /\ \A x \in Nat, e \in 0 .. n : Line(q1, x, e) <=> Line(q, x, e)
    <2>1. /\ Placed(q1) /\ Len(q1) = n + 1 /\ q1[n + 1] = p
          /\ \A k \in 1 .. n : q1[k] = q[k]
          /\ \A x \in Nat, e \in 0 .. n : SubSeq(q1, x + 1, e) = SubSeq(q, x + 1, e)
          /\ \A x \in Nat, e \in 0 .. n : Line(q1, x, e) <=> Line(q, x, e)
      <3>1. Grown(q, p, q1)
        BY Extends
      <3>2. QED
        BY <3>1, Zenon DEF Grown
    <2>2. q1 \in Seq(Piece)
      BY <2>1 DEF Placed
    <2>3. QED
      BY <2>1, <2>2
  <1> HIDE DEF n
  <1>3. Line(q1, a, n + 1)
    <2>1. Line(q1, a, n)
      BY <1>0, <1>1, <1>2
    <2>2. \A k \in a + 1 .. n + 1 : k \in a + 1 .. n \/ k = n + 1
      BY <1>0
    <2>3. a \in 0 .. n + 1
      BY <1>0, <2>1 DEF Line
    <2>4. QED
      BY <1>2, <2>1, <2>2, <2>3 DEF Line
  <1>4. s \o <<p>> = s1
    <2>1. /\ s \in Seq(Piece) /\ Len(s) = n - c /\ \A k \in 1 .. n - c : s[k] = q[c + k]
      BY <1>0, <1>1 DEF n
    <2>2. /\ s1 \in Seq(Piece) /\ Len(s1) = n - c + 1
          /\ \A k \in 1 .. n - c + 1 : s1[k] = q1[c + k]
      <3>1. s1 = SubSeq(q1, c + 1, Len(q1)) /\ c \in 0 .. Len(q1) /\ Len(q1) - c = n - c + 1
        BY <1>0, <1>1, <1>2
      <3>2. q1 \in Seq(Piece)
        BY <1>2
      <3>3. /\ SubSeq(q1, c + 1, Len(q1)) \in Seq(Piece)
            /\ Len(SubSeq(q1, c + 1, Len(q1))) = Len(q1) - c
            /\ \A k \in 1 .. Len(q1) - c : SubSeq(q1, c + 1, Len(q1))[k] = q1[c + k]
        BY ONLY <3>1, <3>2, Rest
      <3> HIDE DEF s1
      <3>4. QED
        BY ONLY <3>1, <3>3
    <2> HIDE DEF s, s1
    <2>3. <<p>> \in Seq(Piece) /\ Len(<<p>>) = 1 /\ <<p>>[1] = p
      OBVIOUS
    <2>4. /\ s \o <<p>> \in Seq(Piece) /\ Len(s \o <<p>>) = n - c + 1
          /\ \A k \in 1 .. n - c + 1 : (s \o <<p>>)[k] = IF k <= n - c THEN s[k] ELSE <<p>>[k - (n - c)]
      <3>1. /\ s \o <<p>> \in Seq(Piece) /\ Len(s \o <<p>>) = Len(s) + Len(<<p>>)
            /\ \A k \in 1 .. Len(s) + Len(<<p>>) :
                 (s \o <<p>>)[k] = IF k <= Len(s) THEN s[k] ELSE <<p>>[k - Len(s)]
        BY <2>1, <2>3, ConcatProperties
      <3>2. Len(s) = n - c /\ Len(s) + Len(<<p>>) = n - c + 1
        BY <2>1, <2>3
      <3>3. QED
        BY <3>1, <3>2
    <2> DEFINE t == s \o <<p>>
    <2> HIDE DEF t
    <2>5. ASSUME NEW k \in 1 .. n - c + 1 PROVE t[k] = s1[k]
      <3>1. CASE k <= n - c
        <4>1. k \in 1 .. n - c /\ c + k \in 1 .. n
          BY <1>0, <1>1, <3>1
        <4>2. QED
          BY <1>2, <2>1, <2>2, <2>4, <3>1, <4>1 DEF t
      <3>2. CASE ~(k <= n - c)
        <4>1. k - (n - c) = 1 /\ c + k = n + 1
          BY <1>0, <1>1, <3>2
        <4>2. QED
          BY <1>2, <2>2, <2>3, <2>4, <3>2, <4>1 DEF t
      <3>3. QED
        BY <3>1, <3>2
    <2>6. t = s1
      BY <2>2, <2>4, <2>5, SeqEqual DEF t
    <2>7. QED
      BY <2>6 DEF t
  <1>5. LastOf(Append(b, p), MaxLine) = LastOf(s1, MaxLine)
    <2>1. s \in Seq(Piece) /\ <<p>> \in Seq(Piece)
      BY <1>0, <1>1 DEF n
    <2>2. LastOf(LastOf(s, MaxLine) \o <<p>>, MaxLine) = LastOf(s \o <<p>>, MaxLine)
      BY <1>0, <2>1, LastOfConcat
    <2>3. b \in Seq(Piece)
      BY <1>0, <1>1, <2>1, LastOfFacts
    <2>4. Append(b, p) = b \o <<p>>
      BY <2>3
    <2>5. QED
      BY <1>1, <1>4, <2>2, <2>4
  <1>6. c = a \/ \E j \in a + 1 .. c : j \in ToSet(f) /\ Ends(q1, j, c)
    <2>1. ASSUME NEW j \in a + 1 .. c, Ends(q, j, c) PROVE Ends(q1, j, c)
      <3>1. j \in 1 .. n /\ \A k \in j + 1 .. c : k \in 1 .. n
        BY <1>0, <1>1
      <3>2. QED
        BY <1>2, <2>1, <3>1 DEF Ends
    <2>2. QED
      BY <1>1, <2>1
  <1>7. c \in a .. n + 1
    BY <1>0, <1>1
  <1>8. Progress(q1, LastOf(Append(b, p), MaxLine), f, a, c)
    BY <1>1, <1>2, <1>3, <1>5, <1>6, <1>7 DEF Progress
  <1>9. Past(q1, f)
    <2> SUFFICES ASSUME NEW e \in 1 .. n + 1, NEW x \in 0 .. n + 1,
                        e + 1 <= n + 1, q1[e + 1].kind = "nl", Line(q1, x, e)
                 PROVE  Caught(q1, x, e, f)
      BY <1>2 DEF Past
    <2>1. e + 1 # n + 1
      BY <1>2
    <2>2. e \in 1 .. n /\ e + 1 <= n /\ x \in 0 .. n /\ x \in Nat /\ e \in 0 .. n /\ e + 1 \in 1 .. n
      BY <1>0, <2>1 DEF Line
    <2>3. Line(q, x, e) /\ q[e + 1].kind = "nl" /\ SubSeq(q1, x + 1, e) = SubSeq(q, x + 1, e)
      BY <1>2, <2>2
    <2>4. Caught(q, x, e, f)
      BY <2>2, <2>3 DEF Past, n
    <2>5. QED
      BY <2>3, <2>4 DEF Caught
  <1>10. QED
    BY <1>8, <1>9

\* A line end.
LEMMA LineEndStep ==
  ASSUME NEW q, Placed(q), NEW p \in Piece, p.at = Len(q) + 1, p.kind = "nl",
         NEW q1, q1 = Append(q, p),
         NEW b, NEW f, NEW a \in Nat, NEW c \in Nat, Progress(q, b, f, a, c), Past(q, f)
  PROVE  Progress(q1, <<>>, f \o MatchLine(b), Len(q1), Len(q1)) /\ Past(q1, f \o MatchLine(b))
  <1> DEFINE n == Len(q)
             m == MatchLine(b)
  <1>0. n \in Nat /\ q \in Seq(Piece) /\ MaxLine \in Nat
    BY LineAssumption DEF Placed
  <1>1. /\ Line(q, a, n) /\ c \in a .. n /\ f \in Seq(Nat)
        /\ \A k \in 1 .. Len(f) : f[k] <= c
        /\ \A k, l \in 1 .. Len(f) : k < l => f[k] < f[l]
    BY DEF Progress
  <1>2. /\ Placed(q1) /\ q1 \in Seq(Piece) /\ Len(q1) = n + 1 /\ q1[n + 1] = p
        /\ \A k \in 1 .. n : q1[k] = q[k]
        /\ \A x \in Nat, e \in 0 .. n : SubSeq(q1, x + 1, e) = SubSeq(q, x + 1, e)
        /\ \A x \in Nat, e \in 0 .. n : Line(q1, x, e) <=> Line(q, x, e)
    <2>1. /\ Placed(q1) /\ Len(q1) = n + 1 /\ q1[n + 1] = p
          /\ \A k \in 1 .. n : q1[k] = q[k]
          /\ \A x \in Nat, e \in 0 .. n : SubSeq(q1, x + 1, e) = SubSeq(q, x + 1, e)
          /\ \A x \in Nat, e \in 0 .. n : Line(q1, x, e) <=> Line(q, x, e)
      <3>1. Grown(q, p, q1)
        BY Extends
      <3>2. QED
        BY <3>1, Zenon DEF Grown
    <2>2. q1 \in Seq(Piece)
      BY <2>1 DEF Placed
    <2>3. QED
      BY <2>1, <2>2
  <1>3. /\ Caught(q, a, n, f \o m)
        /\ m = <<>> \/ \E x \in c + 1 .. n : m = <<x>>
    BY BufferMatch
  <1> HIDE DEF n, m
  <1>4. m = <<>> \/ \E x \in c + 1 .. n + 1 : m = <<x>>
    <2>1. \A x \in c + 1 .. n : x \in c + 1 .. n + 1
      BY <1>0
    <2>2. QED
      BY <1>3, <2>1
  <1>5. m \in Seq(Nat)
    <2>1. ASSUME NEW x \in c + 1 .. n, m = <<x>> PROVE m \in Seq(Nat)
      <3>1. x \in Nat
        BY <1>0
      <3>2. QED
        BY <2>1, <3>1
    <2>2. m = <<>> => m \in Seq(Nat)
      OBVIOUS
    <2>3. QED
      BY <1>3, <2>1, <2>2
  <1>6. /\ f \o m \in Seq(Nat)
        /\ \A k \in 1 .. Len(f \o m) : (f \o m)[k] <= n + 1
        /\ \A k, l \in 1 .. Len(f \o m) : k < l => (f \o m)[k] < (f \o m)[l]
    <2>1. n + 1 \in Nat /\ c <= n + 1
      BY <1>0, <1>1
    <2>2. QED
      BY <1>1, <1>4, <2>1, FoundGrows
  <1>7. LastOf(SubSeq(q1, n + 2, n + 1), MaxLine) = <<>>
    <2>1. SubSeq(q1, n + 2, n + 1) = <<>>
      BY <1>0, <1>2
    <2>2. QED
      BY <1>0, <2>1 DEF LastOf
  <1>8. Line(q1, n + 1, n + 1)
    BY <1>0, <1>2 DEF Line
  <1>9. Progress(q1, <<>>, f \o m, n + 1, n + 1)
    <2>1. n + 1 \in n + 1 .. n + 1 /\ n + 1 + 1 = n + 2
      BY <1>0
    <2>2. QED
      BY <1>2, <1>6, <1>7, <1>8, <2>1 DEF Progress
  <1>10. Past(q1, f \o m)
    <2> SUFFICES ASSUME NEW e \in 1 .. n + 1, NEW x \in 0 .. n + 1,
                        e + 1 <= n + 1, q1[e + 1].kind = "nl", Line(q1, x, e)
                 PROVE  Caught(q1, x, e, f \o m)
      BY <1>2 DEF Past
    <2>1. e \in 1 .. n /\ x \in 0 .. n /\ x \in Nat /\ e \in 0 .. n
      BY <1>0 DEF Line
    <2>2. Line(q, x, e) /\ SubSeq(q1, x + 1, e) = SubSeq(q, x + 1, e)
      BY <1>2, <2>1
    <2>3. CASE e = n
      <3>1. x = a
        BY <1>0, <1>1, <2>2, <2>3, LineUnique
      <3>2. QED
        BY <1>3, <2>2, <2>3, <3>1 DEF Caught
    <2>4. CASE e # n
      <3>1. e + 1 <= n /\ e + 1 \in 1 .. n
        BY <1>0, <2>1, <2>4
      <3>2. q[e + 1].kind = "nl"
        BY <1>2, <3>1
      <3>3. Caught(q, x, e, f)
        BY <2>1, <2>2, <3>1, <3>2 DEF Past, n
      <3>4. ToSet(f) \subseteq ToSet(f \o m)
        BY <1>1, <1>5, ToSetConcat
      <3>5. QED
        BY <2>2, <3>3, <3>4 DEF Caught
    <2>5. QED
      BY <2>3, <2>4
  <1>11. QED
    BY <1>2, <1>9, <1>10 DEF m

\* The end of a chunk.
LEMMA ChunkEndStep ==
  ASSUME NEW q, Placed(q), NEW b, NEW f, NEW a \in Nat, NEW c \in Nat,
         Progress(q, b, f, a, c), Past(q, f)
  PROVE  /\ MatchLine(b) = <<>> => Progress(q, b, f \o MatchLine(b), a, c)
         /\ MatchLine(b) # <<>> => Progress(q, <<>>, f \o MatchLine(b), a, Len(q))
         /\ Past(q, f \o MatchLine(b)) /\ Present(q, f \o MatchLine(b))
  <1> DEFINE n == Len(q)
             m == MatchLine(b)
             g == f \o m
  <1>0. n \in Nat /\ q \in Seq(Piece) /\ MaxLine \in Nat
    BY LineAssumption DEF Placed
  <1>1. /\ Line(q, a, n) /\ c \in a .. n /\ f \in Seq(Nat)
        /\ \A k \in 1 .. Len(f) : f[k] <= c
        /\ \A k, l \in 1 .. Len(f) : k < l => f[k] < f[l]
    BY DEF Progress
  <1>2. /\ Caught(q, a, n, g)
        /\ m = <<>> \/ \E x \in c + 1 .. n : m = <<x>> /\ Ends(q, x, n)
    BY BufferMatch
  <1> HIDE DEF n, m
  <1>3. m \in Seq(Nat)
    <2>1. ASSUME NEW x \in c + 1 .. n, m = <<x>> PROVE m \in Seq(Nat)
      <3>1. x \in Nat
        BY <1>0
      <3>2. QED
        BY <2>1, <3>1
    <2>2. m = <<>> => m \in Seq(Nat)
      OBVIOUS
    <2>3. QED
      BY <1>2, <2>1, <2>2
  <1>4. /\ g \in Seq(Nat)
        /\ \A k \in 1 .. Len(g) : g[k] <= n
        /\ \A k, l \in 1 .. Len(g) : k < l => g[k] < g[l]
    <2>1. c <= n /\ (m = <<>> \/ \E x \in c + 1 .. n : m = <<x>>)
      BY <1>0, <1>1, <1>2
    <2>2. QED
      BY <1>0, <1>1, <2>1, FoundGrows
  <1>5. ToSet(f) \subseteq ToSet(g)
    BY <1>1, <1>3, ToSetConcat
  <1>6. m = <<>> => g = f
    BY <1>1
  <1>7. ASSUME NEW x \in c + 1 .. n, m = <<x>> PROVE x \in ToSet(g)
    <2>1. Len(f) + 1 \in 1 .. Len(g) /\ g[Len(f) + 1] = x
      BY <1>1, <1>7
    <2>2. DOMAIN g = 1 .. Len(g)
      BY <1>4
    <2>3. QED
      BY <2>1, <2>2 DEF ToSet
  <1> HIDE DEF g
  <1>8. m = <<>> => Progress(q, b, g, a, c)
    BY <1>6
  <1>9. ASSUME m # <<>> PROVE Progress(q, <<>>, g, a, n)
    <2>1. PICK x \in c + 1 .. n : m = <<x>> /\ Ends(q, x, n)
      BY <1>2, <1>9
    <2>2. x \in a + 1 .. n /\ x \in ToSet(g)
      BY <1>0, <1>1, <1>7, <2>1
    <2>3. LastOf(SubSeq(q, n + 1, n), MaxLine) = <<>>
      <3>1. SubSeq(q, n + 1, n) = <<>>
        BY <1>0
      <3>2. QED
        BY <1>0, <3>1 DEF LastOf
    <2>4. n \in a .. n
      BY <1>0, <1>1
    <2>5. QED
      BY <1>1, <1>4, <2>1, <2>2, <2>3, <2>4 DEF Progress, n
  <1>10. Past(q, g)
    BY <1>5 DEF Past, Caught
  <1>11. Present(q, g)
    <2> SUFFICES ASSUME NEW x \in 0 .. n, Line(q, x, n) PROVE Caught(q, x, n, g)
      BY DEF Present, n
    <2>1. x = a
      BY <1>0, <1>1, LineUnique
    <2>2. QED
      BY <1>2, <2>1
  <1>12. QED
    BY <1>8, <1>9, <1>10, <1>11 DEF g, m, n
----------------------------------------------------------------------------
(* The invariant.                                                          *)

Reached(q, b, f) ==
  /\ Placed(q) /\ Past(q, f)
  /\ \E a, c \in Nat : Progress(q, b, f, a, c)

\* The invariant of the intercepter.
Intercepted == Reached(output, buf, found) /\ Present(output, found)

\* Concatenation of what is found is associative.
LEMMA NatConcat ==
  ASSUME NEW f \in Seq(Nat), NEW g \in Seq(Nat), NEW m \in Seq(Nat)
  PROVE  (f \o g) \o m = f \o (g \o m)
  OBVIOUS

\* One piece, whether it ends the line or not.
LEMMA ByteStep ==
  ASSUME NEW q, NEW F \in Seq(Nat), NEW r \in Scans(Piece), Reached(q, r.buf, F \o r.prompts),
         NEW p \in Piece, p.at = Len(q) + 1
  PROVE  Reached(Append(q, p), ScanByte(r, p).buf, F \o ScanByte(r, p).prompts)
  <1> DEFINE q1 == Append(q, p)
             f  == F \o r.prompts
  <1>1. PICK a \in Nat, c \in Nat : Progress(q, r.buf, f, a, c)
    BY DEF Reached
  <1>2. Placed(q) /\ Past(q, f)
    BY DEF Reached
  <1>3. r.buf \in Seq(Piece) /\ r.prompts \in Seq(Nat)
    BY DEF Scans
  <1>4. CASE p.kind # "nl"
    <2>1. ScanByte(r, p).buf = LastOf(Append(r.buf, p), MaxLine) /\ ScanByte(r, p).prompts = r.prompts
      BY <1>4 DEF ScanByte, Scans
    <2>2. Placed(q1)
      <3>1. Grown(q, p, q1)
        BY <1>2, Extends
      <3>2. QED
        BY <3>1 DEF Grown
    <2>3. Progress(q1, LastOf(Append(r.buf, p), MaxLine), f, a, c) /\ Past(q1, f)
      BY <1>1, <1>2, <1>4, PieceStep
    <2>4. QED
      BY <2>1, <2>2, <2>3 DEF Reached
  <1>5. CASE p.kind = "nl"
    <2> DEFINE m == MatchLine(r.buf)
    <2>1. ScanByte(r, p).buf = <<>> /\ ScanByte(r, p).prompts = r.prompts \o m
      BY <1>5 DEF ScanByte
    <2>2. m \in Seq(Nat)
      BY <1>3, MatchLineType
    <2> HIDE DEF m
    <2>3. F \o (r.prompts \o m) = f \o m
      BY <1>3, <2>2, NatConcat
    <2>4. Placed(q1) /\ Len(q1) \in Nat
      <3>1. Grown(q, p, q1)
        BY <1>2, Extends
      <3>2. QED
        BY <1>2, <3>1 DEF Grown, Placed
    <2>5. Progress(q1, <<>>, f \o m, Len(q1), Len(q1)) /\ Past(q1, f \o m)
      BY <1>1, <1>2, <1>5, LineEndStep DEF m
    <2> HIDE DEF q1, f
    <2>6. Reached(q1, <<>>, f \o m)
      BY <2>4, <2>5 DEF Reached
    <2>7. QED
      BY <2>1, <2>3, <2>6 DEF q1
  <1>6. QED
    BY <1>4, <1>5

\* A chunk, byte by byte.
LEMMA ChunkStep ==
  ASSUME Intercepted, found \in Seq(Nat), buf \in Seq(Piece),
         NEW chunk \in Seq(Piece), \A k \in 1 .. Len(chunk) : chunk[k].at = Len(output) + k
  PROVE  LET s == Scanned(buf, chunk) IN
         s \in Scans(Piece) /\ Reached(output \o chunk, s.buf, found \o s.prompts)
  <1>1. PICK h \in [0 .. Len(chunk) -> Scans(Piece)] :
          /\ h[0] = [buf |-> buf, prompts |-> <<>>]
          /\ \A k \in 1 .. Len(chunk) : h[k] = ScanByte(h[k - 1], chunk[k])
          /\ Scanned(buf, chunk) = h[Len(chunk)]
    <2>1. Piece \in SUBSET Piece
      OBVIOUS
    <2>2. QED
      BY <2>1, ScanIterates, Zenon
  <1> DEFINE n     == Len(chunk)
             Q(k)  == output \o SubSeq(chunk, 1, k)
             Ok(k) == Reached(Q(k), h[k].buf, found \o h[k].prompts)
             T     == {k \in Nat : k <= n => Ok(k)}
  <1>0. n \in Nat /\ output \in Seq(Piece) /\ Placed(output)
    BY DEF Intercepted, Reached, Placed
  <1>2. Ok(0)
    <2>1. Q(0) = output
      <3>1. SubSeq(chunk, 1, 0) = <<>>
        OBVIOUS
      <3>2. QED
        BY <1>0, <3>1
    <2>2. h[0].buf = buf /\ h[0].prompts = <<>> /\ found \o <<>> = found
      BY <1>1
    <2>3. QED
      BY <2>1, <2>2, Zenon DEF Intercepted
  <1>3. ASSUME NEW k \in Nat, k + 1 <= n, Ok(k) PROVE Ok(k + 1)
    <2> DEFINE p == chunk[k + 1]
    <2>1. p \in Piece /\ p.at = Len(output) + (k + 1)
      BY <1>0, <1>3
    <2>2. Q(k) \in Seq(Piece) /\ Len(Q(k)) = Len(output) + k
      BY <1>0, <1>3
    <2>3. Q(k + 1) = Append(Q(k), p)
      <3> DEFINE t == SubSeq(chunk, 1, k)
      <3>1. SubSeq(chunk, 1, k + 1) = Append(t, p) /\ t \in Seq(Piece)
        BY <1>0, <1>3
      <3> HIDE DEF t, p
      <3>2. output \o Append(t, p) = Append(output \o t, p)
        BY <1>0, <2>1, <3>1
      <3>3. QED
        BY <3>1, <3>2 DEF t
    <2>4. h[k] \in Scans(Piece)
      <3>1. k \in 0 .. Len(chunk)
        BY <1>0, <1>3
      <3>2. QED
        BY <1>1, <3>1
    <2>5. h[k + 1] = ScanByte(h[k], p)
      <3>1. k + 1 \in 1 .. Len(chunk)
        BY <1>0, <1>3
      <3>2. \A x \in 1 .. Len(chunk) : h[x] = ScanByte(h[x - 1], chunk[x])
        BY <1>1
      <3>3. h[k + 1] = ScanByte(h[k + 1 - 1], chunk[k + 1])
        BY ONLY <3>1, <3>2
      <3>4. k + 1 - 1 = k
        OBVIOUS
      <3>5. QED
        BY <3>3, <3>4
    <2>6. p.at = Len(Q(k)) + 1
      BY <1>0, <2>1, <2>2
    <2> HIDE DEF p, Q
    <2>7. Reached(Append(Q(k), p), ScanByte(h[k], p).buf, found \o ScanByte(h[k], p).prompts)
      BY <1>3, <2>1, <2>4, <2>6, ByteStep
    <2>8. QED
      BY <2>3, <2>5, <2>7
  <1> HIDE DEF Ok
  <1>4. 0 \in T
    BY <1>2
  <1>5. ASSUME NEW k \in Nat, k \in T PROVE k + 1 \in T
    BY <1>0, <1>3, <1>5
  <1>6. Nat \subseteq T
    <2> HIDE DEF T
    <2> QED
      BY <1>4, <1>5, Induct
  <1>7. Ok(n)
    BY <1>0, <1>6
  <1>8. Q(n) = output \o chunk
    <2>1. SubSeq(chunk, 1, n) = chunk
      OBVIOUS
    <2>2. QED
      BY <2>1
  <1>9. h[n] \in Scans(Piece)
    <2>1. n \in 0 .. Len(chunk)
      BY <1>0
    <2>2. QED
      BY <1>1, <2>1
  <1>10. QED
    BY <1>1, <1>7, <1>8, <1>9, Zenon DEF Ok

----------------------------------------------------------------------------
(* The invariant is kept.                                                  *)

\* What the invariant says of the buffer alone.
LEMMA InterceptedTypes ==
  ASSUME Intercepted
  PROVE  /\ output \in Seq(Piece) /\ buf \in Seq(Piece) /\ found \in Seq(Nat)
         /\ Len(buf) <= MaxLine
         /\ \E o \in 0 .. Len(output) :
              /\ Len(buf) = Len(output) - o
              /\ \A k \in 1 .. Len(buf) : buf[k] = output[o + k] /\ buf[k].kind # "nl"
  <1>1. PICK a \in Nat, c \in Nat : Progress(output, buf, found, a, c)
    BY DEF Intercepted, Reached
  <1>2. /\ Line(output, a, Len(output)) /\ c \in a .. Len(output) /\ found \in Seq(Nat)
        /\ buf = LastOf(SubSeq(output, c + 1, Len(output)), MaxLine)
    BY <1>1 DEF Progress
  <1>3. output \in Seq(Piece) /\ Len(output) \in Nat
    BY DEF Intercepted, Reached, Placed
  <1> DEFINE o == Origin(output, c)
  <1>4. /\ o \in c .. Len(output)
        /\ buf \in Seq(Piece) /\ Len(buf) = Len(output) - o
        /\ \A k \in 1 .. Len(output) - o : buf[k] = output[o + k]
    <2>1. c \in 0 .. Len(output)
      BY <1>2, <1>3
    <2>2. QED
      BY <1>2, <1>3, <2>1, WindowIs
  <1>5. Len(output) - o <= MaxLine
    BY <1>2, <1>3, LineAssumption DEF Origin
  <1> HIDE DEF o
  <1>6. o \in 0 .. Len(output)
    BY <1>2, <1>3, <1>4
  <1>7. ASSUME NEW k \in 1 .. Len(buf) PROVE buf[k] = output[o + k] /\ buf[k].kind # "nl"
    <2>1. o + k \in a + 1 .. Len(output) /\ k \in 1 .. Len(output) - o
      BY <1>2, <1>3, <1>4
    <2>2. QED
      BY <1>2, <1>4, <2>1 DEF Line
  <1>8. QED
    BY <1>2, <1>3, <1>4, <1>5, <1>6, <1>7

\* Nothing has been read, nothing found.
LEMMA InterceptInit == Init => Intercepted
  <1> SUFFICES ASSUME Init PROVE Intercepted
    OBVIOUS
  <1>1. output = <<>> /\ buf = <<>> /\ found = <<>> /\ Len(<<>>) = 0
    BY DEF Init
  <1>2. Placed(output)
    BY <1>1 DEF Placed
  <1>3. Past(output, found)
    BY <1>1 DEF Past
  <1>4. LastOf(SubSeq(<<>>, 1, 0), MaxLine) = <<>>
    BY LineAssumption DEF LastOf
  <1>5. Line(<<>>, 0, 0)
    BY DEF Line
  <1>6. Progress(output, buf, found, 0, 0)
    BY <1>1, <1>4, <1>5 DEF Progress
  <1>7. Present(output, found)
    <2> SUFFICES ASSUME NEW a \in 0 .. 0, Line(<<>>, a, 0) PROVE Caught(<<>>, a, 0, <<>>)
      BY <1>1 DEF Present
    <2>1. a = 0
      OBVIOUS
    <2>2. <<>> \in Seq(Piece) /\ ~(\E i, j \in Nat : PromptAt(<<>>, i, j))
      BY DEF PromptAt
    <2>3. MatchLine(<<>>) = <<>>
      BY <2>2, MatchLineIs
    <2>4. QED
      BY <1>4, <2>1, <2>3 DEF Caught, ToSet
  <1>8. QED
    BY <1>2, <1>3, <1>6, <1>7 DEF Intercepted, Reached

\* A chunk: its pieces one by one, then its incomplete last line.
LEMMA InterceptRead == Intercepted /\ Read => Intercepted'
  <1> SUFFICES ASSUME Intercepted, Read PROVE Intercepted'
    OBVIOUS
  <1>1. PICK kinds \in BoundedSeq(Kinds, MaxChunk) \ {<<>>} :
          LET chunk == [k \in DOMAIN kinds |-> [at |-> Len(output) + k, kind |-> kinds[k]]]
              scan  == Scan(buf, chunk)
          IN  /\ Len(output) + Len(chunk) <= MaxOutput
              /\ output' = output \o chunk
              /\ buf' = scan.buf
              /\ found' = found \o scan.prompts
    BY Zenon DEF Read
  <1> DEFINE chunk == [k \in DOMAIN kinds |-> [at |-> Len(output) + k, kind |-> kinds[k]]]
             s == Scanned(buf, chunk)
             p == MatchLine(s.buf)
  <1>2. output \in Seq(Piece) /\ buf \in Seq(Piece) /\ found \in Seq(Nat) /\ Len(output) \in Nat
    BY InterceptedTypes
  <1>3. PICK m \in 0 .. MaxChunk : kinds \in [1 .. m -> Kinds]
    BY DEF BoundedSeq, SeqOf
  <1>4. m \in Nat
    BY <1>3, OutputAssumption
  <1>5. chunk \in Seq(Piece) /\ Len(chunk) = m /\ \A k \in 1 .. m : chunk[k].at = Len(output) + k
    <2>1. chunk = [k \in 1 .. m |-> [at |-> Len(output) + k, kind |-> kinds[k]]]
      BY <1>3
    <2>2. \A k \in 1 .. m : [at |-> Len(output) + k, kind |-> kinds[k]] \in Piece
      BY <1>2, <1>3, <1>4 DEF Piece
    <2>3. chunk \in [1 .. m -> Piece]
      BY <2>1, <2>2
    <2> QED
      BY <1>4, <2>1, <2>3
  <1>6. /\ output' = output \o chunk
        /\ buf' = IF p = <<>> THEN s.buf ELSE <<>>
        /\ found' = found \o (s.prompts \o p)
    BY <1>1 DEF Scan
  <1> HIDE DEF chunk
  <1>7. s \in Scans(Piece) /\ Reached(output \o chunk, s.buf, found \o s.prompts)
    BY <1>2, <1>5, ChunkStep
  <1> HIDE DEF s
  <1>8. s.buf \in Seq(Piece) /\ s.prompts \in Seq(Nat)
    BY <1>7 DEF Scans
  <1>9. p \in Seq(Nat)
    BY <1>8, MatchLineType
  <1> HIDE DEF p
  <1>10. found' = (found \o s.prompts) \o p
    <2>1. (found \o s.prompts) \o p = found \o (s.prompts \o p)
      BY <1>2, <1>8, <1>9, NatConcat
    <2>2. QED
      BY <1>6, <2>1, Zenon
  <1> DEFINE q == output \o chunk
             f == found \o s.prompts
  <1>11. PICK a \in Nat, c \in Nat : Progress(q, s.buf, f, a, c)
    BY <1>7 DEF Reached
  <1>12. Placed(q) /\ Past(q, f)
    BY <1>7 DEF Reached
  <1>13. q \in Seq(Piece) /\ Len(q) \in Nat
    BY <1>12 DEF Placed
  <1> HIDE DEF q, f
  <1>14. /\ p = <<>> => Progress(q, s.buf, f \o p, a, c)
         /\ p # <<>> => Progress(q, <<>>, f \o p, a, Len(q))
         /\ Past(q, f \o p) /\ Present(q, f \o p)
    BY <1>11, <1>12, ChunkEndStep DEF p
  <1>15. \E x, y \in Nat : Progress(q, buf', f \o p, x, y)
    BY <1>6, <1>13, <1>14
  <1>16. Reached(q, buf', f \o p)
    BY <1>12, <1>14, <1>15 DEF Reached
  <1>17. output' = q /\ found' = f \o p
    BY <1>6, <1>10 DEF q, f
  <1>18. QED
    BY <1>14, <1>16, <1>17 DEF Intercepted

\* Every step of the intercepter.
LEMMA InterceptStep == Intercepted /\ [Next]_vars => Intercepted'
  <1>1. Intercepted /\ UNCHANGED vars => Intercepted'
    BY DEF Intercepted, vars
  <1>2. QED
    BY <1>1, InterceptRead DEF Next, Finished

\* The buffer never grows beyond MaxLine, whatever is printed and however
\* reads cut it, and is a part of the line that is being read
\* (intercepter.go:53): a container that prints without a line end cannot
\* make the server's memory grow.
THEOREM BufferBounded == Spec => []BufferIsBounded
  <1>1. Intercepted => BufferIsBounded
    <2> SUFFICES ASSUME Intercepted PROVE BufferIsBounded
      OBVIOUS
    <2>1. /\ output \in Seq(Piece) /\ buf \in Seq(Piece) /\ Len(buf) <= MaxLine
      BY InterceptedTypes
    <2>2. PICK o \in 0 .. Len(output) :
              /\ Len(buf) = Len(output) - o
              /\ \A k \in 1 .. Len(buf) : buf[k] = output[o + k] /\ buf[k].kind # "nl"
      BY InterceptedTypes
    <2> DEFINE n == Len(output)
               m == Len(buf)
               u == Reverse(buf)
               v == Reverse(output)
    <2>3. n \in Nat /\ m \in Nat /\ m = n - o /\ o \in Nat /\ m <= n
      BY <2>1, <2>2
    <2>4. u = [k \in 1 .. m |-> buf[(m - k) + 1]] /\ v = [k \in 1 .. n |-> output[(n - k) + 1]]
      BY DEF Reverse
    <2>5. \A k \in 1 .. m : buf[(m - k) + 1] \in Piece
      BY <2>1, <2>3
    <2>6. \A k \in 1 .. n : output[(n - k) + 1] \in Piece
      BY <2>1, <2>3
    <2>7. /\ u \in Seq(Piece) /\ Len(u) = m /\ \A k \in 1 .. m : u[k] = buf[(m - k) + 1]
          /\ v \in Seq(Piece) /\ Len(v) = n /\ \A k \in 1 .. n : v[k] = output[(n - k) + 1]
      BY <2>3, <2>4, <2>5, <2>6
    <2>8. \A k \in 1 .. m : buf[(m - k) + 1] = output[(n - k) + 1]
      <3> SUFFICES ASSUME NEW k \in 1 .. m PROVE buf[(m - k) + 1] = output[(n - k) + 1]
        OBVIOUS
      <3>1. (m - k) + 1 \in 1 .. m /\ o + ((m - k) + 1) = (n - k) + 1
        BY <2>3
      <3>2. QED
        BY <2>2, <3>1
    <2> HIDE DEF u, v, n, m
    <2>9. \A k \in 1 .. m : u[k] = v[k]
      <3> SUFFICES ASSUME NEW k \in 1 .. m PROVE u[k] = v[k]
        OBVIOUS
      <3>1. k \in 1 .. n
        BY <2>3
      <3>2. QED
        BY <2>7, <2>8, <3>1
    <2>10. IsPrefix(u, v)
      BY <2>3, <2>7, <2>9 DEF IsPrefix
    <2>11. IsSuffix(buf, output)
      BY <2>10 DEF IsSuffix, u, v
    <2>12. \A k \in DOMAIN buf : buf[k].kind # "nl"
      BY <2>1, <2>2
    <2>13. QED
      BY <2>1, <2>11, <2>12 DEF BufferIsBounded
  <1>2. QED
    BY InterceptInit, InterceptStep, <1>1, PTL DEF Spec

\* No prompt is returned twice, neither with the next chunk nor at the end of
\* its line (intercepter.go:64): what is matched in an incomplete line is
\* dropped from the buffer, and what is found next ends beyond the cut.
THEOREM PromptOnce == Spec => []NoPromptTwice
  <1>1. Intercepted => NoPromptTwice
    <2> SUFFICES ASSUME Intercepted, NEW j \in DOMAIN found, NEW k \in DOMAIN found,
                        found[j] = found[k]
                 PROVE  j = k
      BY DEF NoPromptTwice
    <2>1. PICK a \in Nat, c \in Nat : Progress(output, buf, found, a, c)
      BY DEF Intercepted, Reached
    <2>2. found \in Seq(Nat) /\ \A x, y \in 1 .. Len(found) : x < y => found[x] < found[y]
      BY <2>1 DEF Progress
    <2>3. j \in 1 .. Len(found) /\ k \in 1 .. Len(found) /\ found[j] \in Nat /\ found[k] \in Nat
      BY <2>2
    <2>4. ~(j < k) /\ ~(k < j)
      BY <2>2, <2>3
    <2>5. j \in Int /\ k \in Int
      BY <2>2, <2>3
    <2>6. QED
      BY <2>4, <2>5
  <1>2. QED
    BY InterceptInit, InterceptStep, <1>1, PTL DEF Spec

\* The line that ends at e, as LineUpTo has it.
LEMMA LineUpToIs ==
  ASSUME NEW e \in 1 .. Len(output), output \in Seq(Piece)
  PROVE  \E a \in 0 .. e : Line(output, a, e) /\ LineUpTo(e) = SubSeq(output, a + 1, e)
  <1> DEFINE s == SubSeq(output, 1, e)
             J == {i \in 1 .. Len(s) : s[i].kind = "nl"}
             a == SelectLastInSeq(s, LAMBDA b : b.kind = "nl")
  <1>1. a = IF J # {} THEN Max(J) ELSE 0
    BY Zenon DEF SelectLastInSeq
  <1>2. e \in Nat /\ Len(s) = e /\ \A k \in 1 .. e : s[k] = output[k]
    OBVIOUS
  <1>3. LineUpTo(e) = SubSeq(output, a + 1, e)
    BY Zenon DEF LineUpTo
  <1>4. J # {} => Max(J) \in J /\ \A y \in J : y <= Max(J)
    <2>1. J \subseteq 1 .. e
      BY <1>2
    <2> HIDE DEF J
    <2>2. QED
      BY <1>2, <2>1, Greatest
  <1> HIDE DEF a, s
  <1>5. Line(output, a, e)
    <2>1. CASE J = {}
      <3>1. a = 0
        BY <1>1, <2>1
      <3>2. \A k \in 1 .. e : output[k].kind # "nl"
        BY <1>2, <2>1
      <3>3. QED
        BY <1>2, <3>1, <3>2 DEF Line
    <2>2. CASE J # {}
      <3>1. a \in J /\ \A y \in J : y <= a
        BY <1>1, <1>4, <2>2
      <3>2. a \in 1 .. e /\ output[a].kind = "nl"
        BY <1>2, <3>1
      <3>3. ASSUME NEW k \in a + 1 .. e PROVE output[k].kind # "nl"
        <4>1. k \in 1 .. e /\ ~(k <= a)
          BY <1>2, <3>2
        <4>2. QED
          BY <1>2, <3>1, <4>1
      <3>4. QED
        BY <1>2, <3>2, <3>3 DEF Line
    <2>3. QED
      BY <2>1, <2>2
  <1>6. a \in 0 .. e
    BY <1>5 DEF Line
  <1>7. QED
    BY <1>3, <1>5, <1>6

\* Every prompt that ends a line, or that the output stops at to wait for an
\* answer, is found, for every output, every way reads cut it and every
\* MaxLine, as long as it is in the last MaxLine pieces of its line
\* (intercepter.go:37-70).  Dropping the buffer after a prompt loses
\* nothing, although the window then starts later in the line.
THEOREM EveryPromptFound == Spec => []PromptsFound
  <1>1. Intercepted => PromptsFound
    <2> SUFFICES ASSUME Intercepted, NEW e \in LineEnds
                 PROVE  ToSet(MatchLine(LastOf(LineUpTo(e), MaxLine))) \subseteq ToSet(found)
      BY DEF PromptsFound
    <2> DEFINE n == Len(output)
    <2>0. output \in Seq(Piece)
      BY InterceptedTypes
    <2>1. n \in Nat /\ DOMAIN output = 1 .. n
      BY <2>0
    <2>2. e \in 1 .. n /\ (e = n \/ KindAt(output, e + 1) = "nl")
      BY <2>1 DEF LineEnds
    <2>3. PICK a \in 0 .. e : Line(output, a, e) /\ LineUpTo(e) = SubSeq(output, a + 1, e)
      BY <2>0, <2>2, LineUpToIs
    <2> HIDE DEF n
    <2>4. a \in 0 .. n
      BY <2>1, <2>2
    <2>5. Caught(output, a, e, found)
      <3>1. CASE e = n
        BY <2>3, <2>4, <3>1 DEF Intercepted, Present, n
      <3>2. CASE e # n
        <4>1. e + 1 \in 1 .. n /\ e + 1 <= n
          BY <2>1, <2>2, <3>2
        <4>2. output[e + 1].kind = "nl"
          BY <2>1, <2>2, <3>2, <4>1 DEF KindAt
        <4>3. Past(output, found)
          BY DEF Intercepted, Reached
        <4>4. QED
          BY <2>2, <2>3, <2>4, <4>1, <4>2, <4>3 DEF Past, n
      <3>3. QED
        BY <3>1, <3>2
    <2>6. QED
      BY <2>3, <2>5 DEF Caught
  <1>2. QED
    BY InterceptInit, InterceptStep, <1>1, PTL DEF Spec

=============================================================================
