----------------------------- MODULE RingBuffer -----------------------------
(***************************************************************************)
(* internal/pty/ringbuf.go: a fixed-size circular buffer of bytes.  The    *)
(* methods run under the mutex of the buffer, so each one is an operator   *)
(* on its value: the array, the next write position, and whether the       *)
(* buffer has wrapped.                                                     *)
(***************************************************************************)
EXTENDS Windows

CONSTANTS Size,     \* capacity in bytes
          Byte,     \* what a byte can be
          Zero      \* the byte a new array is filled with

ASSUME RingAssumption == Size \in Nat \ {0} /\ Zero \in Byte

Slots == 0 .. Size - 1

Rings == [buf : [Slots -> Byte], w : Slots, full : BOOLEAN]

NewRingBuffer == [buf |-> [k \in Slots |-> Zero], w |-> 0, full |-> FALSE]

\* Where the buffer is full from now on.
FilledWhenPassed(r, n) == r.full \/ r.w + n > Size             \* mutant
Filled(r, n) == r.full \/ r.w + n >= Size

\* The next write position.
AdvancedPastEnd(r, n) == r.w + n                               \* mutant
Advanced(r, n) == (r.w + n) % Size

\* The array after p, shorter than the buffer, is copied to the write
\* position and, across the boundary, to the start.
Copied(r, p) ==
  [k \in Slots |->
     IF r.w <= k /\ k < r.w + Len(p) THEN p[k - r.w + 1]
     ELSE IF k < r.w + Len(p) - Size THEN p[Size - r.w + k + 1]
     ELSE r.buf[k]]

\* Of a chunk that is larger than the buffer the last Size bytes are kept.
Write(r, p) ==
  LET n == Len(p) IN
  IF n = 0 THEN r
  ELSE IF n >= Size
  THEN [buf |-> [k \in Slots |-> p[n - Size + k + 1]], w |-> 0, full |-> TRUE]
  ELSE [buf |-> Copied(r, p), w |-> Advanced(r, n), full |-> Filled(r, n)]

\* The contents, oldest byte first.
Bytes(r) ==
  IF ~r.full THEN [k \in 1 .. r.w |-> r.buf[k - 1]]
  ELSE [k \in 1 .. Size |-> r.buf[(r.w + k - 1) % Size]]

----------------------------------------------------------------------------
(* What the buffer promises.                                               *)

\* Writing p slides a window of Size bytes over the output.
SlidesWindow(r, p) == Bytes(Write(r, p)) = LastOf(Bytes(r) \o p, Size)

=============================================================================
