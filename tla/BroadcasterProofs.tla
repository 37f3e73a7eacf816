------------------------- MODULE BroadcasterProofs -------------------------
(***************************************************************************)
(* What holds of every broadcaster, whatever the container prints, however *)
(* reads cut it, and however many viewers come and go: the ring buffer is  *)
(* a window on the output, Close waits for the read loop, channels are     *)
(* closed once, and a viewer sees all of what it watches.                  *)
(***************************************************************************)
EXTENDS Broadcaster, StreamLemmas

----------------------------------------------------------------------------
(* The ring buffer alone holds the last Size bytes of whatever is written  *)
(* to it.                                                                  *)

\* The one use the buffer makes of %: a position below twice the capacity.
LEMMA Modulus ==
  ASSUME NEW a \in Nat, a < 2 * Size
  PROVE  a % Size = IF a < Size THEN a ELSE a - Size
  <1>1. Size \in Nat /\ Size > 0
    BY RingAssumption
  <1>2. CASE a < Size
    BY <1>1, <1>2
  <1>3. CASE a >= Size
    BY <1>1, <1>3
  <1>4. QED
    BY <1>1, <1>2, <1>3

\* What Bytes returns, place by place.
LEMMA BytesFacts ==
  ASSUME NEW r \in Rings
  PROVE  /\ Bytes(r) \in Seq(Byte)
         /\ Len(Bytes(r)) = IF r.full THEN Size ELSE r.w
         /\ \A k \in 1 .. Len(Bytes(r)) :
              Bytes(r)[k] = r.buf[IF r.full /\ r.w + k - 1 < Size
                                  THEN r.w + k - 1
                                  ELSE IF r.full THEN (r.w + k - 1) - Size
                                  ELSE k - 1]
  <1>1. /\ Size \in Nat /\ Size > 0 /\ r.w \in 0 .. Size - 1
        /\ r.buf \in [0 .. Size - 1 -> Byte] /\ r.full \in BOOLEAN
    BY RingAssumption DEF Rings, Slots
  <1>2. CASE ~r.full
    <2>1. Bytes(r) = [k \in 1 .. r.w |-> r.buf[k - 1]]
      BY <1>2 DEF Bytes
    <2>2. \A k \in 1 .. r.w : r.buf[k - 1] \in Byte
      BY <1>1
    <2>3. Bytes(r) \in Seq(Byte)
      BY <1>1, <2>1, <2>2
    <2>4. QED
      BY <1>1, <1>2, <2>1, <2>3
  <1>3. CASE r.full
    <2>1. Bytes(r) = [k \in 1 .. Size |-> r.buf[(r.w + k - 1) % Size]]
      BY <1>3 DEF Bytes
    <2>2. ASSUME NEW k \in 1 .. Size
          PROVE  (r.w + k - 1) % Size =
                   IF r.w + k - 1 < Size THEN r.w + k - 1
                                         ELSE (r.w + k - 1) - Size
      <3> DEFINE a == r.w + k - 1
      <3>1. a \in Nat /\ a < 2 * Size
        BY <1>1
      <3> HIDE DEF a
      <3>2. a % Size = IF a < Size THEN a ELSE a - Size
        BY <3>1, Modulus
      <3>3. QED
        BY <3>2 DEF a
    <2>3. \A k \in 1 .. Size : r.buf[(r.w + k - 1) % Size] \in Byte
      BY <1>1, <2>2
    <2>4. Bytes(r) \in Seq(Byte) /\ Len(Bytes(r)) = Size
      BY <1>1, <2>1, <2>3
    <2>5. QED
      BY <1>1, <1>3, <2>1, <2>2, <2>4
  <1>4. QED
    BY <1>1, <1>2, <1>3

\* Whatever is written to a buffer, it stays one: no write goes out of the
\* array's bounds (ringbuf.go:40-61).
THEOREM WriteIsRing ==
  ASSUME NEW r \in Rings, NEW p \in Seq(Byte)
  PROVE  Write(r, p) \in Rings
  <1> DEFINE n == Len(p)
  <1>1. /\ Size \in Nat /\ Size > 0 /\ r.w \in 0 .. Size - 1
        /\ r.buf \in [0 .. Size - 1 -> Byte] /\ r.full \in BOOLEAN
        /\ n \in Nat /\ \A k \in 1 .. n : p[k] \in Byte
    BY RingAssumption, ElementOfSeq DEF Rings, Slots
  <1>2. CASE n = 0
    BY <1>2 DEF Write
  <1>3. CASE n >= Size
    <2>1. Write(r, p) = [buf |-> [k \in Slots |-> p[n - Size + k + 1]],
                         w |-> 0, full |-> TRUE]
      BY <1>1, <1>3 DEF Write
    <2>2. \A k \in Slots : p[n - Size + k + 1] \in Byte
      BY <1>1, <1>3 DEF Slots
    <2>3. [k \in Slots |-> p[n - Size + k + 1]] \in [Slots -> Byte]
      BY <2>2
    <2>4. 0 \in Slots
      BY <1>1 DEF Slots
    <2>5. QED
      BY <2>1, <2>3, <2>4 DEF Rings
  <1>4. CASE n # 0 /\ n < Size
    <2>1. Write(r, p) = [buf |-> Copied(r, p), w |-> (r.w + n) % Size,
                         full |-> Filled(r, n)]
      BY <1>1, <1>4 DEF Write, Advanced
    <2>2. r.w + n \in Nat /\ r.w + n < 2 * Size
      BY <1>1, <1>4
    <2>3. (r.w + n) % Size \in Slots
      BY <1>1, <2>2, Modulus DEF Slots
    <2>4. Copied(r, p) \in [Slots -> Byte]
      <3>1. ASSUME NEW k \in Slots, r.w <= k, k < r.w + n PROVE p[k - r.w + 1] \in Byte
        <4>1. k - r.w + 1 \in 1 .. n
          BY <1>1, <3>1 DEF Slots
        <4>2. QED
          BY <1>1, <4>1
      <3>2. ASSUME NEW k \in Slots, k < r.w + n - Size
            PROVE  p[Size - r.w + k + 1] \in Byte
        <4>1. Size - r.w + k + 1 \in 1 .. n
          <5>1. k \in Nat /\ r.w \in Nat /\ r.w < Size /\ Size \in Nat /\ n \in Nat
            BY <1>1 DEF Slots
          <5>2. QED
            BY ONLY <3>2, <5>1
        <4>2. QED
          BY <1>1, <4>1
      <3>3. \A k \in Slots : r.buf[k] \in Byte
        BY <1>1 DEF Slots
      <3>4. QED
        BY <3>1, <3>2, <3>3 DEF Copied
    <2>5. QED
      BY <1>1, <2>1, <2>3, <2>4 DEF Rings, Filled
  <1>5. QED
    BY <1>1, <1>2, <1>3, <1>4

\* What the cases of Write below need: the old contents B, the chunk, and
\* the two together.
LEMMA BothFacts ==
  ASSUME NEW r \in Rings, NEW p \in Seq(Byte)
  PROVE  /\ Bytes(r) \o p \in Seq(Byte)
         /\ Len(Bytes(r) \o p) = Len(Bytes(r)) + Len(p)
         /\ \A k \in 1 .. Len(Bytes(r)) + Len(p) :
              (Bytes(r) \o p)[k] = IF k <= Len(Bytes(r)) THEN Bytes(r)[k]
                                   ELSE p[k - Len(Bytes(r))]
  BY BytesFacts, ConcatProperties

\* Where the k-th byte of a full buffer is after n bytes are written at w,
\* and where the same byte is in the old contents, c bytes long and in a
\* buffer that was full or not, followed by the chunk.
WriteWraps(N, w, n, full, k, c, v, i, j) ==
  /\ N \in Nat /\ w \in Nat /\ w < N /\ n \in Nat /\ 0 < n /\ n < N
  /\ full \in BOOLEAN /\ (full \/ w + n >= N) /\ k \in 1 .. N
  /\ c \in Nat /\ (full => c = N) /\ (~full => c = w)
  /\ v \in Nat /\ (w + n < N => v = w + n) /\ (w + n >= N => v = (w + n) - N)
  /\ i \in Int /\ (v + k - 1 < N => i = v + k - 1)
  /\ (v + k - 1 >= N => i = (v + k - 1) - N)
  /\ j \in Int /\ j = (c + n) - N + k

SameByte(N, w, n, full, k, c, i, j) ==
  /\ i \in 0 .. N - 1 /\ j \in 1 .. c + n
  /\ k <= N - n =>
       /\ ~(w <= i /\ i < w + n) /\ ~(i < (w + n) - N) /\ j \in 1 .. c
       /\ full => i = IF w + j - 1 < N THEN w + j - 1 ELSE (w + j - 1) - N
       /\ ~full => i = j - 1
  /\ k > N - n =>
       /\ ~(j <= c)
       /\ \/ w <= i /\ i < w + n /\ i - w + 1 = j - c
          \/ /\ ~(w <= i /\ i < w + n) /\ i < (w + n) - N
             /\ N - w + i + 1 = j - c

\* It is the same byte, whether the buffer was full, wraps now, or neither.
LEMMA WrappedIndex ==
  ASSUME NEW N, NEW w, NEW n, NEW full, NEW k, NEW c, NEW v, NEW i, NEW j,
         WriteWraps(N, w, n, full, k, c, v, i, j)
  PROVE  SameByte(N, w, n, full, k, c, i, j)
  <1> USE DEF WriteWraps, SameByte
  <1>1. CASE full /\ w + n < N
    <2>1. CASE v + k - 1 < N
      BY <1>1, <2>1
    <2>2. CASE v + k - 1 >= N
      BY <1>1, <2>2
    <2>3. QED
      BY <2>1, <2>2
  <1>2. CASE full /\ w + n >= N
    <2>1. CASE v + k - 1 < N
      BY <1>2, <2>1
    <2>2. CASE v + k - 1 >= N
      BY <1>2, <2>2
    <2>3. QED
      BY <2>1, <2>2
  <1>3. CASE ~full
    <2>1. CASE v + k - 1 < N
      BY <1>3, <2>1
    <2>2. CASE v + k - 1 >= N
      BY <1>3, <2>2
    <2>3. QED
      BY <2>1, <2>2
  <1>4. QED
    BY <1>1, <1>2, <1>3

\* Writing slides the window, for any buffer and any chunk: the write
\* position, the split at the boundary, the full flag and a chunk larger
\* than the buffer (ringbuf.go:29-81).
THEOREM WindowSlides ==
  ASSUME NEW r \in Rings, NEW p \in Seq(Byte)
  PROVE  SlidesWindow(r, p)
  <1> DEFINE n == Len(p)
             q == Write(r, p)
             B == Bytes(r)
             c == Len(B)
             BP == B \o p
             W == WindowLen(c + n, Size)
             old == Bytes(q)
             new == LastOf(BP, Size)
  <1>1. /\ Size \in Nat /\ Size > 0 /\ r.w \in 0 .. Size - 1
        /\ r.buf \in [0 .. Size - 1 -> Byte] /\ r.full \in BOOLEAN
        /\ n \in Nat /\ \A k \in 1 .. n : p[k] \in Byte
    BY RingAssumption, ElementOfSeq DEF Rings, Slots
  <1>2. q \in Rings
    BY WriteIsRing
  <1>3. /\ B \in Seq(Byte) /\ c = IF r.full THEN Size ELSE r.w
        /\ \A k \in 1 .. c :
             B[k] = r.buf[IF r.full /\ r.w + k - 1 < Size THEN r.w + k - 1
                          ELSE IF r.full THEN (r.w + k - 1) - Size ELSE k - 1]
    BY BytesFacts
  <1>4. /\ BP \in Seq(Byte) /\ Len(BP) = c + n
        /\ \A k \in 1 .. c + n : BP[k] = IF k <= c THEN B[k] ELSE p[k - c]
    BY BothFacts
  <1> HIDE DEF q, B, BP
  <1>5. /\ old \in Seq(Byte) /\ Len(old) = IF q.full THEN Size ELSE q.w
        /\ \A k \in 1 .. Len(old) :
             old[k] = q.buf[IF q.full /\ q.w + k - 1 < Size THEN q.w + k - 1
                            ELSE IF q.full THEN (q.w + k - 1) - Size ELSE k - 1]
    BY <1>2, BytesFacts
  <1>6. /\ new \in Seq(Byte) /\ Len(new) = W
        /\ \A k \in 1 .. W : new[k] = BP[(c + n) - W + k]
    <2>1. /\ new \in Seq(Byte) /\ Len(new) = WindowLen(Len(BP), Size)
          /\ \A k \in 1 .. WindowLen(Len(BP), Size) :
               new[k] = BP[Len(BP) - WindowLen(Len(BP), Size) + k]
      BY <1>1, <1>4, LastOfFacts
    <2>2. QED
      BY <1>4, <2>1
  <1>7. c \in Nat /\ c <= Size
    BY <1>1, <1>3
  <1> HIDE DEF c, old, new
  <1>8. SUFFICES Len(old) = W /\ \A k \in 1 .. W : old[k] = new[k]
    <2>1. old = new
      BY <1>5, <1>6, <1>8, SeqEqual
    <2>2. QED
      BY <2>1 DEF old, new, q, BP, B, SlidesWindow
  <1>9. CASE n = 0
    <2>1. q = r
      BY <1>9 DEF q, Write
    <2>2. old = B /\ Len(old) = c
      BY <2>1 DEF old, B, c
    <2>3. W = c
      BY <1>1, <1>7, <1>9 DEF WindowLen
    <2>4. ASSUME NEW k \in 1 .. W
          PROVE  old[k] = new[k]
      <3>1. k \in 1 .. c /\ (c + n) - W + k = k /\ k <= c /\ k \in 1 .. c + n
        BY <1>1, <1>7, <1>9, <2>3
      <3>2. new[k] = BP[k] /\ BP[k] = B[k]
        BY <1>4, <1>6, <3>1
      <3>3. QED
        BY <2>2, <3>2
    <2>5. QED
      BY <2>2, <2>3, <2>4
  <1>10. CASE n >= Size
    <2>1. q = [buf |-> [k \in Slots |-> p[n - Size + k + 1]],
               w |-> 0, full |-> TRUE]
      BY <1>1, <1>10 DEF q, Write
    <2>2. W = Size
      BY <1>1, <1>7, <1>10 DEF WindowLen
    <2>3. ASSUME NEW k \in 1 .. W
          PROVE  old[k] = new[k]
      <3> DEFINE j == (c + n) - W + k
      <3>1. /\ k - 1 \in Slots /\ 0 + k - 1 < Size /\ 0 + k - 1 = k - 1
            /\ j \in 1 .. c + n /\ ~(j <= c) /\ j - c = n - Size + (k - 1) + 1
        BY <1>1, <1>7, <1>10, <2>2 DEF Slots
      <3>2. old[k] = q.buf[k - 1]
        BY <1>5, <2>1, <2>2, <3>1
      <3>3. q.buf[k - 1] = p[n - Size + (k - 1) + 1]
        BY <2>1, <3>1
      <3>4. new[k] = BP[j]
        BY <1>6
      <3>5. BP[j] = p[j - c]
        BY <1>4, <3>1
      <3>6. QED
        BY <3>1, <3>2, <3>3, <3>4, <3>5
    <2>4. QED
      BY <1>5, <2>1, <2>2, <2>3
  <1>11. CASE n # 0 /\ n < Size
    <2>1. q = [buf |-> Copied(r, p), w |-> (r.w + n) % Size,
               full |-> Filled(r, n)]
      BY <1>1, <1>11 DEF q, Write, Advanced
    <2> DEFINE e == r.w + n
    <2>2. e \in Nat /\ e < 2 * Size /\ e = r.w + n
      BY <1>1, <1>11
    <2> HIDE DEF e
    <2>3. e % Size = IF e < Size THEN e ELSE e - Size
      BY <2>2, Modulus
    <2>4. /\ q.w = IF e < Size THEN e ELSE e - Size
          /\ q.full = (r.full \/ e >= Size)
      BY <1>1, <2>1, <2>3 DEF e, Filled
    <2>5. ASSUME NEW k \in 0 .. Size - 1
          PROVE  q.buf[k] = IF r.w <= k /\ k < e THEN p[k - r.w + 1]
                            ELSE IF k < e - Size THEN p[Size - r.w + k + 1]
                            ELSE r.buf[k]
      <3>1. k \in Slots /\ q.buf = Copied(r, p)
        BY <2>1 DEF Slots
      <3>2a. r.w + Len(p) = e
        BY <2>2
      <3>2b. e - Size = r.w + Len(p) - Size
        BY <1>1, <2>2, <3>2a
      <3>2. Copied(r, p)[k] = IF r.w <= k /\ k < r.w + Len(p) THEN p[k - r.w + 1]
                              ELSE IF k < r.w + Len(p) - Size
                                   THEN p[Size - r.w + k + 1]
                              ELSE r.buf[k]
        BY <3>1 DEF Copied
      <3>3. QED
        BY <3>1, <3>2, <3>2a, <3>2b
    <2>6. CASE ~r.full /\ e < Size
      <3>1. /\ c = r.w /\ W = e /\ Len(old) = e
            /\ ~q.full /\ q.w = e
        BY <1>1, <1>3, <1>5, <2>2, <2>4, <2>6 DEF WindowLen
      <3>2. ASSUME NEW k \in 1 .. e
            PROVE  old[k] = new[k]
        <4>1. old[k] = q.buf[k - 1] /\ k - 1 \in 0 .. Size - 1
          <5>1. e \in Nat /\ k \in 1 .. Len(old) /\ k - 1 \in 0 .. Size - 1
            BY <1>1, <2>2, <2>6, <3>1
          <5>2. old[k] = q.buf[IF q.full /\ q.w + k - 1 < Size THEN q.w + k - 1
                               ELSE IF q.full THEN (q.w + k - 1) - Size ELSE k - 1]
            BY <1>5, <5>1
          <5>3. QED
            BY <3>1, <5>1, <5>2
        <4>2. new[k] = BP[k] /\ k \in 1 .. c + n
          <5>1. c + n = e /\ k \in 1 .. W /\ k \in Int
            BY <2>2, <3>1
          <5>2. (c + n) - W + k = k
            BY ONLY <3>1, <5>1, <2>2
          <5>3. new[k] = BP[(c + n) - W + k]
            BY <1>6, <5>1
          <5>4. QED
            BY <3>1, <5>1, <5>2, <5>3
        <4>3. CASE k <= r.w
          <5>1. BP[k] = B[k] /\ B[k] = r.buf[k - 1]
            BY <1>1, <1>3, <1>4, <2>6, <3>1, <4>2, <4>3
          <5>2. q.buf[k - 1] = r.buf[k - 1]
            <6>1. ~(r.w <= k - 1) /\ ~(k - 1 < e - Size)
              BY <1>1, <2>2, <2>6, <4>1, <4>3
            <6>2. QED
              BY <2>5, <4>1, <6>1
          <5>3. QED
            BY <4>1, <4>2, <5>1, <5>2
        <4>4. CASE k > r.w
          <5>1. BP[k] = p[k - r.w]
            BY <1>1, <1>4, <3>1, <4>2, <4>4
          <5>2. q.buf[k - 1] = p[(k - 1) - r.w + 1]
            <6>1. r.w <= k - 1 /\ k - 1 < e
              BY ONLY <1>1, <2>2, <4>4, k \in 1 .. e
            <6>2. QED
              BY <2>5, <4>1, <6>1
          <5>3. (k - 1) - r.w + 1 = k - r.w
            BY <1>1
          <5>4. QED
            BY <4>1, <4>2, <5>1, <5>2, <5>3
        <4>5. QED
          BY <1>1, <4>3, <4>4
      <3>3. QED
        BY <3>1, <3>2
    <2>7. CASE r.full \/ e >= Size
      <3>1. W = Size /\ Len(old) = Size /\ q.full
        <4>1. q.full
          BY <2>4, <2>7
        <4>2. Len(old) = Size
          BY <1>5, <4>1
        <4>3. c = IF r.full THEN Size ELSE r.w
          BY <1>3
        <4>4. c + n >= Size /\ c + n \in Nat
          BY ONLY <1>1, <1>7, <2>2, <2>7, <4>3
        <4>5. W = Size
          BY <1>1, <4>4 DEF WindowLen
        <4>6. QED
          BY <4>1, <4>2, <4>5
      <3>2. ASSUME NEW k \in 1 .. Size
            PROVE  old[k] = new[k]
        <4> DEFINE i == IF q.w + k - 1 < Size THEN q.w + k - 1
                        ELSE (q.w + k - 1) - Size
                   j == (c + n) - Size + k
        <4>1. old[k] = q.buf[i]
          BY <1>5, <3>1
        <4>2. new[k] = BP[j]
          BY <1>6, <3>1
        <4>3. SameByte(Size, r.w, n, r.full, k, c, i, j)
          <5>1. /\ (r.full => c = Size) /\ (~r.full => c = r.w)
                /\ (e < Size => q.w = e) /\ (e >= Size => q.w = e - Size)
            BY <1>1, <1>3, <2>2, <2>4
          <5>2. e = r.w + n /\ 0 < n /\ (r.full \/ e >= Size) /\ q.w \in Nat
            BY <1>1, <1>11, <2>2, <2>7, <5>1
          <5>3. /\ i \in Int /\ (q.w + k - 1 < Size => i = q.w + k - 1)
                /\ (q.w + k - 1 >= Size => i = (q.w + k - 1) - Size)
            BY <1>1, <5>2
          <5>4. j \in Int /\ j = (c + n) - Size + k
            BY <1>1, <1>7
          <5> HIDE DEF i, j
          <5>5. WriteWraps(Size, r.w, n, r.full, k, c, q.w, i, j)
            BY <1>1, <1>7, <1>11, <5>1, <5>2, <5>3, <5>4 DEF WriteWraps
          <5>6. QED
            BY <5>5, WrappedIndex
        <4> HIDE DEF i, j
        <4>6. i \in 0 .. Size - 1 /\ j \in 1 .. c + n /\ e = r.w + n
          BY <2>2, <4>3 DEF SameByte
        <4>4. CASE k <= Size - n
          <5>1. /\ ~(r.w <= i /\ i < e) /\ ~(i < e - Size) /\ j \in 1 .. c
                /\ i = IF r.full /\ r.w + j - 1 < Size THEN r.w + j - 1
                       ELSE IF r.full THEN (r.w + j - 1) - Size ELSE j - 1
            BY ONLY <1>1, <4>3, <4>4, <4>6 DEF SameByte
          <5>2. q.buf[i] = r.buf[i]
            BY <2>5, <4>6, <5>1
          <5>3. BP[j] = B[j]
            BY <1>4, <4>6, <5>1
          <5>4. B[j] = r.buf[i]
            BY <1>3, <5>1
          <5>5. QED
            BY <4>1, <4>2, <5>2, <5>3, <5>4
        <4>5. CASE k > Size - n
          <5>1. /\ ~(j <= c)
                /\ \/ r.w <= i /\ i < e /\ i - r.w + 1 = j - c
                   \/ /\ ~(r.w <= i /\ i < e) /\ i < e - Size
                      /\ Size - r.w + i + 1 = j - c
            BY ONLY <1>1, <4>3, <4>5, <4>6 DEF SameByte
          <5>2. BP[j] = p[j - c]
            BY <1>4, <4>6, <5>1
          <5>3. q.buf[i] = p[j - c]
            BY <2>5, <4>6, <5>1
          <5>4. QED
            BY <4>1, <4>2, <5>2, <5>3
        <4>7. QED
          BY <1>1, <4>4, <4>5
      <3>3. QED
        BY <3>1, <3>2
    <2>8. QED
      BY <1>1, <2>2, <2>6, <2>7
  <1>12. QED
    BY <1>1, <1>9, <1>10, <1>11

----------------------------------------------------------------------------
(* The ring buffer in the read loop.                                       *)

\* Every byte carries its place.
InPlace == \A k \in DOMAIN output : output[k].at = k

\* What the read loop has read is a part of the output, and the ring buffer
\* is the window on what it has delivered.
StreamOK ==
  /\ output \in Seq(Byte) /\ InPlace
  /\ got \in 0 .. Len(output) /\ seen \in 0 .. got
  /\ ring \in Rings
  /\ RingIsWindow

\* Nothing was read, and the ring is empty.
LEMMA StreamInit == Init => StreamOK
  <1> SUFFICES ASSUME Init PROVE StreamOK
    OBVIOUS
  <1>1. /\ output \in Seq(Byte) /\ InPlace
        /\ got = 0 /\ seen = 0 /\ Len(output) \in Nat
    BY StreamAssumption DEF Init, InPlace
  <1>2. ring = NewRingBuffer /\ Size \in Nat /\ Size > 0 /\ Zero \in Byte
    BY RingAssumption DEF Init
  <1>3. ring \in Rings /\ ring.w = 0 /\ ~ring.full
    BY <1>2 DEF NewRingBuffer, Rings, Slots
  <1>4. Bytes(ring) \in Seq(Byte) /\ Len(Bytes(ring)) = 0
    BY <1>3, BytesFacts
  <1>5. SubSeq(output, 1, 0) \in Seq(Byte) /\ Len(SubSeq(output, 1, 0)) = 0
    BY <1>1
  <1>6. LastOf(SubSeq(output, 1, 0), Size) = SubSeq(output, 1, 0)
    BY <1>2, <1>5 DEF LastOf
  <1>7. Bytes(ring) = SubSeq(output, 1, 0)
    BY <1>4, <1>5, SeqEqual
  <1>8. QED
    BY <1>1, <1>3, <1>6, <1>7 DEF StreamOK, RingIsWindow

\* A step that touches neither the ring nor the place it has reached.
LEMMA StreamKept ==
  ASSUME StreamOK, output' = output, ring' = ring, seen' = seen,
         got' \in got .. Len(output)
  PROVE  StreamOK'
  BY DEF StreamOK, RingIsWindow, InPlace

\* A chunk that is delivered slides the window.
LEMMA StreamDelivered == StreamOK /\ Deliver => StreamOK'
  <1> SUFFICES ASSUME StreamOK, Deliver PROVE StreamOK'
    OBVIOUS
  <1> DEFINE old   == SubSeq(output, 1, seen)
             chunk == SubSeq(output, seen + 1, got)
             new   == SubSeq(output, 1, got)
  <1>1. /\ output' = output /\ got' = got /\ seen' = got
        /\ ring' = Write(ring, chunk)
    BY DEF Deliver
  <1>2. /\ output \in Seq(Byte) /\ Len(output) \in Nat
        /\ got \in Nat /\ seen \in Nat /\ seen <= got /\ got <= Len(output)
        /\ ring \in Rings /\ Bytes(ring) = LastOf(old, Size)
        /\ Size \in Nat
    BY RingAssumption DEF StreamOK, RingIsWindow
  <1>3. old \in Seq(Byte) /\ chunk \in Seq(Byte) /\ new \in Seq(Byte)
    BY <1>2
  <1>4. old \o chunk = new
    BY <1>2
  <1> HIDE DEF old, chunk, new
  <1>5. Bytes(Write(ring, chunk)) = LastOf(Bytes(ring) \o chunk, Size)
    BY <1>2, <1>3, WindowSlides DEF SlidesWindow
  <1>6. LastOf(LastOf(old, Size) \o chunk, Size) = LastOf(new, Size)
    BY <1>2, <1>3, <1>4, LastOfConcat
  <1>7. Bytes(ring') = LastOf(SubSeq(output', 1, seen'), Size)
    BY <1>1, <1>2, <1>5, <1>6 DEF new
  <1>8. ring' \in Rings
    BY <1>1, <1>2, <1>3, WriteIsRing
  <1>9. InPlace'
    BY <1>1 DEF StreamOK, InPlace
  <1>10. QED
    BY <1>1, <1>2, <1>7, <1>8, <1>9 DEF StreamOK, RingIsWindow

\* Every step keeps the stream.
LEMMA StreamStep == StreamOK /\ [Next]_vars => StreamOK'
  <1> SUFFICES ASSUME StreamOK, [Next]_vars PROVE StreamOK'
    OBVIOUS
  <1>0. got \in Nat /\ Len(output) \in Nat /\ got \in got .. Len(output)
    BY DEF StreamOK
  <1> USE <1>0, StreamKept
  <1>1. CASE ReadChunk
    BY <1>1 DEF ReadChunk
  <1>2. CASE LoopStep
    <2>1. CASE Deliver
      BY <2>1, StreamDelivered
    <2>2. CASE ReadError
      BY <2>2 DEF ReadError
    <2>3. CASE CloseLog
      BY <2>3 DEF CloseLog
    <2>4. CASE CloseAllSubscribers
      BY <2>4 DEF CloseAllSubscribers
    <2>5. CASE Signal
      BY <2>5 DEF Signal
    <2>6. QED
      BY <1>2, <2>1, <2>2, <2>3, <2>4, <2>5 DEF LoopStep
  <1>3. CASE AgentExit
    BY <1>3 DEF AgentExit
  <1>4. CASE Publish \/ StopSession \/ RemoveSession
    BY <1>4 DEF Publish, StopSession, RemoveSession, loopVars
  <1>5. CASE Close
    BY <1>5 DEF Close, CloseConn, CloseReturn, loopVars
  <1>6. ASSUME NEW v \in Viewers,
               \/ Connect(v) \/ CheckSession(v) \/ Subscribe(v)
               \/ Serve(v) \/ Disconnect(v)
        PROVE  StreamOK'
    BY <1>6 DEF Connect, CheckSession, Subscribe, Serve, PumpOutput,
                PumpPrompts, StreamEnded, Leave, Disconnect, loopVars
  <1>7. CASE Quiet \/ UNCHANGED vars
    BY <1>7 DEF Quiet, vars, loopVars
  <1>8. QED
    BY <1>1, <1>2, <1>3, <1>4, <1>5, <1>6, <1>7 DEF Next

\* The ring buffer always holds the last Size bytes that were read and
\* delivered, for every output, capacity and way to cut the output into
\* chunks (ringbuf.go, broadcaster.go:153).
THEOREM RingHoldsTheEnd == Spec => []RingIsWindow
  <1>1. StreamOK => RingIsWindow
    BY DEF StreamOK
  <1>2. QED
    BY StreamInit, StreamStep, <1>1, PTL DEF Spec

----------------------------------------------------------------------------
(* Close and the end of the read loop.                                     *)

\* Where the read loop is says what it has delivered and released.
LoopOK ==
  /\ rl \in {"read", "deliver", "closelog", "closesubs", "signal", "done"}
  /\ rl # "deliver" => seen = got
  /\ rl \in {"closesubs", "signal", "done"} => ~logOpen
  /\ stopped => rl = "done"
  /\ closing = "closed" => stopped

\* The read loop starts with nothing to release.
LEMMA LoopInit == Init => LoopOK
  BY DEF Init, LoopOK

\* Every step keeps it.
LEMMA LoopStepKept == LoopOK /\ [Next]_vars => LoopOK'
  <1> SUFFICES ASSUME LoopOK, [Next]_vars PROVE LoopOK'
    OBVIOUS
  <1> USE DEF LoopOK, Deferred
  <1>1. CASE ReadChunk
    BY <1>1 DEF ReadChunk, sessionVars
  <1>2. CASE LoopStep
    <2>1. CASE Deliver
      BY <2>1 DEF Deliver, sessionVars
    <2>2. CASE ReadError
      BY <2>2 DEF ReadError, sessionVars
    <2>3. CASE CloseLog
      BY <2>3 DEF CloseLog, sessionVars
    <2>4. CASE CloseAllSubscribers
      BY <2>4 DEF CloseAllSubscribers, sessionVars
    <2>5. CASE Signal
      BY <2>5 DEF Signal, sessionVars
    <2>6. QED
      BY <1>2, <2>1, <2>2, <2>3, <2>4, <2>5 DEF LoopStep
  <1>3. CASE AgentExit
    BY <1>3 DEF AgentExit, sessionVars
  <1>4. CASE Publish \/ StopSession \/ RemoveSession
    BY <1>4 DEF Publish, StopSession, RemoveSession, loopVars
  <1>5. CASE Close
    BY <1>5 DEF Close, CloseConn, CloseReturn, loopVars
  <1>6. ASSUME NEW v \in Viewers,
               \/ Connect(v) \/ CheckSession(v) \/ Subscribe(v)
               \/ Serve(v) \/ Disconnect(v)
        PROVE  LoopOK'
    <2>1. UNCHANGED <<loopVars, sessionVars>>
      BY <1>6 DEF Connect, CheckSession, Subscribe, Serve, PumpOutput,
                  PumpPrompts, StreamEnded, Leave, Disconnect
    <2>2. QED
      BY <2>1 DEF loopVars, sessionVars
  <1>7. CASE Quiet \/ UNCHANGED vars
    BY <1>7 DEF Quiet, vars, loopVars, sessionVars
  <1>8. QED
    BY <1>1, <1>2, <1>3, <1>4, <1>5, <1>6, <1>7 DEF Next

\* Once Close has returned the read loop has delivered everything it read
\* and the log file is closed (broadcaster.go:110-129): what Stop, Delete,
\* Restart and Shutdown commit or record next is complete.
THEOREM CloseIsComplete == Spec => []CloseWaits
  <1>1. LoopOK => CloseWaits
    BY DEF LoopOK, CloseWaits
  <1>2. QED
    BY LoopInit, LoopStepKept, <1>1, PTL DEF Spec

----------------------------------------------------------------------------
(* The subscribers' channels.                                              *)

\* s has the fields of a Subscriber.
IsSubscriber(s) == s = [chan |-> s.chan, ch |-> s.ch, events |-> s.events,
                        missed |-> s.missed]

ChannelsOK ==
  /\ subs \subseteq Viewers
  /\ sub = [v \in Viewers |-> sub[v]]
  /\ \A v \in Viewers : IsSubscriber(sub[v])
  /\ OpenIffSubscribed

\* Nothing that is sent opens or closes a channel.
LEMMA OfferKeepsChannels ==
  ASSUME NEW s, IsSubscriber(s), NEW chunk, NEW ps
  PROVE  /\ IsSubscriber(OfferPrompts(Offer(s, chunk), ps))
         /\ OfferPrompts(Offer(s, chunk), ps).chan = s.chan
  <1>1. /\ IsSubscriber(Offer(s, chunk)) /\ Offer(s, chunk).chan = s.chan
    BY DEF IsSubscriber, Offer
  <1>2. ASSUME NEW t, IsSubscriber(t)
        PROVE  IsSubscriber(OfferPrompts(t, ps)) /\ OfferPrompts(t, ps).chan = t.chan
    BY <1>2 DEF IsSubscriber, OfferPrompts
  <1>3. QED
    BY <1>1, <1>2

\* Nobody has subscribed.
LEMMA ChannelsInit == Init => ChannelsOK
  <1> SUFFICES ASSUME Init PROVE ChannelsOK
    OBVIOUS
  <1>1. subs = {} /\ sub = [v \in Viewers |-> NoSub]
    BY DEF Init
  <1>2. \A v \in Viewers : sub[v] = NoSub
    BY <1>1
  <1>3. IsSubscriber(NoSub) /\ NoSub.chan = "none"
    BY DEF IsSubscriber, NoSub
  <1>4. QED
    BY <1>1, <1>2, <1>3 DEF ChannelsOK, OpenIffSubscribed

\* A step that gives one viewer v the subscriber t, registered or not.
LEMMA OneChannelKept ==
  ASSUME ChannelsOK, NEW v \in Viewers, NEW t, IsSubscriber(t),
         sub' = [sub EXCEPT ![v] = t],
         \/ subs' = subs /\ t.chan = sub[v].chan
         \/ subs' = subs \cup {v} /\ t.chan = "open"
         \/ subs' = subs \ {v} /\ t.chan = "closed"
  PROVE  ChannelsOK'
  <1>1. \A u \in Viewers : sub'[u] = IF u = v THEN t ELSE sub[u]
    BY DEF ChannelsOK
  <1>2. sub' = [u \in Viewers |-> sub'[u]] /\ subs' \subseteq Viewers
    BY DEF ChannelsOK
  <1>3. \A u \in Viewers : IsSubscriber(sub'[u])
    BY <1>1 DEF ChannelsOK
  <1>4. \A u \in Viewers : u \in subs' <=> sub'[u].chan = "open"
    BY <1>1 DEF ChannelsOK, OpenIffSubscribed
  <1>5. QED
    BY <1>2, <1>3, <1>4 DEF ChannelsOK, OpenIffSubscribed, IsSubscriber

\* The read loop's steps keep the channels.
LEMMA ChannelsLoopStep == ChannelsOK /\ LoopStep => ChannelsOK'
  <1> SUFFICES ASSUME ChannelsOK, LoopStep PROVE ChannelsOK'
    OBVIOUS
  <1>1. CASE Deliver
    <2> DEFINE chunk == SubSeq(output, seen + 1, got)
               new(v) == OfferPrompts(Offer(sub[v], chunk), found)
    <2>1. /\ subs' = subs
          /\ sub' = [v \in Viewers |-> IF v \in subs THEN new(v) ELSE sub[v]]
      BY <1>1 DEF Deliver
    <2>2. ASSUME NEW v \in Viewers
          PROVE  IsSubscriber(new(v)) /\ new(v).chan = sub[v].chan
      BY OfferKeepsChannels DEF ChannelsOK
    <2> HIDE DEF new
    <2>3. ASSUME NEW v \in Viewers
          PROVE  /\ IsSubscriber(sub'[v]) /\ sub'[v].chan = sub[v].chan
      <3>1. sub'[v] = IF v \in subs THEN new(v) ELSE sub[v]
        BY <2>1
      <3>2. QED
        BY <2>2, <3>1 DEF ChannelsOK
    <2>4. QED
      BY <2>1, <2>3 DEF ChannelsOK, OpenIffSubscribed, IsSubscriber
  <1>2. CASE CloseAllSubscribers
    <2>1. /\ subs' = {}
          /\ sub' = [v \in Viewers |-> IF v \in subs THEN Closed(sub[v]) ELSE sub[v]]
      BY <1>2 DEF CloseAllSubscribers
    <2>2. ASSUME NEW v \in Viewers
          PROVE  IsSubscriber(sub'[v]) /\ sub'[v].chan # "open"
      <3>1. sub'[v] = IF v \in subs THEN Closed(sub[v]) ELSE sub[v]
        BY <2>1
      <3>2. IsSubscriber(Closed(sub[v])) /\ Closed(sub[v]).chan = "closed"
        BY DEF ChannelsOK, IsSubscriber, Closed
      <3>3. QED
        BY <3>1, <3>2 DEF ChannelsOK, OpenIffSubscribed
    <2>3. QED
      BY <2>1, <2>2 DEF ChannelsOK, OpenIffSubscribed, IsSubscriber
  <1>3. CASE ReadError \/ CloseLog \/ Signal
    BY <1>3 DEF ReadError, CloseLog, Signal, ChannelsOK, OpenIffSubscribed,
                IsSubscriber
  <1>4. QED
    BY <1>1, <1>2, <1>3 DEF LoopStep

\* So do a viewer's.
LEMMA ChannelsViewerStep ==
  ASSUME ChannelsOK, NEW v \in Viewers,
         \/ Connect(v) \/ CheckSession(v) \/ Subscribe(v)
         \/ Serve(v) \/ Disconnect(v)
  PROVE  ChannelsOK'
  <1>0. IsSubscriber(sub[v]) /\ sub = [u \in Viewers |-> sub[u]]
    BY DEF ChannelsOK
  <1>1. CASE UNCHANGED <<subs, sub>>
    BY <1>1 DEF ChannelsOK, OpenIffSubscribed, IsSubscriber
  <1>2. CASE Subscribe(v)
    <2> DEFINE t == [sub[v] EXCEPT !.chan = "open"]
    <2>1. sub' = [sub EXCEPT ![v] = t] /\ subs' = subs \cup {v}
      BY <1>0, <1>2 DEF Subscribe
    <2>2. IsSubscriber(t) /\ t.chan = "open"
      BY <1>0 DEF IsSubscriber
    <2> HIDE DEF t
    <2>3. QED
      BY <2>1, <2>2, OneChannelKept
  <1>3. CASE PumpOutput(v)
    <2> DEFINE rest == Tail(sub[v].ch)
               t == [sub[v] EXCEPT !.ch = rest]
    <2>1. sub' = [sub EXCEPT ![v] = t] /\ subs' = subs
      BY <1>0, <1>3 DEF PumpOutput
    <2> HIDE DEF rest
    <2>2. IsSubscriber(t) /\ t.chan = sub[v].chan
      BY <1>0 DEF IsSubscriber
    <2> HIDE DEF t
    <2>3. QED
      BY <2>1, <2>2, OneChannelKept
  <1>4. CASE PumpPrompts(v)
    <2> DEFINE rest == Tail(sub[v].events)
               t == [sub[v] EXCEPT !.events = rest]
    <2>1. sub' = [sub EXCEPT ![v] = t] /\ subs' = subs
      BY <1>0, <1>4 DEF PumpPrompts
    <2> HIDE DEF rest
    <2>2. IsSubscriber(t) /\ t.chan = sub[v].chan
      BY <1>0 DEF IsSubscriber
    <2> HIDE DEF t
    <2>3. QED
      BY <2>1, <2>2, OneChannelKept
  <1>5. CASE Leave(v)
    <2>1. CASE place = "mapped" /\ v \in subs
      <3> DEFINE t == Closed(sub[v])
      <3>1. sub' = [sub EXCEPT ![v] = t] /\ subs' = subs \ {v}
        BY <1>5, <2>1 DEF Leave, Unsubscribed
      <3>2. IsSubscriber(t) /\ t.chan = "closed"
        BY <1>0 DEF IsSubscriber, Closed
      <3> HIDE DEF t
      <3>3. QED
        BY <3>1, <3>2, OneChannelKept
    <2>2. CASE ~(place = "mapped" /\ v \in subs)
      BY <1>1, <1>5, <2>2 DEF Leave
    <2>3. QED
      BY <2>1, <2>2
  <1>6. CASE Connect(v) \/ CheckSession(v) \/ StreamEnded(v) \/ Disconnect(v)
    BY <1>1, <1>6 DEF Connect, CheckSession, StreamEnded, Disconnect
  <1>7. QED
    BY <1>2, <1>3, <1>4, <1>5, <1>6 DEF Serve

\* So does every step.
LEMMA ChannelsStep == ChannelsOK /\ [Next]_vars => ChannelsOK'
  <1> SUFFICES ASSUME ChannelsOK, [Next]_vars PROVE ChannelsOK'
    OBVIOUS
  <1>1. CASE UNCHANGED <<subs, sub>>
    BY <1>1 DEF ChannelsOK, OpenIffSubscribed, IsSubscriber
  <1>2. CASE ReadChunk \/ AgentExit \/ Publish \/ StopSession \/ RemoveSession
             \/ Close
    BY <1>1, <1>2 DEF ReadChunk, AgentExit, Publish, StopSession, RemoveSession,
                      Close, CloseConn, CloseReturn
  <1>3. CASE Quiet \/ UNCHANGED vars
    BY <1>1, <1>3 DEF Quiet, vars
  <1>4. QED
    BY <1>2, <1>3, ChannelsLoopStep, ChannelsViewerStep DEF Next

\* However viewers come and go while the stream ends, and however many there
\* are, no goroutine sends on a closed channel or closes one twice
\* (broadcaster.go:83-93, 152-167, 188-198).
THEOREM ChannelsAreSafe == Spec => []OpenIffSubscribed
  <1>1. ChannelsOK => OpenIffSubscribed
    BY DEF ChannelsOK
  <1>2. QED
    BY ChannelsInit, ChannelsStep, <1>1, PTL DEF Spec

----------------------------------------------------------------------------
(* The types.                                                              *)

Labels == {"idle", "upgrade", "subscribe", "live", "leave", "gone"}

\* What TypeOK says of the intercepter and of what it has found.
Found == line \in Seq(Byte) /\ found \in Seq(Nat) /\ announced \in Seq(Nat)

\* What it says of the viewers.
Watched ==
  /\ subs \subseteq Viewers /\ sub \in [Viewers -> Subscriber]
  /\ pc \in [Viewers -> Labels] /\ screen \in [Viewers -> Screen]

\* What it says of the rest.
States ==
  /\ conn \in {"open", "eof", "closed"}
  /\ logOpen \in BOOLEAN /\ stopped \in BOOLEAN
  /\ place \in {"new", "mapped", "gone"} /\ status \in {"running", "stopped"}
  /\ closing \in {"idle", "close", "waiting", "closed"}

\* TypeOK, taken apart.
LEMMA TypesAre == StreamOK /\ LoopOK /\ Found /\ Watched /\ States => TypeOK
  BY DEF StreamOK, LoopOK, Found, Watched, States, TypeOK, Labels

\* The rest keeps its types.
LEMMA StatesStep == States /\ [Next]_vars => States'
  <1> SUFFICES ASSUME States, [Next]_vars PROVE States'
    OBVIOUS
  <1> USE DEF States
  <1>1. CASE ReadChunk
    BY <1>1 DEF ReadChunk, sessionVars
  <1>2. CASE LoopStep
    BY <1>2 DEF LoopStep, Deliver, ReadError, CloseLog, CloseAllSubscribers,
                Signal, sessionVars
  <1>3. CASE AgentExit
    BY <1>3 DEF AgentExit, sessionVars
  <1>4. CASE Publish \/ StopSession \/ RemoveSession
    BY <1>4 DEF Publish, StopSession, RemoveSession, loopVars
  <1>5. CASE Close
    BY <1>5 DEF Close, CloseConn, CloseReturn, loopVars
  <1>6. ASSUME NEW v \in Viewers,
               \/ Connect(v) \/ CheckSession(v) \/ Subscribe(v)
               \/ Serve(v) \/ Disconnect(v)
        PROVE  States'
    <2>1. UNCHANGED <<loopVars, sessionVars>>
      BY <1>6 DEF Connect, CheckSession, Subscribe, Serve, PumpOutput,
                  PumpPrompts, StreamEnded, Leave, Disconnect
    <2>2. QED
      BY <2>1 DEF loopVars, sessionVars
  <1>7. CASE Quiet \/ UNCHANGED vars
    BY <1>7 DEF Quiet, vars, loopVars, sessionVars
  <1>8. QED
    BY <1>1, <1>2, <1>3, <1>4, <1>5, <1>6, <1>7 DEF Next

\* The intercepter and what it has found keep their types.
LEMMA FoundStep == StreamOK /\ Found /\ [Next]_vars => Found'
  <1> SUFFICES ASSUME StreamOK, Found, [Next]_vars PROVE Found'
    OBVIOUS
  <1>1. CASE ReadChunk
    <2>1. PICK n \in 1 .. MaxChunk :
            /\ got + n <= Len(output)
            /\ LET scan == Scan(line, SubSeq(output, got + 1, got + n)) IN
               line' = scan.buf /\ found' = scan.prompts
      BY <1>1 DEF ReadChunk
    <2> DEFINE chunk == SubSeq(output, got + 1, got + n)
    <2>2. chunk \in Seq(Byte)
      BY <2>1, StreamAssumption DEF StreamOK
    <2>3. Byte \in SUBSET Piece
      BY StreamAssumption DEF Piece
    <2>4. line' = Scan(line, chunk).buf /\ found' = Scan(line, chunk).prompts
      BY <2>1
    <2> HIDE DEF chunk
    <2>5. Scan(line, chunk).buf \in Seq(Byte) /\ Scan(line, chunk).prompts \in Seq(Nat)
      BY <2>2, <2>3, ScanType DEF Found
    <2>6. announced' = announced
      BY <1>1 DEF ReadChunk
    <2>7. QED
      BY <2>4, <2>5, <2>6 DEF Found
  <1>2. CASE Deliver
    <2>1. line' = line /\ found' = <<>> /\ announced' = announced \o found
      BY <1>2 DEF Deliver
    <2>2. announced \o found \in Seq(Nat)
      BY DEF Found
    <2>3. QED
      BY <2>1, <2>2 DEF Found
  <1>3. CASE UNCHANGED <<line, found, announced>>
    BY <1>3 DEF Found
  <1>4. CASE ReadError \/ CloseLog \/ CloseAllSubscribers \/ Signal
    BY <1>3, <1>4 DEF ReadError, CloseLog, CloseAllSubscribers, Signal
  <1>5. CASE AgentExit \/ Publish \/ StopSession \/ RemoveSession \/ Close
    BY <1>3, <1>5 DEF AgentExit, Publish, StopSession, RemoveSession, Close,
                      CloseConn, CloseReturn, loopVars
  <1>6. ASSUME NEW v \in Viewers,
               \/ Connect(v) \/ CheckSession(v) \/ Subscribe(v)
               \/ Serve(v) \/ Disconnect(v)
        PROVE  Found'
    <2>1. UNCHANGED loopVars
      BY <1>6 DEF Connect, CheckSession, Subscribe, Serve, PumpOutput,
                  PumpPrompts, StreamEnded, Leave, Disconnect
    <2>2. QED
      BY <1>3, <2>1 DEF loopVars
  <1>7. CASE Quiet \/ UNCHANGED vars
    BY <1>3, <1>7 DEF Quiet, vars, loopVars
  <1>8. QED
    BY <1>1, <1>2, <1>4, <1>5, <1>6, <1>7 DEF Next, LoopStep

----------------------------------------------------------------------------
(* The viewers: what their steps do.                                       *)

\* The replay is what the ring has from some line on, or nothing.
LEMMA Replay ==
  ASSUME NEW s \in Seq(Byte)
  PROVE  LET r == AlignReplayToLineStart(s) IN
         \E k \in 0 .. Len(s) :
           /\ r = SubSeq(s, k + 1, Len(s))
           /\ \/ k = Len(s)
              \/ s[k + 1].kind = "nl"
              \/ k > 0 /\ s[k].kind = "nl"
  <1> DEFINE n == Len(s)
             I == {i \in 1 .. n : s[i].kind = "nl"}
             end == SelectInSeq(s, LAMBDA b : b.kind = "nl")
  <1>0. n \in Nat
    OBVIOUS
  <1>1. end = IF I # {} THEN Min(I) ELSE 0
    BY Zenon DEF SelectInSeq
  <1>2. I # {} => Min(I) \in I
    <2> SUFFICES ASSUME I # {} PROVE Min(I) \in I
      OBVIOUS
    <2>1. I \subseteq Nat
      OBVIOUS
    <2> HIDE DEF I
    <2>2. \E x \in I : \A y \in I : x <= y
      BY <2>1, Least
    <2>3. QED
      BY <2>2 DEF Min
  <1>3. end = 0 \/ (end \in 1 .. n /\ s[end].kind = "nl")
    BY <1>1, <1>2
  <1>4. AlignReplayToLineStart(s) =
          CASE end = 0 -> <<>> [] end = 1 -> s [] OTHER -> SubSeq(s, end + 1, Len(s))
    BY Zenon DEF AlignReplayToLineStart
  <1> HIDE DEF end
  <1>5. CASE end = 0
    <2>1. AlignReplayToLineStart(s) = <<>>
      BY <1>4, <1>5
    <2>2. SubSeq(s, n + 1, n) = <<>>
      BY <1>0
    <2>3. n \in 0 .. n
      BY <1>0
    <2>4. QED
      BY <2>1, <2>2, <2>3
  <1>6. CASE end = 1
    <2>1. AlignReplayToLineStart(s) = s
      BY <1>4, <1>6
    <2>2. SubSeq(s, 1, n) = s
      BY <1>0
    <2>3. 0 \in 0 .. n /\ 0 + 1 = 1 /\ s[0 + 1].kind = "nl"
      BY <1>0, <1>3, <1>6
    <2>4. QED
      BY <2>1, <2>2, <2>3
  <1>7. CASE end # 0 /\ end # 1
    <2>1. AlignReplayToLineStart(s) = SubSeq(s, end + 1, n)
      BY <1>4, <1>7
    <2>2. end \in 0 .. n /\ end > 0 /\ s[end].kind = "nl"
      BY <1>0, <1>3, <1>7
    <2>3. QED
      BY <2>1, <2>2
  <1>8. QED
    BY <1>5, <1>6, <1>7

\* What is sent to a subscriber leaves it one.
LEMMA OfferedIs ==
  ASSUME NEW s \in Subscriber, NEW chunk \in Seq(Byte), NEW ps \in Seq(Nat)
  PROVE  OfferPrompts(Offer(s, chunk), ps) \in Subscriber
  <1>1. ASSUME NEW t \in Subscriber
        PROVE  OfferPrompts(t, ps) \in Subscriber
    <2> DEFINE room == EventChanSize - Len(t.events)
               part == SubSeq(ps, 1, room)
    <2>1. t.events \in Seq(Nat) /\ t.events \o ps \in Seq(Nat)
      BY DEF Subscriber
    <2>2. room \in Int
      BY <2>1, StreamAssumption
    <2>3. CASE Len(ps) <= room
      <3>1. OfferPrompts(t, ps) = [t EXCEPT !.events = @ \o ps]
        BY <2>3 DEF OfferPrompts
      <3>2. QED
        BY <2>1, <3>1 DEF Subscriber
    <2>4. CASE ~(Len(ps) <= room)
      <3>1. OfferPrompts(t, ps) = [t EXCEPT !.events = @ \o part, !.missed = TRUE]
        BY <2>4 DEF OfferPrompts
      <3>2. part \in Seq(Nat)
        BY <2>2, <2>4
      <3> HIDE DEF part, room
      <3>3. t.events \o part \in Seq(Nat)
        BY <2>1, <3>2
      <3>4. QED
        BY <3>1, <3>3 DEF Subscriber
    <2>5. QED
      BY <2>3, <2>4
  <1>2. Offer(s, chunk) \in Subscriber
    <2>1. s.ch \in Seq(Seq(Byte)) /\ Append(s.ch, chunk) \in Seq(Seq(Byte))
      BY DEF Subscriber
    <2>2. QED
      BY <2>1 DEF Offer, Subscriber
  <1>3. QED
    BY <1>1, <1>2

\* What a viewer starts with.
LEMMA NoneIsOne == NoSub \in Subscriber /\ NoScreen \in Screen
  <1>1. <<>> \in Seq(Seq(Byte)) /\ <<>> \in Seq(Nat) /\ <<>> \in Seq(Byte)
    OBVIOUS
  <1>2. QED
    BY <1>1 DEF NoSub, NoScreen, Subscriber, Screen

\* A step of the viewer v gives it a subscriber and a screen, and moves it.
LEMMA WatchedOne ==
  ASSUME Watched, NEW v \in Viewers, NEW t \in Subscriber, NEW s \in Screen, NEW l \in Labels,
         sub' = [sub EXCEPT ![v] = t], screen' = [screen EXCEPT ![v] = s],
         pc' = [pc EXCEPT ![v] = l], subs' \in {subs, subs \cup {v}, subs \ {v}}
  PROVE  Watched'
  <1>1. subs' \subseteq Viewers
    BY DEF Watched
  <1>2. sub' \in [Viewers -> Subscriber] /\ screen' \in [Viewers -> Screen] /\ pc' \in [Viewers -> Labels]
    BY DEF Watched
  <1>3. QED
    BY <1>1, <1>2 DEF Watched

\* What a viewer has is left alone by all but its own steps.
LEMMA Same ==
  ASSUME Watched, NEW v \in Viewers
  PROVE  /\ sub[v] \in Subscriber /\ sub = [sub EXCEPT ![v] = sub[v]]
         /\ screen[v] \in Screen /\ screen = [screen EXCEPT ![v] = screen[v]]
         /\ pc[v] \in Labels /\ pc = [pc EXCEPT ![v] = pc[v]]
  BY DEF Watched

\* What the steps of the viewer v do to its subscriber, its screen and its
\* place, and to nothing else.
Moves(v, t, s, l) ==
  /\ sub' = [sub EXCEPT ![v] = t] /\ screen' = [screen EXCEPT ![v] = s]
  /\ pc' = [pc EXCEPT ![v] = l] /\ UNCHANGED <<output, loopVars>>

Replayed(v) == [bytes |-> AlignReplayToLineStart(Bytes(ring)), prompts |-> <<>>,
                since |-> seen, heard0 |-> Len(announced)]

\* What Subscribe does to the screens f.
Sends(f, v, b, m, h, g) == g = [f EXCEPT ![v].bytes = b, ![v].since = m, ![v].heard0 = h]

\* The screen of a viewer that has subscribed.
LEMMA Sent ==
  ASSUME NEW f, NEW D, NEW R, f \in [D -> R], NEW v \in D, f[v] = NoScreen,
         NEW b, NEW m, NEW h, NEW g, Sends(f, v, b, m, h, g)
  PROVE  g = [f EXCEPT ![v] = [bytes |-> b, prompts |-> <<>>, since |-> m, heard0 |-> h]]
  <1> DEFINE r == [bytes |-> b, prompts |-> <<>>, since |-> m, heard0 |-> h]
             k == [f EXCEPT ![v] = r]
  <1>1. \A u \in D : u # v => g[u] = f[u]
    BY DEF Sends
  <1>2. g[v] = [NoScreen EXCEPT !.bytes = b, !.since = m, !.heard0 = h]
    BY DEF Sends
  <1>3. g[v] = r
    BY <1>2 DEF NoScreen
  <1>4. g = [u \in D |-> g[u]]
    BY DEF Sends
  <1>5. k = [u \in D |-> IF u = v THEN r ELSE f[u]]
    <2> HIDE DEF r
    <2> QED
      OBVIOUS
  <1> HIDE DEF r
  <1>6. g = [u \in D |-> IF u = v THEN r ELSE f[u]]
    BY <1>1, <1>3, <1>4
  <1>7. QED
    BY <1>5, <1>6 DEF r

\* What Subscribe does.
LEMMA SubscribeIs ==
  ASSUME Watched, StreamOK, Found, NEW v \in Viewers, Subscribe(v), screen[v] = NoScreen
  PROVE  /\ Moves(v, [sub[v] EXCEPT !.chan = "open"], Replayed(v), "live")
         /\ subs' = subs \cup {v} /\ pc[v] = "subscribe"
         /\ [sub[v] EXCEPT !.chan = "open"] \in Subscriber /\ Replayed(v) \in Screen
  <1>1. /\ sub[v] \in Subscriber /\ screen \in [Viewers -> Screen] /\ sub \in [Viewers -> Subscriber]
    BY DEF Watched
  <1> DEFINE t == [sub[v] EXCEPT !.chan = "open"]
             b == AlignReplayToLineStart(Bytes(ring))
  <1>2. t \in Subscriber
    BY <1>1 DEF Subscriber
  <1>3. b \in Seq(Byte)
    <2>1. Bytes(ring) \in Seq(Byte)
      BY BytesFacts DEF StreamOK
    <2>2. PICK k \in 0 .. Len(Bytes(ring)) : b = SubSeq(Bytes(ring), k + 1, Len(Bytes(ring)))
      BY <2>1, Replay
    <2> HIDE DEF b
    <2>3. QED
      BY <2>1, <2>2, Rest
  <1>4. seen \in Nat /\ Len(announced) \in Nat
    BY DEF StreamOK, Found
  <1>5. Replayed(v) \in Screen
    <2> HIDE DEF b
    <2>1. <<>> \in Seq(Nat)
      OBVIOUS
    <2>2. Replayed(v) = [bytes |-> b, prompts |-> <<>>, since |-> seen, heard0 |-> Len(announced)]
      BY DEF Replayed, b
    <2>3. QED
      BY <1>3, <1>4, <2>1, <2>2 DEF Screen
  <1>6. sub' = [sub EXCEPT ![v] = t]
    BY <1>1, Zenon DEF Subscribe
  <1>7. screen' = [screen EXCEPT ![v] = Replayed(v)]
    <2>1. Sends(screen, v, b, seen, Len(announced), screen')
      BY DEF Subscribe, Sends
    <2> HIDE DEF b
    <2>2. screen' = [screen EXCEPT ![v] = [bytes |-> b, prompts |-> <<>>,
                                           since |-> seen, heard0 |-> Len(announced)]]
      <3>1. screen \in [Viewers -> Screen] /\ screen[v] = NoScreen
        BY <1>1
      <3>2. QED
        BY <2>1, <3>1, Sent, Zenon
    <2>3. QED
      BY <2>2, Zenon DEF Replayed, b
  <1>8. QED
    BY <1>2, <1>5, <1>6, <1>7 DEF Moves, Subscribe, GotoV

\* What the goroutine that ranges over Ch does.
LEMMA PumpOutputIs ==
  ASSUME Watched, NEW v \in Viewers, PumpOutput(v)
  PROVE  \E t \in Subscriber, s \in Screen :
           /\ Moves(v, t, s, pc[v]) /\ subs' = subs
           /\ sub[v].ch # <<>> /\ t = [sub[v] EXCEPT !.ch = Tail(sub[v].ch)]
           /\ pc[v] = "live" => s = [screen[v] EXCEPT !.bytes = screen[v].bytes \o Head(sub[v].ch)]
           /\ pc[v] # "live" => s = screen[v]
  <1>1. /\ sub[v] \in Subscriber /\ screen \in [Viewers -> Screen] /\ sub \in [Viewers -> Subscriber]
        /\ screen[v] \in Screen
    BY DEF Watched
  <1> DEFINE rest  == Tail(sub[v].ch)
             first == Head(sub[v].ch)
             more  == screen[v].bytes \o first
             t == [sub[v] EXCEPT !.ch = rest]
             s == IF pc[v] = "live" THEN [screen[v] EXCEPT !.bytes = more] ELSE screen[v]
  <1>2. sub[v].ch \in Seq(Seq(Byte)) /\ sub[v].ch # <<>>
    BY <1>1 DEF PumpOutput, Subscriber
  <1>3. rest \in Seq(Seq(Byte)) /\ first \in Seq(Byte)
    BY <1>2
  <1>4. screen[v].bytes \in Seq(Byte)
    BY <1>1 DEF Screen
  <1>5. sub' = [sub EXCEPT ![v] = t]
    BY <1>1, Zenon DEF PumpOutput
  <1>6. screen' = [screen EXCEPT ![v] = s]
    <2>1. CASE pc[v] = "live"
      <3>1. screen' = [screen EXCEPT ![v].bytes = @ \o Head(sub[v].ch)]
        BY <2>1 DEF PumpOutput
      <3>2. screen' = [screen EXCEPT ![v] = [screen[v] EXCEPT !.bytes = more]]
        BY <3>1, <1>1, Zenon
      <3>3. QED
        BY <2>1, <3>2
    <2>2. CASE pc[v] # "live"
      <3>1. screen' = screen
        BY <2>2 DEF PumpOutput
      <3>2. QED
        BY <2>2, <3>1, Same
    <2>3. QED
      BY <2>1, <2>2
  <1>7. more \in Seq(Byte)
    BY <1>3, <1>4
  <1> HIDE DEF rest, more
  <1>8. t \in Subscriber /\ s \in Screen
    BY <1>1, <1>3, <1>7 DEF Subscriber, Screen
  <1>9. pc' = [pc EXCEPT ![v] = pc[v]] /\ UNCHANGED <<output, loopVars>> /\ subs' = subs
    BY Same DEF PumpOutput
  <1>10. pc[v] = "live" => s = [screen[v] EXCEPT !.bytes = screen[v].bytes \o Head(sub[v].ch)]
    BY DEF more
  <1>11. t = [sub[v] EXCEPT !.ch = Tail(sub[v].ch)]
    BY DEF rest
  <1>12. pc[v] # "live" => s = screen[v]
    OBVIOUS
  <1> HIDE DEF t, s
  <1>13. QED
    BY <1>2, <1>5, <1>6, <1>8, <1>9, <1>10, <1>11, <1>12 DEF Moves

\* What the goroutine that ranges over Events does.
LEMMA PumpPromptsIs ==
  ASSUME Watched, NEW v \in Viewers, PumpPrompts(v)
  PROVE  \E t \in Subscriber, s \in Screen :
           /\ Moves(v, t, s, pc[v]) /\ subs' = subs
           /\ sub[v].events # <<>> /\ t = [sub[v] EXCEPT !.events = Tail(sub[v].events)]
           /\ pc[v] = "live" => s = [screen[v] EXCEPT !.prompts = Append(screen[v].prompts, Head(sub[v].events))]
           /\ pc[v] # "live" => s = screen[v]
  <1>1. /\ sub[v] \in Subscriber /\ screen \in [Viewers -> Screen] /\ sub \in [Viewers -> Subscriber]
        /\ screen[v] \in Screen
    BY DEF Watched
  <1> DEFINE rest  == Tail(sub[v].events)
             first == Head(sub[v].events)
             more  == Append(screen[v].prompts, first)
             t == [sub[v] EXCEPT !.events = rest]
             s == IF pc[v] = "live" THEN [screen[v] EXCEPT !.prompts = more] ELSE screen[v]
  <1>2. sub[v].events \in Seq(Nat) /\ sub[v].events # <<>>
    BY <1>1 DEF PumpPrompts, Subscriber
  <1>3. rest \in Seq(Nat) /\ first \in Nat
    BY <1>2
  <1>4. screen[v].prompts \in Seq(Nat)
    BY <1>1 DEF Screen
  <1>5. sub' = [sub EXCEPT ![v] = t]
    BY <1>1, Zenon DEF PumpPrompts
  <1>6. screen' = [screen EXCEPT ![v] = s]
    <2>1. CASE pc[v] = "live"
      <3>1. screen' = [screen EXCEPT ![v].prompts = Append(@, Head(sub[v].events))]
        BY <2>1 DEF PumpPrompts
      <3>2. screen' = [screen EXCEPT ![v] = [screen[v] EXCEPT !.prompts = more]]
        BY <3>1, <1>1, Zenon
      <3>3. QED
        BY <2>1, <3>2
    <2>2. CASE pc[v] # "live"
      <3>1. screen' = screen
        BY <2>2 DEF PumpPrompts
      <3>2. QED
        BY <2>2, <3>1, Same
    <2>3. QED
      BY <2>1, <2>2
  <1>7. more \in Seq(Nat)
    BY <1>3, <1>4
  <1> HIDE DEF rest, more
  <1>8. t \in Subscriber /\ s \in Screen
    BY <1>1, <1>3, <1>7 DEF Subscriber, Screen
  <1>9. pc' = [pc EXCEPT ![v] = pc[v]] /\ UNCHANGED <<output, loopVars>> /\ subs' = subs
    BY Same DEF PumpPrompts
  <1>10. pc[v] = "live" => s = [screen[v] EXCEPT !.prompts = Append(screen[v].prompts, Head(sub[v].events))]
    BY DEF more
  <1>11. t = [sub[v] EXCEPT !.events = Tail(sub[v].events)]
    BY DEF rest
  <1>12. pc[v] # "live" => s = screen[v]
    OBVIOUS
  <1> HIDE DEF t, s
  <1>13. QED
    BY <1>2, <1>5, <1>6, <1>8, <1>9, <1>10, <1>11, <1>12 DEF Moves

----------------------------------------------------------------------------
(* The viewers: what they are owed.                                        *)

\* What is shown, of the first n bytes of q, starts at f.
Starts(q, n, f, since, shown) ==
  /\ shown = SubSeq(q, f, n)
  /\ \/ f = since + 1
     \/ f <= since /\ "nl" \in {KindAt(q, f), KindAt(q, f - 1)}

\* Of n bytes of q and the prompts an, the screen s and the channels of the
\* subscriber t have all.
SeesAll(q, n, an, t, s) ==
  /\ \E f \in 1 .. n + 1 : Starts(q, n, f, s.since, s.bytes \o FlattenSeq(t.ch))
  /\ s.prompts \o t.events = SubSeq(an, s.heard0 + 1, Len(an))

\* What holds of a viewer v at l, with t and s, when the read loop is at r
\* and in is the set of subscribers: nothing was sent before it subscribed;
\* then it is registered until the loop has closed all subscribers, and has
\* everything unless a channel was full.
Served(q, n, an, r, in, v, t, s, l) ==
  /\ l \in {"idle", "upgrade", "subscribe"} => v \notin in /\ t = NoSub /\ s = NoScreen
  /\ l = "live" =>
       /\ r \in {"read", "deliver", "closelog", "closesubs"} => v \in in
       /\ s.since <= n /\ s.heard0 <= Len(an)
       /\ ~t.missed => SeesAll(q, n, an, t, s)

Viewing(v) == Served(output, seen, announced, rl, subs, v, sub[v], screen[v], pc[v])

AllViewing == Watched /\ \A v \in Viewers : Viewing(v)

----------------------------------------------------------------------------
(* A chunk.                                                                *)

\* The end of a sequence that grows.
LEMMA EndGrows ==
  ASSUME NEW B, NEW s \in Seq(B), NEW t \in Seq(B), NEW h \in 0 .. Len(s)
  PROVE  SubSeq(s \o t, h + 1, Len(s \o t)) = SubSeq(s, h + 1, Len(s)) \o t
  <1> DEFINE st == s \o t
             a == Len(s)
             b == Len(t)
             x == SubSeq(st, h + 1, a + b)
             u == SubSeq(s, h + 1, a)
             y == u \o t
  <1>1. a \in Nat /\ b \in Nat /\ h \in Nat /\ h <= a
    OBVIOUS
  <1>2. /\ st \in Seq(B) /\ Len(st) = a + b
        /\ \A k \in 1 .. a + b : st[k] = IF k <= a THEN s[k] ELSE t[k - a]
    BY ConcatProperties
  <1>3. h \in 0 .. Len(st)
    BY <1>1, <1>2
  <1> HIDE DEF st
  <1>4. /\ x \in Seq(B) /\ Len(x) = a + b - h
        /\ \A k \in 1 .. a + b - h : x[k] = st[h + k]
    <2>1. /\ SubSeq(st, h + 1, Len(st)) \in Seq(B)
          /\ Len(SubSeq(st, h + 1, Len(st))) = Len(st) - h
          /\ \A k \in 1 .. Len(st) - h : SubSeq(st, h + 1, Len(st))[k] = st[h + k]
      BY <1>2, <1>3, Rest, ZenonT(60)
    <2>2. Len(st) = a + b
      BY <1>2
    <2>3. QED
      BY <2>1, <2>2
  <1>5. /\ u \in Seq(B) /\ Len(u) = a - h /\ \A k \in 1 .. a - h : u[k] = s[h + k]
    BY Rest
  <1> HIDE DEF u
  <1>6. /\ y \in Seq(B) /\ Len(y) = a - h + b
        /\ \A k \in 1 .. a - h + b : y[k] = IF k <= a - h THEN u[k] ELSE t[k - (a - h)]
    <2>1. /\ u \o t \in Seq(B) /\ Len(u \o t) = Len(u) + Len(t)
          /\ \A k \in 1 .. Len(u) + Len(t) :
               (u \o t)[k] = IF k <= Len(u) THEN u[k] ELSE t[k - Len(u)]
      BY <1>5, ConcatProperties
    <2>2. Len(u) = a - h /\ Len(t) = b
      BY <1>5
    <2>3. QED
      BY <2>1, <2>2
  <1> HIDE DEF x, y
  <1>7. ASSUME NEW k \in 1 .. Len(x) PROVE x[k] = y[k]
    <2> DEFINE i == h + k
    <2>1. i \in 1 .. a + b /\ k \in 1 .. a + b - h /\ k \in 1 .. a - h + b
      BY <1>1, <1>4
    <2>2. x[k] = st[i] /\ st[i] = IF i <= a THEN s[i] ELSE t[i - a]
      BY <1>2, <1>4, <2>1
    <2>3. y[k] = IF k <= a - h THEN u[k] ELSE t[k - (a - h)]
      BY <1>6, <2>1
    <2>4. i <= a <=> k <= a - h
      BY <1>1, <2>1
    <2>5. i - a = k - (a - h)
      BY <1>1, <2>1
    <2>6. k <= a - h => u[k] = s[i]
      BY <1>1, <1>5, <2>1
    <2> HIDE DEF i
    <2>7. QED
      BY <2>2, <2>3, <2>4, <2>5, <2>6
  <1>8. Len(x) = Len(y)
    BY <1>1, <1>4, <1>6
  <1>9. x = y
    BY <1>4, <1>6, <1>7, <1>8, SeqEqual
  <1>10. QED
    BY <1>2, <1>9 DEF x, y, st, u

\* Two parts of a sequence that follow one another.
LEMMA PartsJoin ==
  ASSUME NEW B, NEW s \in Seq(B), NEW c \in 0 .. Len(s), NEW b \in 0 .. c, NEW f \in 1 .. b + 1
  PROVE  SubSeq(s, f, b) \o SubSeq(s, b + 1, c) = SubSeq(s, f, c)
  OBVIOUS

\* Concatenation is associative.
LEMMA Join3 ==
  /\ \A a, b, c \in Seq(Byte) : (a \o b) \o c = a \o (b \o c)
  /\ \A a, b, c \in Seq(Nat) : (a \o b) \o c = a \o (b \o c)
  <1>1. ASSUME NEW a \in Seq(Byte), NEW b \in Seq(Byte), NEW c \in Seq(Byte)
        PROVE  (a \o b) \o c = a \o (b \o c)
    OBVIOUS
  <1>2. ASSUME NEW a \in Seq(Nat), NEW b \in Seq(Nat), NEW c \in Seq(Nat)
        PROVE  (a \o b) \o c = a \o (b \o c)
    OBVIOUS
  <1>3. QED
    BY <1>1, <1>2, Zenon

\* A chunk is delivered to a viewer that is registered.
LEMMA ServedChunk ==
  ASSUME NEW q \in Seq(Byte), NEW m \in 0 .. Len(q), NEW n \in 0 .. m,
         NEW an \in Seq(Nat), NEW ps \in Seq(Nat), NEW v, NEW in,
         NEW t \in Subscriber, NEW s \in Screen, NEW r,
         v \in in, Served(q, n, an, "deliver", in, v, t, s, "live")
  PROVE  Served(q, m, an \o ps, r, in, v,
                OfferPrompts(Offer(t, SubSeq(q, n + 1, m)), ps), s, "live")
  <1> DEFINE chunk == SubSeq(q, n + 1, m)
             o == Offer(t, chunk)
             z == OfferPrompts(o, ps)
             bn == an \o ps
             full == t.ch
             more == Append(full, chunk)
             told == t.events
             tell == told \o ps
  <1>0. n \in Nat /\ m \in Nat /\ Len(an) \in Nat /\ Len(ps) \in Nat
    OBVIOUS
  <1>1. chunk \in Seq(Byte) /\ bn \in Seq(Nat) /\ Len(bn) = Len(an) + Len(ps)
    BY <1>0
  <1>2. /\ full \in Seq(Seq(Byte)) /\ told \in Seq(Nat) /\ t.missed \in BOOLEAN
        /\ s.bytes \in Seq(Byte) /\ s.prompts \in Seq(Nat) /\ s.since \in Nat /\ s.heard0 \in Nat
    BY DEF Subscriber, Screen
  <1>3. /\ s.since <= n /\ s.heard0 <= Len(an)
        /\ ~t.missed => SeesAll(q, n, an, t, s)
    BY DEF Served
  <1>4. s.since <= m /\ s.heard0 <= Len(bn)
    BY <1>0, <1>1, <1>2, <1>3
  <1>5. ASSUME ~z.missed
        PROVE  ~t.missed /\ z.ch = more /\ z.events = tell
    <2> HIDE DEF chunk, more, tell
    <2>1. ~o.missed /\ z.events = o.events \o ps /\ z.ch = o.ch
      <3>1. o = t \/ o = [t EXCEPT !.missed = TRUE] \/ o = [t EXCEPT !.ch = more]
        BY DEF Offer, more, full
      <3>2. o \in [chan : {"none", "open", "closed"}, ch : Seq(Seq(Byte)),
                   events : Seq(Nat), missed : BOOLEAN]
        <4>1. more \in Seq(Seq(Byte))
          BY <1>1, <1>2 DEF more
        <4> HIDE DEF o, full
        <4>2. QED
          BY <3>1, <4>1 DEF Subscriber
      <3> HIDE DEF o
      <3> DEFINE room == EventChanSize - Len(o.events)
      <3>3. CASE Len(ps) <= room
        <4>1. z = [o EXCEPT !.events = @ \o ps]
          BY <3>3 DEF OfferPrompts
        <4>2. z.events = o.events \o ps /\ z.ch = o.ch /\ z.missed = o.missed
          BY <3>2, <4>1
        <4>3. QED
          BY <1>5, <4>2
      <3>4. CASE ~(Len(ps) <= room)
        <4>1. z = [o EXCEPT !.events = @ \o SubSeq(ps, 1, room), !.missed = TRUE]
          BY <3>4 DEF OfferPrompts
        <4> HIDE DEF room
        <4>2. z.missed = TRUE
          BY <3>2, <4>1
        <4>3. QED
          BY <1>5, <4>2
      <3>5. QED
        BY <3>3, <3>4
    <2>2. CASE Len(t.ch) < ChanSize
      <3>1. o = [t EXCEPT !.ch = more]
        BY <2>2 DEF Offer, more, full
      <3>2. o.ch = more /\ o.events = told /\ o.missed = t.missed
        BY <3>1 DEF Subscriber
      <3>3. QED
        BY <2>1, <3>2 DEF tell
    <2>3. CASE ~(Len(t.ch) < ChanSize)
      <3>1. o = [t EXCEPT !.missed = TRUE]
        BY <2>3 DEF Offer
      <3>2. o.missed = TRUE
        BY <3>1 DEF Subscriber
      <3>3. QED
        BY <2>1, <3>2
    <2>4. QED
      BY <2>2, <2>3
  <1> HIDE DEF z, o
  <1>6. ASSUME ~z.missed
        PROVE  SeesAll(q, m, bn, z, s)
    <2>1. SeesAll(q, n, an, t, s) /\ z.ch = more /\ z.events = tell
      BY <1>3, <1>5, <1>6
    <2> DEFINE b == s.bytes
               flat == FlattenSeq(full)
    <2>2. PICK f \in 1 .. n + 1 : Starts(q, n, f, s.since, b \o flat)
      BY <2>1 DEF SeesAll
    <2>3. flat \in Seq(Byte) /\ FlattenSeq(more) = flat \o chunk
      BY <1>1, <1>2, FlattenType, FlattenAppend
    <2> HIDE DEF flat, chunk
    <2>4. b \o (flat \o chunk) = (b \o flat) \o chunk
      <3>1. b \in Seq(Byte) /\ flat \in Seq(Byte) /\ chunk \in Seq(Byte)
        BY <1>1, <1>2, <2>3
      <3> HIDE DEF b
      <3>2. QED
        BY <3>1, Join3, Zenon
    <2>5. b \o flat = SubSeq(q, f, n)
      BY <2>2 DEF Starts
    <2>6. SubSeq(q, f, n) \o chunk = SubSeq(q, f, m)
      BY PartsJoin DEF chunk
    <2>7. Starts(q, m, f, s.since, b \o FlattenSeq(z.ch))
      BY <2>1, <2>2, <2>3, <2>4, <2>5, <2>6 DEF Starts
    <2>8. f \in 1 .. m + 1
      BY <1>0
    <2>9. s.prompts \o z.events = SubSeq(bn, s.heard0 + 1, Len(bn))
      <3>1. s.prompts \o told = SubSeq(an, s.heard0 + 1, Len(an))
        BY <2>1 DEF SeesAll
      <3>2. s.heard0 \in 0 .. Len(an)
        BY <1>0, <1>2, <1>3
      <3>3. SubSeq(bn, s.heard0 + 1, Len(bn)) = SubSeq(an, s.heard0 + 1, Len(an)) \o ps
        BY <3>2, EndGrows
      <3> DEFINE pr == s.prompts
      <3>4. pr \in Seq(Nat) /\ told \in Seq(Nat)
        BY <1>2
      <3> HIDE DEF pr, told, bn
      <3>5. pr \o (told \o ps) = (pr \o told) \o ps
        BY <3>4, Join3, Zenon
      <3>6. QED
        BY <2>1, <3>1, <3>3, <3>5 DEF pr, tell
    <2>10. QED
      BY <2>7, <2>8, <2>9 DEF SeesAll
  <1>7. QED
    BY <1>4, <1>6 DEF Served, z, o, bn, chunk

----------------------------------------------------------------------------
(* The replay, and what goes from the channels to the screen.              *)

\* A viewer subscribes: what it is sent first is the replay.
LEMMA ServedFirst ==
  ASSUME StreamOK, Found, NEW v, NEW t, t = [NoSub EXCEPT !.chan = "open"]
  PROVE  Served(output, seen, announced, rl, subs \cup {v}, v, t, Replayed(v), "live")
  <1> DEFINE s == Replayed(v)
             w == Bytes(ring)
             r == AlignReplayToLineStart(w)
             m == Len(w)
             o == seen - m
             q == SubSeq(output, 1, seen)
  <1>0. /\ seen \in Nat /\ seen <= Len(output) /\ Len(output) \in Nat /\ Len(announced) \in Nat
        /\ Size \in Nat /\ output \in Seq(Byte)
    BY RingAssumption DEF StreamOK, Found
  <1>1. t.ch = <<>> /\ t.events = <<>>
    BY DEF NoSub
  <1>2. s.bytes = r /\ s.prompts = <<>> /\ s.since = seen /\ s.heard0 = Len(announced)
    BY DEF Replayed
  <1>3. q \in Seq(Byte) /\ Len(q) = seen /\ \A k \in 1 .. seen : q[k] = output[k]
    BY <1>0
  <1>4. w \in Seq(Byte) /\ m \in Nat /\ m <= seen /\ \A k \in 1 .. m : w[k] = q[seen - m + k]
    <2>1. w = LastOf(q, Size)
      BY DEF StreamOK, RingIsWindow
    <2> HIDE DEF w, q
    <2>2. /\ w \in Seq(Byte) /\ Len(w) = WindowLen(Len(q), Size)
          /\ \A k \in 1 .. WindowLen(Len(q), Size) :
               w[k] = q[Len(q) - WindowLen(Len(q), Size) + k]
      BY <1>0, <1>3, <2>1, LastOfFacts
    <2>3. QED
      BY <1>0, <1>3, <2>2 DEF WindowLen
  <1> HIDE DEF w
  <1>5. PICK k \in 0 .. m :
          /\ r = SubSeq(w, k + 1, m)
          /\ \/ k = m
             \/ w[k + 1].kind = "nl"
             \/ k > 0 /\ w[k].kind = "nl"
    BY <1>4, Replay
  <1> HIDE DEF r, m, q
  <1> DEFINE f == o + k + 1
  <1>6. seen \in Nat /\ m \in Nat /\ m <= seen /\ k \in Nat /\ k <= m
    BY <1>0, <1>4
  <1>7. o \in Nat /\ f \in 1 .. seen + 1 /\ k \in Nat /\ k <= m /\ m - k = seen - (o + k)
    BY ONLY <1>6
  <1>8. \A i \in 1 .. m : w[i] = output[o + i] /\ o + i \in 1 .. seen
    BY <1>0, <1>3, <1>4
  <1>9. r = SubSeq(output, f, seen)
    <2> DEFINE x == SubSeq(output, f, seen)
    <2>1. /\ r \in Seq(Byte) /\ Len(r) = m - k
          /\ \A i \in 1 .. m - k : r[i] = w[k + i]
      BY <1>4, <1>5, Rest DEF m
    <2>2. /\ x \in Seq(Byte) /\ Len(x) = m - k
          /\ \A i \in 1 .. m - k : x[i] = output[o + k + i]
      <3>1. \A i \in 1 .. m - k : f + i - 1 = o + k + i
        BY <1>7
      <3>2. /\ x \in Seq(Byte) /\ Len(x) = seen - f + 1
            /\ \A i \in 1 .. seen - f + 1 : x[i] = output[f + i - 1]
        <4>1. f \in 1 .. seen + 1 /\ f \in Nat
          BY <1>7
        <4> HIDE DEF f
        <4>2. QED
          BY <1>0, <4>1
      <3>3. seen - f + 1 = m - k
        BY ONLY <1>6
      <3> HIDE DEF x, f, o
      <3>4. QED
        BY <3>1, <3>2, <3>3
    <2> HIDE DEF x
    <2>3. \A i \in 1 .. m - k : r[i] = x[i]
      <3> SUFFICES ASSUME NEW i \in 1 .. m - k PROVE r[i] = x[i]
        OBVIOUS
      <3> DEFINE j == k + i
      <3>1. j \in 1 .. m /\ o + k + i = o + j
        BY <1>4, <1>7
      <3> HIDE DEF o
      <3>2. r[i] = w[j] /\ x[i] = output[o + j]
        BY <2>1, <2>2, <3>1
      <3> HIDE DEF j
      <3>3. QED
        BY <1>8, <3>1, <3>2
    <2>4. r = x
      BY <2>1, <2>2, <2>3, SeqEqual
    <2>5. QED
      BY <2>4 DEF x
  <1>10. f = seen + 1 \/ (f <= seen /\ "nl" \in {KindAt(output, f), KindAt(output, f - 1)})
    <2>1. CASE k = m
      BY <1>0, <1>4, <1>7, <2>1
    <2>2. CASE k # m /\ w[k + 1].kind = "nl"
      <3>1. k + 1 \in 1 .. m /\ f = o + (k + 1) /\ f <= seen /\ f \in Nat
        BY ONLY <1>6, <2>2
      <3> DEFINE j == k + 1
      <3>2. w[j] = output[o + j] /\ o + j \in 1 .. seen
        BY <1>8, <3>1
      <3>3. output[f].kind = "nl" /\ f \in DOMAIN output
        BY <1>0, <2>2, <3>1, <3>2
      <3>4. KindAt(output, f) = "nl"
        BY <3>3 DEF KindAt
      <3>5. QED
        BY <3>1, <3>4
    <2>3. CASE k # m /\ k > 0 /\ w[k].kind = "nl"
      <3>1. k \in 1 .. m /\ f - 1 = o + k /\ f <= seen
        BY ONLY <1>6, <2>3
      <3>2. w[k] = output[o + k] /\ o + k \in 1 .. seen
        BY <1>8, <3>1
      <3> HIDE DEF f, o
      <3>3. output[f - 1].kind = "nl" /\ f - 1 \in DOMAIN output
        BY <1>0, <2>3, <3>1, <3>2
      <3>4. KindAt(output, f - 1) = "nl"
        BY <3>3 DEF KindAt
      <3>5. QED
        BY <3>1, <3>4
    <2>4. QED
      BY <1>5, <2>1, <2>2, <2>3
  <1> HIDE DEF f, o
  <1>11. Starts(output, seen, f, s.since, s.bytes \o FlattenSeq(t.ch))
    <2>1. r \in Seq(Byte)
      BY <1>0, <1>7, <1>9
    <2>2. r \o <<>> = r
      BY <2>1
    <2>3. s.bytes \o FlattenSeq(t.ch) = r
      BY <1>1, <1>2, <2>2, FlattenEmpty
    <2>4. QED
      BY <1>2, <1>9, <1>10, <2>3 DEF Starts
  <1>12. s.prompts \o t.events = SubSeq(announced, s.heard0 + 1, Len(announced))
    <2>1. SubSeq(announced, Len(announced) + 1, Len(announced)) = <<>>
      BY <1>0 DEF Found
    <2>2. <<>> \o <<>> = <<>>
      OBVIOUS
    <2>3. QED
      BY <1>1, <1>2, <2>1, <2>2
  <1>13. SeesAll(output, seen, announced, t, s)
    BY <1>7, <1>11, <1>12 DEF SeesAll
  <1>14. s.since <= seen /\ s.heard0 <= Len(announced)
    BY <1>0, <1>2
  <1>15. QED
    BY <1>13, <1>14 DEF Served, s

\* A chunk goes from the channel to the screen.
LEMMA ServedOutput ==
  ASSUME NEW q, NEW n, NEW an, NEW r, NEW in, NEW v, NEW t \in Subscriber, NEW s \in Screen,
         Served(q, n, an, r, in, v, t, s, "live"), t.ch # <<>>,
         NEW u, u = [t EXCEPT !.ch = Tail(t.ch)],
         NEW z, z = [s EXCEPT !.bytes = s.bytes \o Head(t.ch)]
  PROVE  Served(q, n, an, r, in, v, u, z, "live")
  <1> DEFINE b == s.bytes
             c == t.ch
             x == Head(c)
             y == Tail(c)
             bx == b \o x
  <1>1. /\ c \in Seq(Seq(Byte)) /\ c # <<>> /\ b \in Seq(Byte)
    BY DEF Subscriber, Screen
  <1>2. x \in Seq(Byte) /\ y \in Seq(Seq(Byte))
    BY <1>1
  <1>3. FlattenSeq(y) \in Seq(Byte) /\ FlattenSeq(c) = x \o FlattenSeq(y)
    <2> HIDE DEF c
    <2>1. FlattenSeq(c) = Head(c) \o FlattenSeq(Tail(c))
      BY <1>1, FlattenHead
    <2>2. QED
      BY <1>2, <2>1, FlattenType
  <1>4. u.ch = y /\ u.events = t.events /\ u.missed = t.missed
    <2> HIDE DEF y
    <2>1. u = [t EXCEPT !.ch = y]
      BY DEF y
    <2>2. QED
      BY <2>1 DEF Subscriber
  <1>5. z.bytes = bx /\ z.prompts = s.prompts /\ z.since = s.since /\ z.heard0 = s.heard0
    <2> HIDE DEF bx
    <2>1. z = [s EXCEPT !.bytes = bx]
      BY DEF bx
    <2>2. QED
      BY <2>1 DEF Screen
  <1> DEFINE g == FlattenSeq(y)
  <1> HIDE DEF b, c, x, y
  <1>6. bx \o g = b \o FlattenSeq(c)
    <2> HIDE DEF g
    <2>1. (b \o x) \o g = b \o (x \o g)
      BY <1>1, <1>2, <1>3, Join3, Zenon DEF g
    <2>2. QED
      BY <1>3, <2>1, Zenon DEF g
  <1>7. z.bytes \o FlattenSeq(u.ch) = s.bytes \o FlattenSeq(t.ch)
    BY <1>4, <1>5, <1>6, Zenon DEF b, c
  <1>8. SeesAll(q, n, an, t, s) => SeesAll(q, n, an, u, z)
    BY <1>4, <1>5, <1>7 DEF SeesAll
  <1>9. QED
    BY <1>4, <1>5, <1>8 DEF Served

\* A prompt does.
LEMMA ServedPrompt ==
  ASSUME NEW q, NEW n, NEW an, NEW r, NEW in, NEW v, NEW t \in Subscriber, NEW s \in Screen,
         Served(q, n, an, r, in, v, t, s, "live"), t.events # <<>>,
         NEW u, u = [t EXCEPT !.events = Tail(t.events)],
         NEW z, z = [s EXCEPT !.prompts = Append(s.prompts, Head(t.events))]
  PROVE  Served(q, n, an, r, in, v, u, z, "live")
  <1> DEFINE b == s.prompts
             c == t.events
             x == Head(c)
             y == Tail(c)
             bx == Append(b, x)
  <1>1. /\ c \in Seq(Nat) /\ c # <<>> /\ b \in Seq(Nat)
    BY DEF Subscriber, Screen
  <1>2. x \in Nat /\ y \in Seq(Nat)
    BY <1>1
  <1>3. bx \o y = b \o c
    <2> HIDE DEF b, c
    <2>1. c = <<x>> \o y
      BY <1>1
    <2> HIDE DEF x, y
    <2>2. bx = b \o <<x>>
      BY <1>1, <1>2
    <2> DEFINE e == <<x>>
    <2>3. e \in Seq(Nat)
      BY <1>2
    <2> HIDE DEF e, bx
    <2>4. (b \o e) \o y = b \o (e \o y)
      BY <1>1, <1>2, <2>3, Join3, Zenon
    <2>5. QED
      BY <2>1, <2>2, <2>4, Zenon DEF e
  <1>4. u.events = y /\ u.ch = t.ch /\ u.missed = t.missed
    <2> HIDE DEF y
    <2>1. u = [t EXCEPT !.events = y]
      BY DEF y
    <2>2. QED
      BY <2>1 DEF Subscriber
  <1>5. z.prompts = bx /\ z.bytes = s.bytes /\ z.since = s.since /\ z.heard0 = s.heard0
    <2> HIDE DEF bx
    <2>1. z = [s EXCEPT !.prompts = bx]
      BY DEF bx
    <2>2. QED
      BY <2>1 DEF Screen
  <1>6. z.prompts \o u.events = s.prompts \o t.events
    BY <1>3, <1>4, <1>5, Zenon DEF b, c
  <1>7. SeesAll(q, n, an, t, s) => SeesAll(q, n, an, u, z)
    BY <1>4, <1>5, <1>6 DEF SeesAll
  <1>8. QED
    BY <1>4, <1>5, <1>7 DEF Served

----------------------------------------------------------------------------
(* The viewers' invariant is kept.                                         *)

\* Nobody watches yet.
LEMMA ViewingInit == Init => AllViewing
  <1> SUFFICES ASSUME Init PROVE AllViewing
    OBVIOUS
  <1>1. /\ subs = {} /\ sub = [v \in Viewers |-> NoSub]
        /\ pc = [v \in Viewers |-> "idle"] /\ screen = [v \in Viewers |-> NoScreen]
    BY DEF Init
  <1>2. Watched
    BY <1>1, NoneIsOne DEF Watched, Labels
  <1>3. \A v \in Viewers : Viewing(v)
    BY <1>1 DEF Viewing, Served
  <1>4. QED
    BY <1>2, <1>3 DEF AllViewing

\* A step of the viewer v leaves the others alone.
LEMMA ViewerMoves ==
  ASSUME AllViewing, NEW v \in Viewers, NEW t \in Subscriber, NEW s \in Screen, NEW l \in Labels,
         Moves(v, t, s, l), subs' \in {subs, subs \cup {v}, subs \ {v}},
         Served(output, seen, announced, rl, subs', v, t, s, l)
  PROVE  AllViewing'
  <1>1. Watched /\ output' = output /\ seen' = seen /\ announced' = announced /\ rl' = rl
    BY DEF AllViewing, Moves, loopVars
  <1>2. sub' = [sub EXCEPT ![v] = t] /\ screen' = [screen EXCEPT ![v] = s] /\ pc' = [pc EXCEPT ![v] = l]
    BY DEF Moves
  <1>3. Watched'
    BY <1>1, <1>2, WatchedOne
  <1>4. ASSUME NEW u \in Viewers
        PROVE  /\ sub'[u] = IF u = v THEN t ELSE sub[u]
               /\ screen'[u] = IF u = v THEN s ELSE screen[u]
               /\ pc'[u] = IF u = v THEN l ELSE pc[u]
    BY <1>1, <1>2 DEF Watched
  <1>5. ASSUME NEW u \in Viewers, u # v
        PROVE  Viewing(u)'
    <2>1. Served(output, seen, announced, rl, subs, u, sub[u], screen[u], pc[u])
      BY DEF AllViewing, Viewing
    <2>2. u \in subs' <=> u \in subs
      BY <1>5
    <2>3. sub'[u] = sub[u] /\ screen'[u] = screen[u] /\ pc'[u] = pc[u]
      BY <1>4, <1>5
    <2>4. Served(output, seen, announced, rl, subs', u, sub[u], screen[u], pc[u])
      BY <2>1, <2>2 DEF Served
    <2>5. QED
      BY <1>1, <2>3, <2>4 DEF Viewing
  <1>6. Viewing(v)'
    <2>1. sub'[v] = t /\ screen'[v] = s /\ pc'[v] = l
      BY <1>4
    <2>2. QED
      BY <1>1, <2>1 DEF Viewing
  <1>7. QED
    BY <1>3, <1>5, <1>6 DEF AllViewing

\* Nothing is owed to a viewer that is leaving or gone.
LEMMA ServedGone ==
  ASSUME NEW q, NEW n, NEW an, NEW r, NEW in, NEW v, NEW t, NEW s, NEW l \in {"leave", "gone"}
  PROVE  Served(q, n, an, r, in, v, t, s, l)
  BY DEF Served

\* The steps of a viewer's handler.
LEMMA ViewerStep ==
  ASSUME AllViewing, StreamOK, Found, NEW v \in Viewers,
         \/ Connect(v) \/ CheckSession(v) \/ Subscribe(v)
         \/ Serve(v) \/ Disconnect(v)
  PROVE  AllViewing'
  <1> DEFINE t == sub[v]
             s == screen[v]
  <1>1. /\ Watched /\ Served(output, seen, announced, rl, subs, v, t, s, pc[v])
        /\ t \in Subscriber /\ s \in Screen /\ pc[v] \in Labels
        /\ sub = [sub EXCEPT ![v] = t] /\ screen = [screen EXCEPT ![v] = s]
    BY Same DEF AllViewing, Viewing
  <1> HIDE DEF t, s
  <1>2. CASE Connect(v) \/ CheckSession(v)
    <2> DEFINE l == pc'[v]
    <2>1. /\ pc[v] \in {"idle", "upgrade"}
          /\ l \in {"upgrade", "subscribe", "gone"} /\ pc' = [pc EXCEPT ![v] = l]
          /\ UNCHANGED <<output, loopVars, subs, sub, screen>>
      BY <1>1, <1>2 DEF Connect, CheckSession, GotoV, Watched
    <2> HIDE DEF l
    <2>2. Moves(v, t, s, l) /\ l \in Labels
      BY <1>1, <2>1 DEF Moves, Labels
    <2>3. Served(output, seen, announced, rl, subs, v, t, s, l)
      BY <1>1, <2>1 DEF Served
    <2>4. QED
      BY <1>1, <2>1, <2>2, <2>3, ViewerMoves
  <1>3. CASE Subscribe(v)
    <2> DEFINE u == [sub[v] EXCEPT !.chan = "open"]
    <2>1. pc[v] = "subscribe" /\ sub[v] = NoSub /\ screen[v] = NoScreen
      BY <1>1, <1>3 DEF Subscribe, Served, t, s
    <2>2. /\ Moves(v, u, Replayed(v), "live") /\ subs' = subs \cup {v}
          /\ u \in Subscriber /\ Replayed(v) \in Screen
      BY <1>1, <1>3, <2>1, SubscribeIs
    <2>3. u = [NoSub EXCEPT !.chan = "open"]
      BY <2>1
    <2> HIDE DEF u
    <2>4. Served(output, seen, announced, rl, subs', v, u, Replayed(v), "live")
      BY <2>2, <2>3, ServedFirst
    <2>5. "live" \in Labels
      BY DEF Labels
    <2>6. QED
      BY <2>2, <2>4, <2>5, ViewerMoves
  <1>4. CASE PumpOutput(v)
    <2>1. PICK u \in Subscriber, z \in Screen :
            /\ Moves(v, u, z, pc[v]) /\ subs' = subs
            /\ t.ch # <<>> /\ u = [t EXCEPT !.ch = Tail(t.ch)]
            /\ pc[v] = "live" => z = [s EXCEPT !.bytes = s.bytes \o Head(t.ch)]
            /\ pc[v] # "live" => z = s
      BY <1>1, <1>4, PumpOutputIs DEF t, s
    <2>2. CASE pc[v] = "live"
      <3>1. Served(output, seen, announced, rl, subs, v, u, z, "live")
        BY <1>1, <2>1, <2>2, ServedOutput
      <3>2. QED
        BY <1>1, <2>1, <2>2, <3>1, ViewerMoves
    <2>3. CASE pc[v] \in {"idle", "upgrade", "subscribe"}
      BY <1>1, <2>1, <2>3 DEF Served, NoSub
    <2>4. CASE pc[v] \in {"leave", "gone"}
      <3>1. Served(output, seen, announced, rl, subs, v, u, z, pc[v])
        BY <2>4, ServedGone
      <3>2. QED
        BY <1>1, <2>1, <3>1, ViewerMoves
    <2>5. QED
      BY <1>1, <2>2, <2>3, <2>4 DEF Labels
  <1>5. CASE PumpPrompts(v)
    <2>1. PICK u \in Subscriber, z \in Screen :
            /\ Moves(v, u, z, pc[v]) /\ subs' = subs
            /\ t.events # <<>> /\ u = [t EXCEPT !.events = Tail(t.events)]
            /\ pc[v] = "live" => z = [s EXCEPT !.prompts = Append(s.prompts, Head(t.events))]
            /\ pc[v] # "live" => z = s
      BY <1>1, <1>5, PumpPromptsIs DEF t, s
    <2>2. CASE pc[v] = "live"
      <3>1. Served(output, seen, announced, rl, subs, v, u, z, "live")
        BY <1>1, <2>1, <2>2, ServedPrompt
      <3>2. QED
        BY <1>1, <2>1, <2>2, <3>1, ViewerMoves
    <2>3. CASE pc[v] \in {"idle", "upgrade", "subscribe"}
      BY <1>1, <2>1, <2>3 DEF Served, NoSub
    <2>4. CASE pc[v] \in {"leave", "gone"}
      <3>1. Served(output, seen, announced, rl, subs, v, u, z, pc[v])
        BY <2>4, ServedGone
      <3>2. QED
        BY <1>1, <2>1, <3>1, ViewerMoves
    <2>5. QED
      BY <1>1, <2>2, <2>3, <2>4 DEF Labels
  <1>6. CASE StreamEnded(v) \/ Disconnect(v)
    <2>1. Moves(v, t, s, "leave") /\ subs' = subs
      BY <1>1, <1>6 DEF StreamEnded, Disconnect, GotoV, Moves
    <2>2. Served(output, seen, announced, rl, subs, v, t, s, "leave") /\ "leave" \in Labels
      BY ServedGone DEF Labels
    <2>3. QED
      BY <1>1, <2>1, <2>2, ViewerMoves
  <1>7. CASE Leave(v)
    <2>1. \E u \in Subscriber : Moves(v, u, s, "gone") /\ subs' \in {subs, subs \ {v}}
      <3>1. CASE place = "mapped" /\ v \in subs
        <4> DEFINE u == Closed(sub[v])
        <4>1. sub' = [sub EXCEPT ![v] = u] /\ subs' = subs \ {v}
          BY <1>1, <1>7, <3>1 DEF Leave, Unsubscribed
        <4>2. u \in Subscriber
          BY <1>1 DEF Closed, Subscriber, t
        <4> HIDE DEF u
        <4>3. Moves(v, u, s, "gone")
          BY <1>1, <1>7, <4>1 DEF Leave, GotoV, Moves
        <4>4. QED
          BY <4>1, <4>2, <4>3
      <3>2. CASE ~(place = "mapped" /\ v \in subs)
        <4>1. Moves(v, t, s, "gone") /\ subs' = subs
          BY <1>1, <1>7, <3>2 DEF Leave, GotoV, Moves
        <4>2. QED
          BY <1>1, <4>1
      <3>3. QED
        BY <3>1, <3>2
    <2>2. PICK u \in Subscriber : Moves(v, u, s, "gone") /\ subs' \in {subs, subs \ {v}}
      BY <2>1
    <2>3. Served(output, seen, announced, rl, subs', v, u, s, "gone") /\ "gone" \in Labels
      BY ServedGone DEF Labels
    <2>4. QED
      BY <1>1, <2>2, <2>3, ViewerMoves
  <1>8. QED
    BY <1>2, <1>3, <1>4, <1>5, <1>6, <1>7 DEF Serve

\* A step that moves nothing but the read loop, and not back.
LEMMA ServedOn ==
  ASSUME AllViewing, UNCHANGED <<output, seen, announced, subs, sub, pc, screen>>,
         \/ rl' = rl
         \/ rl \in {"read", "deliver", "closelog", "closesubs"}
         \/ rl' = "done"
  PROVE  AllViewing'
  <1>1. Watched'
    BY DEF AllViewing, Watched
  <1>2. ASSUME NEW v \in Viewers PROVE Viewing(v)'
    <2>1. Served(output, seen, announced, rl, subs, v, sub[v], screen[v], pc[v])
      BY DEF AllViewing, Viewing
    <2>2. Served(output, seen, announced, rl', subs, v, sub[v], screen[v], pc[v])
      BY <2>1 DEF Served
    <2>3. QED
      BY <2>2 DEF Viewing
  <1>3. QED
    BY <1>1, <1>2 DEF AllViewing

\* A chunk is fanned out.
LEMMA ViewingDeliver ==
  ASSUME AllViewing, StreamOK, Found, Deliver
  PROVE  AllViewing'
  <1> DEFINE chunk == SubSeq(output, seen + 1, got)
             new(v) == OfferPrompts(Offer(sub[v], chunk), found)
  <1>1. /\ subs' = subs /\ pc' = pc /\ screen' = screen /\ output' = output
        /\ seen' = got /\ announced' = announced \o found /\ rl = "deliver"
        /\ sub' = [v \in Viewers |-> IF v \in subs THEN new(v) ELSE sub[v]]
    BY DEF Deliver, viewerVars
  <1>2. /\ Watched /\ output \in Seq(Byte) /\ got \in 0 .. Len(output) /\ seen \in 0 .. got
        /\ announced \in Seq(Nat) /\ found \in Seq(Nat)
    BY DEF AllViewing, StreamOK, Found
  <1>3. chunk \in Seq(Byte)
    BY <1>2
  <1>4. ASSUME NEW v \in Viewers
        PROVE  new(v) \in Subscriber /\ sub[v] \in Subscriber /\ screen[v] \in Screen
    <2> HIDE DEF chunk
    <2>1. sub[v] \in Subscriber /\ screen[v] \in Screen
      BY <1>2 DEF Watched
    <2>2. QED
      BY <1>2, <1>3, <2>1, OfferedIs
  <1>5. ASSUME NEW v \in Viewers, v \in subs, pc[v] = "live"
        PROVE  Served(output, got, announced \o found, rl', subs, v, new(v), screen[v], "live")
    <2>1. Served(output, seen, announced, "deliver", subs, v, sub[v], screen[v], "live")
      BY <1>1, <1>5 DEF AllViewing, Viewing
    <2>2. QED
      BY <1>2, <1>4, <1>5, <2>1, ServedChunk
  <1> HIDE DEF new
  <1>6. \A v \in Viewers : sub'[v] = IF v \in subs THEN new(v) ELSE sub[v]
    BY <1>1
  <1>7. Watched'
    <2>1. sub' \in [Viewers -> Subscriber]
      BY <1>1, <1>4
    <2>2. QED
      BY <1>1, <1>2, <2>1 DEF Watched
  <1>8. ASSUME NEW v \in Viewers PROVE Viewing(v)'
    <2>1. Served(output, seen, announced, "deliver", subs, v, sub[v], screen[v], pc[v])
      BY <1>1 DEF AllViewing, Viewing
    <2>2. CASE pc[v] = "live"
      <3>1. v \in subs
        BY <2>1, <2>2 DEF Served
      <3>2. sub'[v] = new(v)
        BY <1>6, <3>1
      <3>3. QED
        BY <1>1, <1>5, <2>2, <3>1, <3>2 DEF Viewing
    <2>3. CASE pc[v] \in {"idle", "upgrade", "subscribe"}
      <3>1. v \notin subs /\ sub[v] = NoSub /\ screen[v] = NoScreen
        BY <2>1, <2>3 DEF Served
      <3>2. sub'[v] = NoSub
        BY <1>6, <3>1
      <3>3. QED
        BY <1>1, <2>3, <3>1, <3>2 DEF Viewing, Served
    <2>4. CASE pc[v] \in {"leave", "gone"}
      BY <1>1, <2>4, ServedGone DEF Viewing
    <2>5. pc[v] \in Labels
      BY <1>2 DEF Watched
    <2>6. QED
      BY <2>2, <2>3, <2>4, <2>5 DEF Labels
  <1>9. QED
    BY <1>7, <1>8 DEF AllViewing

\* Every subscriber's channels are closed; nothing in them is lost.
LEMMA ViewingClose ==
  ASSUME AllViewing, CloseAllSubscribers
  PROVE  AllViewing'
  <1>1. /\ subs' = {} /\ pc' = pc /\ screen' = screen /\ output' = output
        /\ seen' = seen /\ announced' = announced /\ rl' = "signal"
        /\ sub' = [v \in Viewers |-> IF v \in subs THEN Closed(sub[v]) ELSE sub[v]]
    BY DEF CloseAllSubscribers, viewerVars, Deferred
  <1>2. Watched
    BY DEF AllViewing
  <1>3. ASSUME NEW v \in Viewers
        PROVE  /\ Closed(sub[v]) \in Subscriber /\ Closed(sub[v]).ch = sub[v].ch
               /\ Closed(sub[v]).events = sub[v].events
               /\ Closed(sub[v]).missed = sub[v].missed /\ sub[v] \in Subscriber
    BY <1>2 DEF Watched, Closed, Subscriber
  <1>4. \A v \in Viewers : sub'[v] = IF v \in subs THEN Closed(sub[v]) ELSE sub[v]
    BY <1>1
  <1>5. Watched'
    <2>1. sub' \in [Viewers -> Subscriber]
      BY <1>1, <1>3
    <2>2. QED
      BY <1>1, <1>2, <2>1 DEF Watched
  <1>6. ASSUME NEW v \in Viewers PROVE Viewing(v)'
    <2>1. Served(output, seen, announced, rl, subs, v, sub[v], screen[v], pc[v])
      BY DEF AllViewing, Viewing
    <2>2. /\ sub'[v].ch = sub[v].ch /\ sub'[v].events = sub[v].events
          /\ sub'[v].missed = sub[v].missed
          /\ v \notin subs => sub'[v] = sub[v]
      BY <1>3, <1>4
    <2>3. SeesAll(output, seen, announced, sub[v], screen[v])
            => SeesAll(output, seen, announced, sub'[v], screen[v])
      BY <2>2 DEF SeesAll
    <2>4. Served(output, seen, announced, "signal", {}, v, sub'[v], screen[v], pc[v])
      <3>1. CASE pc[v] \in {"idle", "upgrade", "subscribe"}
        BY <2>1, <2>2, <3>1 DEF Served
      <3>2. CASE pc[v] = "live"
        BY <2>1, <2>2, <2>3, <3>2 DEF Served
      <3>3. CASE pc[v] \in {"leave", "gone"}
        BY <3>3, ServedGone
      <3>4. pc[v] \in Labels
        BY <1>2 DEF Watched
      <3>5. QED
        BY <3>1, <3>2, <3>3, <3>4 DEF Labels
    <2>5. QED
      BY <1>1, <2>4 DEF Viewing
  <1>7. QED
    BY <1>5, <1>6 DEF AllViewing

\* Every step keeps what the viewers are owed.
LEMMA ViewingStep == AllViewing /\ StreamOK /\ Found /\ [Next]_vars => AllViewing'
  <1> SUFFICES ASSUME AllViewing, StreamOK, Found, [Next]_vars PROVE AllViewing'
    OBVIOUS
  <1>1. CASE ReadChunk
    BY <1>1, ServedOn DEF ReadChunk, viewerVars
  <1>2. CASE LoopStep
    BY <1>2, ViewingDeliver, ViewingClose, ServedOn
       DEF LoopStep, ReadError, CloseLog, Signal, Deferred, viewerVars
  <1>3. CASE AgentExit \/ Publish \/ StopSession \/ RemoveSession \/ Close
    BY <1>3, ServedOn DEF AgentExit, Publish, StopSession, RemoveSession, Close,
                          CloseConn, CloseReturn, loopVars, viewerVars
  <1>4. CASE Quiet \/ UNCHANGED vars
    BY <1>4, ServedOn DEF Quiet, vars, loopVars, viewerVars
  <1>5. QED
    BY <1>1, <1>2, <1>3, <1>4, ViewerStep DEF Next

\* All of the invariant.
BroadcastOK == StreamOK /\ LoopOK /\ Found /\ States /\ AllViewing

\* It holds at the start.
LEMMA BroadcastInit == Init => BroadcastOK
  <1> SUFFICES ASSUME Init PROVE BroadcastOK
    OBVIOUS
  <1>1. Found
    BY DEF Init, Found
  <1>2. States
    BY DEF Init, States
  <1>3. QED
    BY <1>1, <1>2, StreamInit, LoopInit, ViewingInit DEF BroadcastOK

\* Every step keeps it.
LEMMA BroadcastStep == BroadcastOK /\ [Next]_vars => BroadcastOK'
  BY StreamStep, LoopStepKept, FoundStep, StatesStep, ViewingStep DEF BroadcastOK

\* The invariant of the broadcaster: the stream and its ring, the read loop,
\* the types, and what every viewer has seen (broadcaster.go:70-198).
THEOREM BroadcastInvariance == Spec => []BroadcastOK
  BY BroadcastInit, BroadcastStep, PTL DEF Spec

\* The types of the read loop's data, of the session and of the viewers hold
\* for every output, chunk size, channel size and number of viewers.
THEOREM BroadcastTypes == Spec => []TypeOK
  <1>1. BroadcastOK => TypeOK
    BY TypesAre DEF BroadcastOK, AllViewing
  <1>2. QED
    BY BroadcastInvariance, <1>1, PTL

\* A viewer whose channels were never full has seen, or has queued, the output
\* from a line's start, or from where the live output starts, up to what was
\* read last, with no gap and no repetition where the replay ends and the live
\* output starts, and every prompt since it subscribed: whatever is printed,
\* however reads cut it, however large the ring and the channels are, and
\* whenever others come and go (ws.go:79-106, broadcaster.go:70-93, 153-167).
\* What makes it hold is that the replay is taken and the viewer registered in
\* one locked section, in which the ring has exactly what was fanned out.
THEOREM NoGap == Spec => []ViewersSeeAll
  <1>1. BroadcastOK => ViewersSeeAll
    <2> SUFFICES ASSUME BroadcastOK, NEW v \in Viewers, pc[v] = "live", ~sub[v].missed
                 PROVE  LET shown == screen[v].bytes \o FlattenSeq(sub[v].ch) IN
                        /\ IF shown = <<>> THEN screen[v].since = seen
                           ELSE LET first == shown[1].at IN
                                /\ shown = SubSeq(output, first, seen)
                                /\ \/ first = screen[v].since + 1
                                   \/ /\ first <= screen[v].since
                                      /\ "nl" \in {KindAt(output, first), KindAt(output, first - 1)}
                        /\ screen[v].prompts \o sub[v].events
                             = SubSeq(announced, screen[v].heard0 + 1, Len(announced))
      BY DEF ViewersSeeAll
    <2> DEFINE shown == screen[v].bytes \o FlattenSeq(sub[v].ch)
    <2>1. SeesAll(output, seen, announced, sub[v], screen[v]) /\ screen[v].since <= seen
      BY DEF BroadcastOK, AllViewing, Viewing, Served
    <2>2. /\ output \in Seq(Byte) /\ seen \in Nat /\ seen <= Len(output)
          /\ screen[v].since \in Nat
      BY DEF BroadcastOK, StreamOK, AllViewing, Watched, Screen
    <2>3. PICK f \in 1 .. seen + 1 : Starts(output, seen, f, screen[v].since, shown)
      BY <2>1 DEF SeesAll
    <2>4. screen[v].prompts \o sub[v].events
            = SubSeq(announced, screen[v].heard0 + 1, Len(announced))
      BY <2>1 DEF SeesAll
    <2> HIDE DEF shown
    <2>5. shown = SubSeq(output, f, seen)
      BY <2>3 DEF Starts
    <2>6. CASE f = seen + 1
      <3>1. shown = <<>>
        BY <2>2, <2>5, <2>6
      <3>2. screen[v].since = seen
        BY <2>1, <2>2, <2>3, <2>6 DEF Starts
      <3>3. QED
        BY <2>4, <3>1, <3>2 DEF shown
    <2>7. CASE f # seen + 1
      <3>1. f \in 1 .. seen /\ f \in 1 .. Len(output)
        BY <2>2, <2>7
      <3>2. shown # <<>> /\ shown[1] = output[f]
        <4> HIDE <2>7
        <4>1. Len(shown) = seen - f + 1 /\ Len(shown) # 0 /\ shown[1] = output[f + 1 - 1]
          BY <2>2, <2>5, <3>1
        <4>2. f + 1 - 1 = f
          BY <3>1
        <4>3. QED
          BY <4>1, <4>2
      <3>3. output[f].at = f
        BY <2>2, <3>1 DEF BroadcastOK, StreamOK, InPlace
      <3>4. QED
        BY <2>3, <2>4, <2>5, <3>2, <3>3 DEF shown, Starts
    <2>8. QED
      BY <2>6, <2>7
  <1>2. QED
    BY BroadcastInvariance, <1>1, PTL

=============================================================================
