---------------------------- MODULE StreamLemmas ----------------------------
(***************************************************************************)
(* What the proofs about the output of a container need of sequences and   *)
(* of the intercepter's operators: the end of a sequence, induction over   *)
(* the numbers, what a fold and FlattenSeq compute step by step, and which *)
(* prompt MatchLine finds.                                                 *)
(*                                                                         *)
(* The induction theorems of the library take an operator; the lemma       *)
(* Induct takes a set instead.  With it a function is shown to exist that  *)
(* satisfies the recursion by which the library defines a fold, so that    *)
(* the one the definition chooses does, too.                               *)
(***************************************************************************)
EXTENDS Intercepter, SequenceTheorems, WellFoundedInduction, TLAPS

----------------------------------------------------------------------------
(* Sequences.                                                              *)

\* The length of LastOf(s, n) for a sequence of length a.
WindowLen(a, n) == IF a <= n THEN a ELSE n

\* What LastOf returns.
LEMMA LastOfFacts ==
  ASSUME NEW S, NEW s \in Seq(S), NEW n \in Nat
  PROVE  /\ LastOf(s, n) \in Seq(S)
         /\ Len(LastOf(s, n)) = WindowLen(Len(s), n)
         /\ \A k \in 1 .. WindowLen(Len(s), n) :
              LastOf(s, n)[k] = s[Len(s) - WindowLen(Len(s), n) + k]
  <1> DEFINE a == Len(s)
             m == WindowLen(a, n)
  <1>0. a \in Nat /\ m \in Nat
    BY DEF WindowLen
  <1>1. \A k \in 1 .. a : s[k] \in S
    BY ElementOfSeq
  <1>2. CASE a <= n
    <2>1. LastOf(s, n) = s /\ m = a
      BY <1>2 DEF LastOf, WindowLen
    <2>2. \A k \in 1 .. m : a - m + k = k
      BY <2>1
    <2>3. QED
      BY <2>1, <2>2
  <1>3. CASE a > n
    <2>1. LastOf(s, n) = SubSeq(s, a - n + 1, a) /\ m = n
      BY <1>3 DEF LastOf, WindowLen
    <2>2. /\ \A k \in a - n + 1 .. a : s[k] \in S
          /\ a - n + 1 \in Int /\ a \in Int /\ a - (a - n + 1) + 1 = n
          /\ (IF a - n + 1 <= a THEN n ELSE 0) = n
      BY <1>1, <1>3
    <2>3. /\ SubSeq(s, a - n + 1, a) \in Seq(S)
          /\ Len(SubSeq(s, a - n + 1, a)) = n
          /\ \A k \in 1 .. n : SubSeq(s, a - n + 1, a)[k] = s[a - n + 1 + k - 1]
      BY <2>2, SubSeqProperties
    <2>4. \A k \in 1 .. n : a - n + 1 + k - 1 = a - n + k
      OBVIOUS
    <2>5. QED
      BY <2>1, <2>3, <2>4
  <1>4. QED
    BY <1>2, <1>3

\* What has slid out of the window does not matter for what stays in it.
LEMMA LastOfConcat ==
  ASSUME NEW S, NEW s \in Seq(S), NEW t \in Seq(S), NEW n \in Nat
  PROVE  LastOf(LastOf(s, n) \o t, n) = LastOf(s \o t, n)
  <1> DEFINE a == Len(s)
             b == Len(t)
             c == WindowLen(a, n)
             d == c + b
             e == a + b
             m == WindowLen(d, n)
             u == LastOf(s, n)
             ut == u \o t
             st == s \o t
             x == LastOf(ut, n)
             y == LastOf(st, n)
  <1>1. a \in Nat /\ b \in Nat
    OBVIOUS
  <1>2. c \in Nat /\ d \in Nat /\ e \in Nat /\ m \in Nat
    BY <1>1 DEF WindowLen
  <1>3. m = WindowLen(e, n)
    BY <1>1 DEF WindowLen
  <1>4. d = c + b /\ e = a + b /\ c = WindowLen(a, n) /\ m = WindowLen(d, n)
        /\ a = Len(s) /\ b = Len(t)
    OBVIOUS
  <1> HIDE DEF a, b, c, d, e, m
  <1>5. /\ u \in Seq(S) /\ Len(u) = c
        /\ \A k \in 1 .. c : u[k] = s[a - c + k]
    <2>1. /\ u \in Seq(S) /\ Len(u) = WindowLen(Len(s), n)
          /\ \A k \in 1 .. WindowLen(Len(s), n) :
               u[k] = s[Len(s) - WindowLen(Len(s), n) + k]
      BY LastOfFacts
    <2>2. QED
      BY <1>4, <2>1
  <1> HIDE DEF u
  <1>6. /\ ut \in Seq(S) /\ Len(ut) = d
        /\ \A k \in 1 .. d : ut[k] = IF k <= c THEN u[k] ELSE t[k - c]
    <2>1. /\ u \o t \in Seq(S)
          /\ Len(u \o t) = Len(u) + Len(t)
          /\ \A k \in 1 .. Len(u) + Len(t) :
               (u \o t)[k] = IF k <= Len(u) THEN u[k] ELSE t[k - Len(u)]
      BY <1>5, ConcatProperties
    <2>2. Len(u) = c /\ Len(t) = b /\ c + b = d
      BY <1>4, <1>5
    <2>3. QED
      BY <2>1, <2>2
  <1> HIDE DEF ut
  <1>7. /\ st \in Seq(S) /\ Len(st) = e
        /\ \A k \in 1 .. e : st[k] = IF k <= a THEN s[k] ELSE t[k - a]
    <2>1. /\ s \o t \in Seq(S)
          /\ Len(s \o t) = Len(s) + Len(t)
          /\ \A k \in 1 .. Len(s) + Len(t) :
               (s \o t)[k] = IF k <= Len(s) THEN s[k] ELSE t[k - Len(s)]
      BY ConcatProperties
    <2>2. Len(s) = a /\ Len(t) = b /\ a + b = e
      BY <1>4
    <2>3. QED
      BY <2>1, <2>2
  <1> HIDE DEF st
  <1>8. /\ x \in Seq(S) /\ Len(x) = m
        /\ \A k \in 1 .. m : x[k] = ut[d - m + k]
    <2>1. /\ x \in Seq(S) /\ Len(x) = WindowLen(Len(ut), n)
          /\ \A k \in 1 .. WindowLen(Len(ut), n) :
               x[k] = ut[Len(ut) - WindowLen(Len(ut), n) + k]
      BY <1>6, LastOfFacts
    <2>2. QED
      BY <1>4, <1>6, <2>1
  <1>9. /\ y \in Seq(S) /\ Len(y) = m
        /\ \A k \in 1 .. m : y[k] = st[e - m + k]
    <2>1. /\ y \in Seq(S) /\ Len(y) = WindowLen(Len(st), n)
          /\ \A k \in 1 .. WindowLen(Len(st), n) :
               y[k] = st[Len(st) - WindowLen(Len(st), n) + k]
      BY <1>7, LastOfFacts
    <2>2. QED
      BY <1>3, <1>7, <2>1
  <1> HIDE DEF x, y
  <1>10. \A k \in 1 .. m : x[k] = y[k]
    <2> SUFFICES ASSUME NEW k \in 1 .. m
                 PROVE  x[k] = y[k]
      OBVIOUS
    <2> DEFINE i == d - m + k
               j == e - m + k
    <2>1. /\ i \in 1 .. d /\ j \in 1 .. e /\ j = a - c + i
          /\ i <= c => i \in 1 .. c /\ j <= a
          /\ i > c  => j > a /\ j - a = i - c
      <3>1. d = c + b /\ e = a + b
        BY <1>4
      <3>2. c = IF a <= n THEN a ELSE n
        BY <1>4 DEF WindowLen
      <3>3. m = IF c + b <= n THEN c + b ELSE n
        BY <1>4, <3>1 DEF WindowLen
      <3>4. m <= d /\ m <= e /\ c <= a
        BY ONLY <1>1, <1>2, <3>1, <3>2, <3>3, n \in Nat
      <3>5. k \in Int /\ 1 <= k /\ k <= m
        BY <1>2
      <3>6. QED
        BY ONLY <1>1, <1>2, <3>1, <3>4, <3>5
    <2>2. x[k] = ut[i] /\ y[k] = st[j]
      BY <1>8, <1>9
    <2> HIDE DEF i, j
    <2>3. CASE i <= c
      <3>1. ut[i] = u[i] /\ st[j] = s[j] /\ u[i] = s[a - c + i]
        BY <1>5, <1>6, <1>7, <2>1, <2>3
      <3>2. QED
        BY <2>1, <2>2, <3>1
    <2>4. CASE i > c
      <3>1. ~(i <= c) /\ ~(j <= a)
        BY <1>1, <1>2, <2>1, <2>4
      <3>2. ut[i] = t[i - c] /\ st[j] = t[j - a]
        BY <1>6, <1>7, <2>1, <3>1
      <3>3. QED
        BY <2>1, <2>2, <2>4, <3>2
    <2>5. QED
      BY <1>2, <2>1, <2>3, <2>4
  <1>11. x = y
    BY <1>8, <1>9, <1>10, SeqEqual
  <1>12. QED
    BY <1>11 DEF u, ut, st, x, y

\* The end of a sequence after c.
LEMMA Rest ==
  ASSUME NEW S, NEW s \in Seq(S), NEW c \in 0 .. Len(s)
  PROVE  /\ SubSeq(s, c + 1, Len(s)) \in Seq(S)
         /\ Len(SubSeq(s, c + 1, Len(s))) = Len(s) - c
         /\ \A k \in 1 .. Len(s) - c : SubSeq(s, c + 1, Len(s))[k] = s[c + k]
  OBVIOUS

\* A sequence over a part of a set.
LEMMA SubsetSeq ==
  ASSUME NEW P, NEW B \in SUBSET P, NEW s \in Seq(B)
  PROVE  s \in Seq(P)
  <1>1. \A k \in 1 .. Len(s) : s[k] \in P
    BY ElementOfSeq
  <1>2. QED
    BY <1>1

----------------------------------------------------------------------------
(* Numbers.                                                                *)

\* Every set of numbers has a least element.
LEMMA Least ==
  ASSUME NEW T, T \subseteq Nat, T # {}
  PROVE  \E x \in T : \A y \in T : x <= y
  <1>1. \E x \in T : \A y \in T : ~(<<y, x>> \in OpToRel(<, Nat))
    BY NatLessThanWellFounded, WFMin
  <1>2. \A x \in T, y \in T : <<y, x>> \in OpToRel(<, Nat) <=> y < x
    BY DEF OpToRel
  <1>3. \E x \in T : \A y \in T : ~(y < x)
    BY <1>1, <1>2, Zenon
  <1>4. QED
    BY <1>3

\* Induction, for a set of numbers.
LEMMA Induct ==
  ASSUME NEW S, 0 \in S, \A n \in Nat : n \in S => n + 1 \in S
  PROVE  Nat \subseteq S
  <1> SUFFICES ASSUME Nat \ S # {} PROVE FALSE
    OBVIOUS
  <1>1. PICK m \in Nat \ S : \A y \in Nat \ S : m <= y
    BY Least
  <1>2. m # 0 /\ m - 1 \in Nat
    BY <1>1
  <1>3. m - 1 \in S
    BY <1>1, <1>2
  <1>4. QED
    BY <1>1, <1>2, <1>3

\* A set of numbers below a bound has a greatest element.
LEMMA Greatest ==
  ASSUME NEW n \in Nat, NEW T, T \subseteq 1 .. n, T # {}
  PROVE  Max(T) \in T /\ \A y \in T : y <= Max(T)
  <1> DEFINE D == {n - x : x \in T}
  <1>1. D \subseteq Nat /\ D # {}
    <2>1. PICK x \in T : TRUE
      OBVIOUS
    <2>2. n - x \in D
      OBVIOUS
    <2>3. \A y \in T : n - y \in Nat
      OBVIOUS
    <2>4. QED
      BY <2>2, <2>3
  <1>2. PICK d \in D : \A e \in D : d <= e
    <2> HIDE DEF D
    <2> QED
      BY <1>1, Least
  <1>3. PICK x \in T : d = n - x
    BY <1>2
  <1>4. \A y \in T : x >= y
    <2> SUFFICES ASSUME NEW y \in T PROVE x >= y
      OBVIOUS
    <2>1. n - y \in D
      OBVIOUS
    <2>2. d <= n - y
      BY <1>2, <2>1
    <2>3. QED
      BY <1>3, <2>2
  <1>5. QED
    BY <1>4 DEF Max

\* What a fold takes off 1 .. k first.
LEMMA MaxPrefix ==
  ASSUME NEW n \in Nat, NEW k \in 1 .. n
  PROVE  Max(1 .. k) = k /\ (1 .. k) \ {k} = 1 .. k - 1 /\ 1 .. k # {}
  <1>1. k \in Nat /\ 1 .. k \subseteq 1 .. k /\ k \in 1 .. k
    OBVIOUS
  <1>2. Max(1 .. k) \in 1 .. k /\ \A y \in 1 .. k : y <= Max(1 .. k)
    BY <1>1, Greatest
  <1> DEFINE m == Max(1 .. k)
  <1> HIDE DEF m
  <1>3. m \in 1 .. k /\ k <= m
    BY <1>1, <1>2 DEF m
  <1>4. m = k
    BY <1>3
  <1>5. QED
    BY <1>4 DEF m

----------------------------------------------------------------------------
(* Folds.                                                                  *)

\* A fold over subsets of 1 .. n, greatest element first, exists.
Iterates(f, n, base, G) ==
  f = [s \in SUBSET (1 .. n) |->
         IF s = {} THEN base ELSE G[<<Max(s), f[s \ {Max(s)}]>>]]

\* A fold over the subsets of 1 .. N exists, whatever it folds with.
LEMMA IteratesExist ==
  ASSUME NEW R, NEW base \in R, NEW N \in Nat, NEW G \in [(1 .. N) \X R -> R]
  PROVE  \E f \in [SUBSET (1 .. N) -> R] : Iterates(f, N, base, G)
  <1> DEFINE Ok(n) == \E f \in [SUBSET (1 .. n) -> R] : Iterates(f, n, base, G)
             S     == {n \in Nat : n <= N => Ok(n)}
  <1>1. 0 \in S
    <2> DEFINE f == [s \in SUBSET (1 .. 0) |-> base]
    <2>1. SUBSET (1 .. 0) = {{}}
      OBVIOUS
    <2>2. f \in [SUBSET (1 .. 0) -> R]
      OBVIOUS
    <2>3. f = [s \in SUBSET (1 .. 0) |->
                 IF s = {} THEN base ELSE G[<<Max(s), f[s \ {Max(s)}]>>]]
      BY <2>1
    <2> HIDE DEF f
    <2>4. Iterates(f, 0, base, G)
      BY <2>3, Zenon DEF Iterates
    <2>5. Ok(0)
      BY <2>2, <2>4, Zenon
    <2> HIDE DEF Ok
    <2>6. QED
      BY <2>5
  <1>2. ASSUME NEW n \in Nat, n \in S PROVE n + 1 \in S
    <2>a. SUFFICES ASSUME n + 1 <= N PROVE Ok(n + 1)
      <3> HIDE DEF Ok
      <3> QED
        OBVIOUS
    <2>b. Ok(n)
      <3> HIDE DEF Ok
      <3> QED
        BY <1>2, <2>a
    <2>1. PICK f \in [SUBSET (1 .. n) -> R] : Iterates(f, n, base, G)
      BY <2>b, Zenon
    <2> DEFINE g == [s \in SUBSET (1 .. n + 1) |->
                       IF n + 1 \in s THEN G[<<n + 1, f[s \ {n + 1}]>>] ELSE f[s]]
    <2>2. \A s \in SUBSET (1 .. n + 1) : s \ {n + 1} \in SUBSET (1 .. n)
      OBVIOUS
    <2>3. \A s \in SUBSET (1 .. n + 1) : n + 1 \notin s => s \in SUBSET (1 .. n)
      OBVIOUS
    <2>4. g \in [SUBSET (1 .. n + 1) -> R]
      <3> SUFFICES ASSUME NEW s \in SUBSET (1 .. n + 1)
                   PROVE  (IF n + 1 \in s THEN G[<<n + 1, f[s \ {n + 1}]>>] ELSE f[s]) \in R
        OBVIOUS
      <3>1. f[s \ {n + 1}] \in R
        BY <2>1, <2>2
      <3>1a. n + 1 \in 1 .. N
        BY <2>a
      <3>2. <<n + 1, f[s \ {n + 1}]>> \in (1 .. N) \X R
        BY <3>1, <3>1a
      <3>3. n + 1 \notin s => f[s] \in R
        BY <2>3
      <3>4. QED
        BY <3>2, <3>3
    <2>5. \A s \in SUBSET (1 .. n) : s # {} =>
            f[s] = G[<<Max(s), f[s \ {Max(s)}]>>]
      BY <2>1, Zenon DEF Iterates
    <2>5a. f[{}] = base
      BY <2>1, Zenon DEF Iterates
    <2>6. \A s \in SUBSET (1 .. n) : g[s] = f[s]
      <3> SUFFICES ASSUME NEW s \in SUBSET (1 .. n) PROVE g[s] = f[s]
        OBVIOUS
      <3>1. s \in SUBSET (1 .. n + 1) /\ n + 1 \notin s
        OBVIOUS
      <3>2. QED
        BY <3>1
    <2>7. ASSUME NEW s \in SUBSET (1 .. n + 1), s # {}
          PROVE  g[s] = G[<<Max(s), g[s \ {Max(s)}]>>]
      <3>0. s \subseteq 1 .. n + 1 /\ n + 1 \in Nat
        OBVIOUS
      <3>1. Max(s) \in s /\ \A y \in s : y <= Max(s)
        BY <2>7, <3>0, Greatest
      <3>2. CASE n + 1 \in s
        <4> DEFINE m == Max(s)
        <4>1. m = n + 1
          <5> HIDE DEF m
          <5>1. m \in s /\ \A y \in s : y <= m
            BY <3>1 DEF m
          <5>2. QED
            BY <3>2, <5>1
        <4>2. g[s] = G[<<n + 1, f[s \ {n + 1}]>>]
          BY <3>2
        <4>3. g[s \ {n + 1}] = f[s \ {n + 1}]
          BY <2>2, <2>6
        <4>4. QED
          BY <4>1, <4>2, <4>3
      <3>3. CASE n + 1 \notin s
        <4>1. s \in SUBSET (1 .. n)
          BY <2>3, <3>3
        <4>2. s \ {Max(s)} \in SUBSET (1 .. n)
          BY <4>1
        <4>3. g[s] = f[s] /\ g[s \ {Max(s)}] = f[s \ {Max(s)}]
          BY <2>6, <4>1, <4>2
        <4>4. QED
          BY <2>5, <2>7, <4>1, <4>3
      <3>4. QED
        BY <3>2, <3>3
    <2>8. g[{}] = base
      <3>1. {} \in SUBSET (1 .. n)
        OBVIOUS
      <3>2. QED
        BY <2>5a, <2>6, <3>1
    <2>9. g = [s \in SUBSET (1 .. n + 1) |-> g[s]]
      OBVIOUS
    <2> HIDE DEF g
    <2>10. g = [s \in SUBSET (1 .. n + 1) |->
                  IF s = {} THEN base ELSE G[<<Max(s), g[s \ {Max(s)}]>>]]
      BY <2>7, <2>8, <2>9
    <2>11. Iterates(g, n + 1, base, G)
      BY <2>10, Zenon DEF Iterates
    <2>12. QED
      BY <2>4, <2>11, Zenon
  <1>3. Nat \subseteq S
    <2> HIDE DEF S
    <2> QED
      BY <1>1, <1>2, Induct
  <1>4. N \in S
    <2> HIDE DEF S
    <2> QED
      BY <1>3
  <1>5. Ok(N)
    <2> HIDE DEF Ok
    <2> QED
      BY <1>4
  <1>6. QED
    BY <1>5, Zenon

----------------------------------------------------------------------------
(* FlattenSeq.                                                             *)

\* h has the concatenations of the first elements of ss.
Joins(h, ss, n, B) ==
  /\ h \in [0 .. n -> Seq(B)] /\ h[0] = <<>>
  /\ \A k \in 1 .. n : h[k] = h[k - 1] \o ss[k]

\* Every sequence of sequences can be joined step by step.
LEMMA JoinsExist ==
  ASSUME NEW B, NEW N \in Nat, NEW ss, \A k \in 1 .. N : ss[k] \in Seq(B)
  PROVE  \E h : Joins(h, ss, N, B)
  <1> DEFINE Ok(n) == \E h : Joins(h, ss, n, B)
             T     == {n \in Nat : n <= N => Ok(n)}
  <1>1. Ok(0)
    <2> DEFINE h == [k \in 0 .. 0 |-> <<>>]
    <2>1. h \in [0 .. 0 -> Seq(B)] /\ h[0] = <<>> /\ 1 .. 0 = {}
      OBVIOUS
    <2> HIDE DEF h
    <2>2. Joins(h, ss, 0, B)
      BY <2>1 DEF Joins
    <2>3. QED
      BY <2>2
  <1>2. ASSUME NEW n \in Nat, n + 1 <= N, Ok(n) PROVE Ok(n + 1)
    <2>1. PICK g : Joins(g, ss, n, B)
      BY <1>2, Zenon
    <2> DEFINE h == [k \in 0 .. n + 1 |-> IF k = n + 1 THEN g[n] \o ss[n + 1] ELSE g[k]]
    <2>2. g \in [0 .. n -> Seq(B)] /\ g[0] = <<>> /\ \A k \in 1 .. n : g[k] = g[k - 1] \o ss[k]
      BY <2>1 DEF Joins
    <2>3. g[n] \in Seq(B) /\ ss[n + 1] \in Seq(B)
      BY <1>2, <2>2
    <2>4. g[n] \o ss[n + 1] \in Seq(B)
      BY <2>3
    <2>5. \A k \in 0 .. n + 1 : k \in 0 .. n \/ k = n + 1
      OBVIOUS
    <2>6. h \in [0 .. n + 1 -> Seq(B)]
      BY <2>2, <2>4, <2>5
    <2>7. h[n + 1] = g[n] \o ss[n + 1] /\ \A k \in 0 .. n : h[k] = g[k]
      OBVIOUS
    <2> HIDE DEF h
    <2>8. ASSUME NEW k \in 1 .. n + 1 PROVE h[k] = h[k - 1] \o ss[k]
      <3>1. CASE k = n + 1
        <4>1. k - 1 = n /\ n \in 0 .. n
          BY <3>1
        <4>2. QED
          BY <2>7, <3>1, <4>1
      <3>2. CASE k # n + 1
        <4>1. k \in 1 .. n /\ k \in 0 .. n /\ k - 1 \in 0 .. n
          BY <3>2
        <4>2. QED
          BY <2>2, <2>7, <4>1
      <3>3. QED
        BY <3>1, <3>2
    <2>9. h[0] = <<>>
      BY <2>2, <2>7
    <2>10. Joins(h, ss, n + 1, B)
      BY <2>6, <2>8, <2>9 DEF Joins
    <2>11. QED
      BY <2>10, Zenon
  <1> HIDE DEF Ok
  <1>3. 0 \in T
    BY <1>1
  <1>4. ASSUME NEW n \in Nat, n \in T PROVE n + 1 \in T
    BY <1>2, <1>4
  <1>5. Nat \subseteq T
    <2> HIDE DEF T
    <2> QED
      BY <1>3, <1>4, Induct
  <1>6. Ok(N)
    BY <1>5
  <1>7. QED
    BY <1>6, Zenon DEF Ok

\* Joining depends only on what is joined, and two sequences that begin alike
\* are joined alike so far.
LEMMA JoinsUnique ==
  ASSUME NEW B, NEW n \in Nat, NEW m \in Nat, n <= m, NEW ss, NEW tt,
         \A k \in 1 .. n : ss[k] = tt[k],
         NEW g, NEW h, Joins(g, ss, n, B), Joins(h, tt, m, B)
  PROVE  g[n] = h[n]
  <1> DEFINE T == {k \in Nat : k <= n => g[k] = h[k]}
  <1>0. /\ g[0] = <<>> /\ \A k \in 1 .. n : g[k] = g[k - 1] \o ss[k]
        /\ h[0] = <<>> /\ \A k \in 1 .. m : h[k] = h[k - 1] \o tt[k]
    BY DEF Joins
  <1>1. 0 \in T
    BY <1>0
  <1>2. ASSUME NEW k \in Nat, k \in T PROVE k + 1 \in T
    <2> SUFFICES ASSUME k + 1 <= n PROVE g[k + 1] = h[k + 1]
      OBVIOUS
    <2> DEFINE x == k + 1
    <2>1. x \in 1 .. n /\ x \in 1 .. m /\ x - 1 = k /\ g[k] = h[k]
      BY <1>2
    <2> HIDE DEF x
    <2>2. g[x] = g[k] \o ss[x] /\ h[x] = h[k] \o tt[x] /\ ss[x] = tt[x]
      BY <1>0, <2>1
    <2>3. g[x] = h[x]
      BY <2>1, <2>2
    <2>4. QED
      BY <2>3 DEF x
  <1>3. Nat \subseteq T
    <2> HIDE DEF T
    <2> QED
      BY <1>1, <1>2, Induct
  <1>4. QED
    BY <1>3

\* FlattenSeq joins its argument from left to right.
LEMMA FlattenJoins ==
  ASSUME NEW B, NEW ss \in Seq(Seq(B))
  PROVE  \E h : Joins(h, ss, Len(ss), B) /\ FlattenSeq(ss) = h[Len(ss)]
  <1> DEFINE n == Len(ss)
             Rec(f) == f = [i \in 1 .. n |-> IF i = 1 THEN ss[i] ELSE f[i - 1] \o ss[i]]
             flat == CHOOSE f : Rec(f)
  <1>0. n \in Nat /\ \A k \in 1 .. n : ss[k] \in Seq(B)
    BY ElementOfSeq
  <1>1. PICK h : Joins(h, ss, n, B)
    <2> HIDE DEF n
    <2> QED
      BY <1>0, JoinsExist
  <1>2. /\ h \in [0 .. n -> Seq(B)] /\ h[0] = <<>>
        /\ \A k \in 1 .. n : h[k] = h[k - 1] \o ss[k]
    BY <1>1 DEF Joins
  <1>3. CASE n = 0
    <2>1. ss = <<>>
      BY <1>3
    <2>2. FlattenSeq(ss) = ss
      BY <1>3 DEF FlattenSeq
    <2>3. FlattenSeq(ss) = h[n]
      BY <1>2, <1>3, <2>1, <2>2
    <2>4. QED
      BY <1>1, <2>3
  <1>4. CASE n # 0
    <2>1. FlattenSeq(ss) = flat[n]
      <3>1. ~(Len(ss) = 0)
        BY <1>4
      <3>2. QED
        BY <3>1, Zenon DEF FlattenSeq
    <2> DEFINE f == [i \in 1 .. n |-> h[i]]
    <2>2. Rec(f)
      <3>1. ASSUME NEW i \in 1 .. n
            PROVE  h[i] = IF i = 1 THEN ss[i] ELSE f[i - 1] \o ss[i]
        <4>1. CASE i = 1
          <5>1. h[1] = h[0] \o ss[1] /\ ss[1] \in Seq(B)
            <6>1. 1 \in 1 .. n /\ 1 - 1 = 0
              BY <1>0, <1>4
            <6>2. QED
              BY <1>0, <1>2, <6>1
          <5>2. h[1] = ss[1]
            BY <1>2, <5>1
          <5>3. QED
            BY <4>1, <5>2
        <4>2. CASE i # 1
          <5>1. i - 1 \in 1 .. n
            BY <1>0, <4>2
          <5>2. QED
            BY <1>2, <4>2, <5>1
        <4>3. QED
          BY <4>1, <4>2
      <3>2. QED
        BY <3>1
    <2>3. Rec(flat)
      <3> HIDE DEF Rec, f
      <3> QED
        BY <2>2
    <2> HIDE DEF flat, f
    <2> DEFINE T == {k \in Nat : k \in 1 .. n => flat[k] = h[k]}
    <2>4. 0 \in T
      OBVIOUS
    <2>5. ASSUME NEW k \in Nat, k \in T PROVE k + 1 \in T
      <3> SUFFICES ASSUME k + 1 \in 1 .. n PROVE flat[k + 1] = h[k + 1]
        OBVIOUS
      <3> DEFINE x == k + 1
      <3>1. x \in 1 .. n /\ x - 1 = k /\ k \in Nat
        OBVIOUS
      <3> HIDE DEF x
      <3>2. flat[x] = IF x = 1 THEN ss[x] ELSE flat[x - 1] \o ss[x]
        BY <2>3, <3>1
      <3>3. h[x] = h[k] \o ss[x] /\ ss[x] \in Seq(B)
        BY <1>0, <1>2, <3>1
      <3>4. CASE k = 0
        <4>1. <<>> \o ss[x] = ss[x] /\ x = 1
          BY <3>1, <3>3, <3>4
        <4>2. flat[x] = ss[x] /\ h[k] = <<>>
          BY <1>2, <3>2, <3>4, <4>1
        <4>3. flat[x] = h[x]
          BY <3>3, <4>1, <4>2
        <4>4. QED
          BY <4>3 DEF x
      <3>5. CASE k # 0
        <4>1. k \in 1 .. n /\ x # 1
          BY <1>0, <3>1, <3>5
        <4>2. flat[k] = h[k]
          BY <2>5, <4>1
        <4>3. flat[x] = h[x]
          BY <3>1, <3>2, <3>3, <4>1, <4>2
        <4>4. QED
          BY <4>3 DEF x
      <3>6. QED
        BY <3>4, <3>5
    <2>6. Nat \subseteq T
      <3> HIDE DEF T
      <3> QED
        BY <2>4, <2>5, Induct
    <2>7. flat[n] = h[n]
      <3>1. n \in Nat /\ n \in 1 .. n
        BY <1>0, <1>4
      <3>2. QED
        BY <2>6, <3>1
    <2>8. QED
      BY <1>1, <2>1, <2>7
  <1>5. QED
    BY <1>3, <1>4

\* FlattenSeq of chunks is one sequence over the same set.
LEMMA FlattenType ==
  ASSUME NEW B, NEW ss \in Seq(Seq(B))
  PROVE  FlattenSeq(ss) \in Seq(B)
  <1>1. PICK h : Joins(h, ss, Len(ss), B) /\ FlattenSeq(ss) = h[Len(ss)]
    BY FlattenJoins
  <1>2. h \in [0 .. Len(ss) -> Seq(B)] /\ Len(ss) \in 0 .. Len(ss)
    BY <1>1 DEF Joins
  <1>3. QED
    BY <1>1, <1>2

\* FlattenSeq of no chunk.
LEMMA FlattenEmpty == FlattenSeq(<<>>) = <<>>
  BY DEF FlattenSeq

\* A chunk that is queued last comes last.
LEMMA FlattenAppend ==
  ASSUME NEW B, NEW ss \in Seq(Seq(B)), NEW c \in Seq(B)
  PROVE  FlattenSeq(Append(ss, c)) = FlattenSeq(ss) \o c
  <1> DEFINE n  == Len(ss)
             tt == Append(ss, c)
  <1>1. n \in Nat /\ tt \in Seq(Seq(B)) /\ Len(tt) = n + 1 /\ tt[n + 1] = c
        /\ \A k \in 1 .. n : ss[k] = tt[k]
    OBVIOUS
  <1>2. PICK g : Joins(g, ss, n, B) /\ FlattenSeq(ss) = g[n]
    BY FlattenJoins
  <1> HIDE DEF tt, n
  <1>3. PICK h : Joins(h, tt, Len(tt), B) /\ FlattenSeq(tt) = h[Len(tt)]
    BY <1>1, FlattenJoins
  <1>4. Joins(h, tt, n + 1, B) /\ FlattenSeq(tt) = h[n + 1]
    BY <1>1, <1>3
  <1>5. g[n] = h[n]
    BY <1>1, <1>2, <1>4, JoinsUnique
  <1>6. h[n + 1] = h[n] \o c
    <2> DEFINE x == n + 1
    <2>1. x \in 1 .. x /\ x - 1 = n /\ tt[x] = c /\ Joins(h, tt, x, B)
      BY <1>1, <1>4
    <2> HIDE DEF x
    <2>2. h[x] = h[x - 1] \o tt[x]
      BY <2>1 DEF Joins
    <2>3. QED
      BY <2>1, <2>2 DEF x
  <1>7. QED
    BY <1>2, <1>4, <1>5, <1>6 DEF tt

\* Concatenation is associative.
LEMMA JoinAssociates ==
  ASSUME NEW B, NEW u \in Seq(B), NEW v \in Seq(B), NEW w \in Seq(B)
  PROVE  (u \o v) \o w = u \o (v \o w)
  OBVIOUS

\* The chunk that is taken first comes first.
LEMMA FlattenHead ==
  ASSUME NEW B, NEW ss \in Seq(Seq(B)), ss # <<>>
  PROVE  FlattenSeq(ss) = Head(ss) \o FlattenSeq(Tail(ss))
  <1>0. ASSUME NEW u \in Seq(B), NEW v \in Seq(B), NEW w \in Seq(B)
        PROVE  (u \o v) \o w = u \o (v \o w)
    BY ONLY JoinAssociates, u \in Seq(B), v \in Seq(B), w \in Seq(B)
  <1> DEFINE n  == Len(Tail(ss))
             tt == Tail(ss)
             c  == Head(ss)
  <1>1. /\ n \in Nat /\ tt \in Seq(Seq(B)) /\ Len(ss) = n + 1 /\ ss[1] = c /\ c \in Seq(B)
        /\ \A k \in 1 .. n : tt[k] = ss[k + 1]
        /\ \A k \in 1 .. n : tt[k] \in Seq(B)
    OBVIOUS
  <1>2. PICK g : Joins(g, tt, n, B) /\ FlattenSeq(tt) = g[n]
    BY <1>1, FlattenJoins
  <1>3. PICK h : Joins(h, ss, Len(ss), B) /\ FlattenSeq(ss) = h[Len(ss)]
    BY FlattenJoins
  <1> HIDE DEF tt, n, c
  <1>4. Joins(h, ss, n + 1, B) /\ FlattenSeq(ss) = h[n + 1]
    BY <1>1, <1>3
  <1>5. /\ g \in [0 .. n -> Seq(B)] /\ g[0] = <<>> /\ \A k \in 1 .. n : g[k] = g[k - 1] \o tt[k]
        /\ h[0] = <<>> /\ \A k \in 1 .. n + 1 : h[k] = h[k - 1] \o ss[k]
    BY <1>2, <1>4 DEF Joins
  <1> DEFINE T == {k \in Nat : k <= n => h[k + 1] = c \o g[k]}
  <1>6. 0 \in T
    <2>1. 1 \in 1 .. n + 1 /\ 1 - 1 = 0 /\ 0 + 1 = 1
      BY <1>1
    <2>2. h[1] = <<>> \o c
      BY <1>1, <1>5, <2>1
    <2>3. <<>> \o c = c /\ c \o <<>> = c
      BY <1>1
    <2>4. QED
      BY <1>5, <2>1, <2>2, <2>3
  <1>7. ASSUME NEW k \in Nat, k \in T PROVE k + 1 \in T
    <2> SUFFICES ASSUME k + 1 <= n PROVE h[k + 1 + 1] = c \o g[k + 1]
      OBVIOUS
    <2>1. h[k + 1] = c \o g[k]
      BY <1>1, <1>7
    <2> DEFINE x == k + 1
    <2>2. x \in 1 .. n /\ x + 1 \in 1 .. n + 1 /\ x - 1 = k /\ (x + 1) - 1 = x /\ k \in 0 .. n
      BY <1>1
    <2>3. h[x] = c \o g[k]
      BY <2>1
    <2> HIDE DEF x
    <2>4. g[x] = g[k] \o tt[x] /\ tt[x] = ss[x + 1] /\ tt[x] \in Seq(B) /\ g[k] \in Seq(B)
      BY <1>1, <1>5, <2>2
    <2>5. h[x + 1] = h[x] \o ss[x + 1]
      BY <1>5, <2>2
    <2>6. (c \o g[k]) \o tt[x] = c \o (g[k] \o tt[x])
      <3>1. c \in Seq(B) /\ g[k] \in Seq(B) /\ tt[x] \in Seq(B)
        BY <1>1, <2>4
      <3>2. QED
        BY <1>0, <3>1, ZenonT(60)
    <2>7. h[x + 1] = c \o g[x]
      BY <2>3, <2>4, <2>5, <2>6
    <2>8. QED
      BY <2>7 DEF x
  <1>8. Nat \subseteq T
    <2> HIDE DEF T
    <2> QED
      BY <1>6, <1>7, Induct
  <1>9. h[n + 1] = c \o g[n]
    <2>1. n \in T
      BY <1>1, <1>8, Zenon
    <2>2. n <= n
      BY <1>1
    <2>3. QED
      BY <2>1, <2>2, Zenon
  <1>10. FlattenSeq(ss) = c \o FlattenSeq(tt)
    BY <1>2, <1>4, <1>9, Zenon
  <1>11. QED
    BY <1>10, Zenon DEF tt, c

----------------------------------------------------------------------------
(* The intercepter.                                                        *)

\* What the output is cut into.
Piece == [at : Nat, kind : Kinds]

\* k is one half of a complete ANSI sequence of s.
InEscape(s, k) ==
  \/ KindAt(s, k) = "esc" /\ KindAt(s, k + 1) = "fin"
  \/ KindAt(s, k) = "fin" /\ KindAt(s, k - 1) = "esc"

\* One step of StripANSI.
Kept(s, kept, k) == IF InEscape(s, k) THEN kept ELSE Append(kept, s[k])

\* StripANSI goes through its argument once.
LEMMA StripIterates ==
  ASSUME NEW s \in Seq(Piece)
  PROVE  \E h \in [0 .. Len(s) -> Seq(Piece)] :
           /\ h[0] = <<>>
           /\ \A k \in 1 .. Len(s) : h[k] = Kept(s, h[k - 1], k)
           /\ StripANSI(s) = h[Len(s)]
  <1> DEFINE n == Len(s)
             R == Seq(Piece)
             I == [i \in DOMAIN s |-> i]
             Rec(f) == f = [t \in SUBSET (DOMAIN I) |->
                         IF t = {} THEN <<>> ELSE Kept(s, f[t \ {Max(t)}], I[Max(t)])]
             iter == CHOOSE f : Rec(f)
             G == [x \in (1 .. n) \X R |-> Kept(s, x[2], x[1])]
             h == [k \in 0 .. n |-> iter[1 .. k]]
  <1>0. n \in Nat /\ DOMAIN I = 1 .. n /\ \A i \in 1 .. n : I[i] = i
    OBVIOUS
  <1>1. StripANSI(s) = iter[DOMAIN I]
    BY Zenon DEF StripANSI, FoldLeftDomain, FoldLeft, MapThenFoldSet, Kept, InEscape
  <1> HIDE DEF n, I
  <1>2. ASSUME NEW kept \in R, NEW k \in 1 .. n PROVE Kept(s, kept, k) \in R
    BY <1>2 DEF Kept, n
  <1>3. G \in [(1 .. n) \X R -> R] /\ \A k \in 1 .. n, r \in R : G[<<k, r>>] = Kept(s, r, k)
    <2>1. \A x \in (1 .. n) \X R : x[1] \in 1 .. n /\ x[2] \in R
      OBVIOUS
    <2>2. \A x \in (1 .. n) \X R : Kept(s, x[2], x[1]) \in R
      BY <1>2, <2>1, Zenon
    <2>3. QED
      BY <2>2
  <1>4. <<>> \in R
    OBVIOUS
  <1> HIDE DEF R
  <1>5. PICK f \in [SUBSET (1 .. n) -> R] : Iterates(f, n, <<>>, G)
    <2> HIDE DEF G
    <2> QED
      BY <1>0, <1>3, <1>4, IteratesExist
  <1>6. Rec(f)
    <2>1. f = [t \in SUBSET (1 .. n) |->
                 IF t = {} THEN <<>> ELSE G[<<Max(t), f[t \ {Max(t)}]>>]]
      BY <1>5, Zenon DEF Iterates
    <2>2. ASSUME NEW t \in SUBSET (1 .. n), t # {}
          PROVE  G[<<Max(t), f[t \ {Max(t)}]>>] = Kept(s, f[t \ {Max(t)}], I[Max(t)])
      <3>1. Max(t) \in t
        BY <1>0, <2>2, Greatest
      <3>2. Max(t) \in 1 .. n /\ I[Max(t)] = Max(t) /\ t \ {Max(t)} \in SUBSET (1 .. n)
        BY <1>0, <3>1
      <3>3. f[t \ {Max(t)}] \in R
        BY <1>5, <3>2
      <3> HIDE DEF G
      <3>4. QED
        BY <1>3, <3>2, <3>3
    <2> HIDE DEF G
    <2>3. QED
      BY <1>0, <2>1, <2>2
  <1>7. Rec(iter)
    <2> HIDE DEF Rec
    <2> QED
      BY <1>6
  <1> HIDE DEF iter
  <1>8. iter[{}] = <<>>
    BY <1>7
  <1>9. ASSUME NEW k \in 1 .. n PROVE iter[1 .. k] = Kept(s, iter[1 .. k - 1], k)
    <2>1. Max(1 .. k) = k /\ (1 .. k) \ {k} = 1 .. k - 1 /\ 1 .. k # {}
      BY <1>0, MaxPrefix
    <2>2. 1 .. k \in SUBSET (DOMAIN I) /\ I[k] = k
      BY <1>0
    <2>3. \A t \in SUBSET (DOMAIN I) : t # {} =>
            iter[t] = Kept(s, iter[t \ {Max(t)}], I[Max(t)])
      BY <1>7, Zenon
    <2>4. iter[1 .. k] = Kept(s, iter[(1 .. k) \ {Max(1 .. k)}], I[Max(1 .. k)])
      BY <2>1, <2>2, <2>3, Zenon
    <2>5. QED
      BY <2>1, <2>2, <2>4, Zenon
  <1> HIDE DEF Rec
  <1>10. h[0] = <<>> /\ \A k \in 1 .. n : h[k] = Kept(s, h[k - 1], k)
    <2>1. 1 .. 0 = {}
      OBVIOUS
    <2>2. QED
      BY <1>0, <1>8, <1>9, <2>1
  <1>11. h[n] = StripANSI(s)
    BY <1>0, <1>1
  <1> DEFINE T == {k \in Nat : k <= n => h[k] \in R}
  <1> HIDE DEF h
  <1>12. 0 \in T
    BY <1>4, <1>10
  <1>13. ASSUME NEW k \in Nat, k \in T PROVE k + 1 \in T
    <2> SUFFICES ASSUME k + 1 <= n PROVE h[k + 1] \in R
      OBVIOUS
    <2>1. h[k] \in R /\ k + 1 \in 1 .. n /\ k + 1 - 1 = k
      BY <1>0, <1>13
    <2>2. QED
      BY <1>2, <1>10, <2>1
  <1>14. Nat \subseteq T
    <2> HIDE DEF T
    <2> QED
      BY <1>12, <1>13, Induct
  <1>15. h \in [0 .. n -> R]
    <2>1. \A k \in 0 .. n : h[k] \in R
      BY <1>0, <1>14
    <2>2. h = [k \in 0 .. n |-> h[k]]
      BY DEF h
    <2>3. QED
      BY <2>1, <2>2
  <1>16. QED
    BY <1>10, <1>11, <1>15 DEF n, R

\* t has the pieces of s at the places idx: those up to k that are not in an
\* ANSI sequence, in order.
Strips(s, k, idx, t) ==
  /\ t \in Seq(Piece) /\ idx \in Seq(Nat) /\ Len(idx) = Len(t)
  /\ \A m \in 1 .. Len(t) :
       idx[m] \in 1 .. k /\ ~InEscape(s, idx[m]) /\ t[m] = s[idx[m]]
  /\ \A l, m \in 1 .. Len(t) : l < m => idx[l] < idx[m]
  /\ \A p \in 1 .. k : ~InEscape(s, p) => \E m \in 1 .. Len(t) : idx[m] = p

\* One more piece: it is kept, or it is in an ANSI sequence.
LEMMA StripStep ==
  ASSUME NEW s \in Seq(Piece), NEW k \in Nat, k + 1 <= Len(s),
         NEW t, NEW idx, Strips(s, k, idx, t)
  PROVE  \E i : Strips(s, k + 1, i, Kept(s, t, k + 1))
  <1>1. CASE InEscape(s, k + 1)
    <2>1. Kept(s, t, k + 1) = t
      BY <1>1 DEF Kept
    <2>2. ASSUME NEW p \in 1 .. k + 1, ~InEscape(s, p)
          PROVE  p \in 1 .. k
      <3>1. p # k + 1
        BY <1>1, <2>2
      <3>2. QED
        BY <3>1
    <2>3. \A p \in 1 .. k + 1 : ~InEscape(s, p) => \E m \in 1 .. Len(t) : idx[m] = p
      BY <2>2, Zenon DEF Strips
    <2>4. \A m \in 1 .. Len(t) : idx[m] \in 1 .. k + 1
      BY DEF Strips
    <2>5. Strips(s, k + 1, idx, t)
      BY <2>3, <2>4, Zenon DEF Strips
    <2>6. QED
      BY <2>1, <2>5
  <1>2. CASE ~InEscape(s, k + 1)
    <2> DEFINE u == Append(t, s[k + 1])
               i == Append(idx, k + 1)
               n == Len(t)
    <2>1. Kept(s, t, k + 1) = u
      BY <1>2 DEF Kept
    <2>2. n \in Nat /\ Len(idx) = n /\ t \in Seq(Piece) /\ idx \in Seq(Nat)
      BY DEF Strips
    <2>3. s[k + 1] \in Piece
      OBVIOUS
    <2>4. u \in Seq(Piece) /\ Len(u) = n + 1 /\ u[n + 1] = s[k + 1]
          /\ \A m \in 1 .. n : u[m] = t[m]
      BY <2>2, <2>3
    <2>5. i \in Seq(Nat) /\ Len(i) = n + 1 /\ i[n + 1] = k + 1
          /\ \A m \in 1 .. n : i[m] = idx[m]
      BY <2>2
    <2>6. /\ \A m \in 1 .. n : idx[m] \in 1 .. k /\ ~InEscape(s, idx[m]) /\ t[m] = s[idx[m]]
          /\ \A l, m \in 1 .. n : l < m => idx[l] < idx[m]
          /\ \A p \in 1 .. k : ~InEscape(s, p) => \E m \in 1 .. n : idx[m] = p
      BY Zenon DEF Strips
    <2> HIDE DEF u, i, n
    <2>7. ASSUME NEW m \in 1 .. n + 1
          PROVE  i[m] \in 1 .. k + 1 /\ ~InEscape(s, i[m]) /\ u[m] = s[i[m]]
      <3>1. CASE m = n + 1
        BY <1>2, <2>4, <2>5, <3>1
      <3>2. CASE m # n + 1
        <4>1. m \in 1 .. n
          BY <2>2, <3>2
        <4>2. u[m] = t[m] /\ i[m] = idx[m] /\ idx[m] \in 1 .. k /\ ~InEscape(s, idx[m])
              /\ t[m] = s[idx[m]]
          BY <2>4, <2>5, <2>6, <4>1
        <4>3. QED
          BY <4>2
      <3>3. QED
        BY <3>1, <3>2
    <2>8. ASSUME NEW l \in 1 .. n + 1, NEW m \in 1 .. n + 1, l < m
          PROVE  i[l] < i[m]
      <3>1. l \in 1 .. n
        BY <2>2, <2>8
      <3>2. i[l] = idx[l] /\ idx[l] \in 1 .. k
        BY <2>5, <2>6, <3>1
      <3>3. CASE m = n + 1
        BY <2>5, <3>2, <3>3
      <3>4. CASE m # n + 1
        <4>1. m \in 1 .. n
          BY <2>2, <3>4
        <4>2. QED
          BY <2>5, <2>6, <2>8, <3>1, <4>1
      <3>5. QED
        BY <3>3, <3>4
    <2>9. ASSUME NEW p \in 1 .. k + 1, ~InEscape(s, p)
          PROVE  \E m \in 1 .. n + 1 : i[m] = p
      <3>1. CASE p = k + 1
        BY <2>2, <2>5, <3>1
      <3>2. CASE p # k + 1
        <4>1. p \in 1 .. k
          BY <3>2
        <4>2. PICK m \in 1 .. n : idx[m] = p
          BY <2>6, <2>9, <4>1
        <4>3. m \in 1 .. n + 1 /\ i[m] = p
          BY <2>2, <2>5, <4>2
        <4>4. QED
          BY <4>3
      <3>3. QED
        BY <3>1, <3>2
    <2>10. Strips(s, k + 1, i, u)
      <3>1. \A m \in 1 .. n + 1 : i[m] \in 1 .. k + 1 /\ ~InEscape(s, i[m]) /\ u[m] = s[i[m]]
        BY <2>7, Zenon
      <3>2. \A l, m \in 1 .. n + 1 : l < m => i[l] < i[m]
        BY <2>8, Zenon
      <3>3. \A p \in 1 .. k + 1 : ~InEscape(s, p) => \E m \in 1 .. n + 1 : i[m] = p
        BY <2>9, Zenon
      <3>4. QED
        BY <2>4, <2>5, <3>1, <3>2, <3>3, Zenon DEF Strips
    <2>11. QED
      BY <2>1, <2>10
  <1>3. QED
    BY <1>1, <1>2

\* StripANSI keeps what is in no complete ANSI sequence, in order.
LEMMA StripKeeps ==
  ASSUME NEW s \in Seq(Piece)
  PROVE  \E idx : Strips(s, Len(s), idx, StripANSI(s))
  <1>1. PICK h \in [0 .. Len(s) -> Seq(Piece)] :
          /\ h[0] = <<>>
          /\ \A k \in 1 .. Len(s) : h[k] = Kept(s, h[k - 1], k)
          /\ StripANSI(s) = h[Len(s)]
    BY StripIterates
  <1> DEFINE n     == Len(s)
             Ok(k) == \E idx : Strips(s, k, idx, h[k])
             T     == {k \in Nat : k <= n => Ok(k)}
  <1>0. n \in Nat
    OBVIOUS
  <1>2. Ok(0)
    <2>1. <<>> \in Seq(Piece) /\ <<>> \in Seq(Nat) /\ Len(<<>>) = 0
      OBVIOUS
    <2>2. Strips(s, 0, <<>>, <<>>)
      BY <2>1 DEF Strips
    <2>3. QED
      BY <1>1, <2>2, Zenon
  <1>3. ASSUME NEW k \in Nat, k + 1 <= n, Ok(k) PROVE Ok(k + 1)
    <2>1. PICK idx : Strips(s, k, idx, h[k])
      BY <1>3, Zenon
    <2>2. PICK i : Strips(s, k + 1, i, Kept(s, h[k], k + 1))
      BY <1>3, <2>1, StripStep
    <2>3. k + 1 \in 1 .. n /\ k + 1 - 1 = k
      BY <1>0, <1>3
    <2>4. h[k + 1] = Kept(s, h[k], k + 1)
      BY <1>1, <2>3
    <2>5. QED
      BY <2>2, <2>4
  <1> HIDE DEF Ok
  <1>4. 0 \in T
    BY <1>2
  <1>5. ASSUME NEW k \in Nat, k \in T PROVE k + 1 \in T
    BY <1>0, <1>3, <1>5
  <1>6. Nat \subseteq T
    <2> HIDE DEF T
    <2> QED
      BY <1>4, <1>5, Induct
  <1>7. Ok(n)
    BY <1>0, <1>6
  <1>8. QED
    BY <1>1, <1>7, Zenon DEF Ok

----------------------------------------------------------------------------
\* A prompt ends s: its indicator is opened at i and shut at j, and nothing
\* but ANSI sequences is between them, nor after them but those and padding.
PromptAt(s, i, j) ==
  /\ i \in 1 .. Len(s) /\ j \in 1 .. Len(s) /\ i < j
  /\ s[i].kind = "open" /\ s[j].kind = "shut"
  /\ \A k \in i + 1 .. j - 1 : InEscape(s, k)
  /\ \A k \in j + 1 .. Len(s) : InEscape(s, k) \/ s[k].kind = "pad"

\* The last piece that is not padding.
LEMMA LastNotPad ==
  ASSUME NEW t \in Seq(Piece)
  PROVE  LET e == SelectLastInSeq(t, LAMBDA b : b.kind # "pad") IN
         /\ e \in 0 .. Len(t)
         /\ e > 0 => t[e].kind # "pad"
         /\ \A m \in 1 .. Len(t) : t[m].kind # "pad" => m <= e
  <1> DEFINE n == Len(t)
             J == {m \in 1 .. n : t[m].kind # "pad"}
             e == SelectLastInSeq(t, LAMBDA b : b.kind # "pad")
  <1>1. e = IF J # {} THEN Max(J) ELSE 0
    BY Zenon DEF SelectLastInSeq
  <1>2. n \in Nat /\ J \subseteq 1 .. n
    OBVIOUS
  <1>3. J # {} => Max(J) \in J /\ \A y \in J : y <= Max(J)
    <2> HIDE DEF J
    <2> QED
      BY <1>2, Greatest
  <1> HIDE DEF e
  <1>4. /\ e \in 0 .. n
        /\ e > 0 => t[e].kind # "pad"
        /\ \A m \in 1 .. n : t[m].kind # "pad" => m <= e
    <2>1. CASE J = {}
      <3>1. e = 0
        BY <1>1, <2>1
      <3>2. \A m \in 1 .. n : ~(t[m].kind # "pad")
        BY <2>1
      <3>3. QED
        BY <1>2, <3>1, <3>2
    <2>2. CASE J # {}
      <3>1. e \in J /\ \A y \in J : y <= e
        BY <1>1, <1>3, <2>2
      <3>2. QED
        BY <1>2, <3>1
    <2>3. QED
      BY <2>1, <2>2
  <1>5. QED
    BY <1>4, Zenon DEF e

\* MatchLine finds the prompt that s ends with, and nothing else.
LEMMA MatchLineIs ==
  ASSUME NEW s \in Seq(Piece)
  PROVE  /\ \A i, j \in Nat : PromptAt(s, i, j) => MatchLine(s) = <<s[j].at>>
         /\ \/ MatchLine(s) = <<>>
            \/ \E i, j \in Nat : PromptAt(s, i, j) /\ MatchLine(s) = <<s[j].at>>
  <1> DEFINE n    == Len(s)
             t    == StripANSI(s)
             m    == Len(t)
             end  == SelectLastInSeq(t, LAMBDA b : b.kind # "pad")
             Hit  == KindAt(t, end) = "shut" /\ KindAt(t, end - 1) = "open"
  <1>1. MatchLine(s) = IF Hit THEN <<t[end].at>> ELSE <<>>
    BY Zenon DEF MatchLine
  <1>2. PICK idx : Strips(s, n, idx, t)
    BY StripKeeps
  <1>3. /\ t \in Seq(Piece) /\ m \in Nat /\ n \in Nat /\ DOMAIN t = 1 .. m
        /\ \A k \in 1 .. m : idx[k] \in Nat /\ idx[k] \in 1 .. n /\ ~InEscape(s, idx[k])
                             /\ t[k] = s[idx[k]]
        /\ \A k, l \in 1 .. m : k < l => idx[k] < idx[l]
        /\ \A p \in 1 .. n : ~InEscape(s, p) => \E k \in 1 .. m : idx[k] = p
    <2>1. t \in Seq(Piece) /\ m \in Nat /\ DOMAIN t = 1 .. m /\ n \in Nat
      BY <1>2 DEF Strips
    <2>2. /\ \A k \in 1 .. m : idx[k] \in 1 .. n /\ ~InEscape(s, idx[k]) /\ t[k] = s[idx[k]]
          /\ \A k, l \in 1 .. m : k < l => idx[k] < idx[l]
          /\ \A p \in 1 .. n : ~InEscape(s, p) => \E k \in 1 .. m : idx[k] = p
      BY <1>2, Zenon DEF Strips
    <2>3. \A k \in 1 .. m : idx[k] \in Nat
      <3> HIDE DEF t, m, n
      <3> QED
        BY <2>1, <2>2
    <2>4. QED
      BY <2>1, <2>2, <2>3
  <1>4. /\ end \in 0 .. m
        /\ end > 0 => t[end].kind # "pad"
        /\ \A k \in 1 .. m : t[k].kind # "pad" => k <= end
    BY <1>3, LastNotPad
  <1>5. Hit <=> end \in 2 .. m /\ t[end].kind = "shut" /\ t[end - 1].kind = "open"
    <2> HIDE DEF end, t
    <2>1. ASSUME Hit PROVE end \in 1 .. m /\ end - 1 \in 1 .. m
      BY <1>3, <2>1 DEF KindAt
    <2>2. QED
      BY <1>3, <1>4, <2>1 DEF KindAt
  <1> HIDE DEF Hit, end, m, t
  <1>6. \A k, l \in 1 .. m : idx[k] < idx[l] => k < l
    <2> SUFFICES ASSUME NEW k \in 1 .. m, NEW l \in 1 .. m, idx[k] < idx[l], ~(k < l)
                 PROVE  FALSE
      OBVIOUS
    <2>0. k \in Int /\ l \in Int /\ idx[k] \in Int /\ idx[l] \in Int
      BY <1>3
    <2>1. k = l \/ l < k
      BY <2>0
    <2>2. CASE l < k
      <3>1. idx[l] < idx[k]
        BY <1>3, <2>2
      <3>2. QED
        BY <2>0, <3>1
    <2>3. CASE k = l
      BY <2>0, <2>3
    <2>4. QED
      BY <2>1, <2>2, <2>3
  <1>7. ASSUME Hit
        PROVE  \E i, j \in Nat : PromptAt(s, i, j) /\ MatchLine(s) = <<s[j].at>>
    <2> DEFINE i == idx[end - 1]
               j == idx[end]
    <2>1. /\ end \in 1 .. m /\ end - 1 \in 1 .. m /\ end - 1 < end
          /\ t[end].kind = "shut" /\ t[end - 1].kind = "open"
      BY <1>3, <1>5, <1>7
    <2>2. /\ i \in 1 .. n /\ j \in 1 .. n /\ i \in Nat /\ j \in Nat /\ i < j
          /\ t[end] = s[j] /\ t[end - 1] = s[i]
      BY <1>3, <2>1
    <2>3. ASSUME NEW k \in i + 1 .. j - 1 PROVE InEscape(s, k)
      <3> SUFFICES ASSUME ~InEscape(s, k) PROVE FALSE
        OBVIOUS
      <3> HIDE DEF i, j
      <3>1. k \in 1 .. n /\ i < k /\ k < j
        BY <1>3, <2>2
      <3>2. PICK l \in 1 .. m : idx[l] = k
        BY <1>3, <3>1
      <3>3. end - 1 < l /\ l < end
        BY <1>6, <2>1, <3>1, <3>2 DEF i, j
      <3>4. QED
        BY <1>3, <2>1, <3>3
    <2>4. ASSUME NEW k \in j + 1 .. n PROVE InEscape(s, k) \/ s[k].kind = "pad"
      <3> SUFFICES ASSUME ~InEscape(s, k) PROVE s[k].kind = "pad"
        OBVIOUS
      <3> HIDE DEF i, j
      <3>1. k \in 1 .. n /\ j < k
        BY <1>3, <2>2
      <3>2. PICK l \in 1 .. m : idx[l] = k
        BY <1>3, <3>1
      <3>3. end < l
        BY <1>6, <2>1, <3>1, <3>2 DEF j
      <3>4. t[l] = s[k]
        BY <1>3, <3>2
      <3>5. ~(l <= end)
        BY <1>3, <2>1, <3>3
      <3>6. QED
        BY <1>4, <3>4, <3>5
    <2> HIDE DEF i, j
    <2>5. PromptAt(s, i, j)
      BY <2>1, <2>2, <2>3, <2>4 DEF PromptAt, n
    <2>6. MatchLine(s) = <<s[j].at>>
      BY <1>1, <1>7, <2>2
    <2>7. QED
      BY <2>2, <2>5, <2>6
  <1>8. ASSUME NEW i \in Nat, NEW j \in Nat, PromptAt(s, i, j)
        PROVE  MatchLine(s) = <<s[j].at>>
    <2>1. /\ i \in 1 .. n /\ j \in 1 .. n /\ i < j
          /\ s[i].kind = "open" /\ s[j].kind = "shut"
          /\ \A k \in i + 1 .. j - 1 : InEscape(s, k)
          /\ \A k \in j + 1 .. n : InEscape(s, k) \/ s[k].kind = "pad"
      BY <1>8 DEF PromptAt, n
    <2>2. ~InEscape(s, i) /\ ~InEscape(s, j)
      <3>1. KindAt(s, i) = "open" /\ KindAt(s, j) = "shut"
        BY <2>1 DEF KindAt, n
      <3>2. QED
        BY <3>1 DEF InEscape
    <2>3. PICK a \in 1 .. m : idx[a] = i
      BY <1>3, <2>1, <2>2
    <2>4. PICK b \in 1 .. m : idx[b] = j
      BY <1>3, <2>1, <2>2
    <2>5. a < b
      BY <1>6, <2>1, <2>3, <2>4
    <2>6. t[a] = s[i] /\ t[b] = s[j]
      BY <1>3, <2>3, <2>4
    <2>7. a = b - 1
      <3> SUFFICES ASSUME a # b - 1 PROVE FALSE
        OBVIOUS
      <3>1. b - 1 \in 1 .. m /\ a < b - 1 /\ b - 1 < b
        BY <1>3, <2>5
      <3>2. idx[a] < idx[b - 1] /\ idx[b - 1] < idx[b]
        BY <1>3, <3>1
      <3>3. idx[b - 1] \in Nat /\ ~InEscape(s, idx[b - 1])
        BY <1>3, <3>1
      <3>4. idx[b - 1] \in i + 1 .. j - 1
        BY <2>3, <2>4, <3>2, <3>3
      <3>5. QED
        BY <2>1, <3>3, <3>4
    <2>8. b <= end
      BY <1>4, <2>1, <2>6
    <2>9. end = b
      <3> SUFFICES ASSUME end # b PROVE FALSE
        OBVIOUS
      <3>1. end \in 1 .. m /\ b < end
        BY <1>3, <1>4, <2>8
      <3>2. j < idx[end] /\ idx[end] \in 1 .. n /\ ~InEscape(s, idx[end]) /\ t[end] = s[idx[end]]
        BY <1>3, <2>4, <3>1
      <3>3. idx[end] \in j + 1 .. n
        BY <1>3, <3>2
      <3>4. s[idx[end]].kind = "pad"
        BY <2>1, <3>2, <3>3
      <3>5. t[end].kind # "pad"
        BY <1>4, <3>1
      <3>6. QED
        BY <3>2, <3>4, <3>5
    <2>10. Hit
      <3>1. end \in 2 .. m /\ end - 1 = a
        BY <1>3, <2>5, <2>7, <2>9
      <3>2. QED
        BY <1>5, <2>1, <2>6, <2>9, <3>1
    <2>11. QED
      BY <1>1, <2>6, <2>9, <2>10
  <1>9. QED
    BY <1>1, <1>7, <1>8

Scans(B) == [buf : Seq(B), prompts : Seq(Nat)]

\* What MatchLine finds are places in the output.
LEMMA MatchLineType ==
  ASSUME NEW s \in Seq(Piece)
  PROVE  MatchLine(s) \in Seq(Nat)
  <1>1. CASE MatchLine(s) = <<>>
    BY <1>1
  <1>2. ASSUME NEW i \in Nat, NEW j \in Nat, PromptAt(s, i, j), MatchLine(s) = <<s[j].at>>
        PROVE  MatchLine(s) \in Seq(Nat)
    <2>1. s[j] \in Piece
      BY <1>2 DEF PromptAt
    <2>2. s[j].at \in Nat
      BY <2>1 DEF Piece
    <2>3. QED
      BY <1>2, <2>2
  <1>3. QED
    BY <1>1, <1>2, MatchLineIs

\* The buffer has pieces of what was scanned.
LEMMA ScanByteType ==
  ASSUME NEW B \in SUBSET Piece, NEW r \in Scans(B), NEW b \in B
  PROVE  ScanByte(r, b) \in Scans(B)
  <1>1. r.buf \in Seq(B) /\ r.prompts \in Seq(Nat)
    BY DEF Scans
  <1>2. CASE b.kind = "nl"
    <2>1. MatchLine(r.buf) \in Seq(Nat)
      BY <1>1, SubsetSeq, MatchLineType
    <2>2. r.prompts \o MatchLine(r.buf) \in Seq(Nat)
      BY <1>1, <2>1
    <2>3. <<>> \in Seq(B)
      OBVIOUS
    <2>4. QED
      BY <1>2, <2>2, <2>3 DEF ScanByte, Scans
  <1>3. CASE b.kind # "nl"
    <2>1. Append(r.buf, b) \in Seq(B) /\ MaxLine \in Nat
      BY <1>1, LineAssumption
    <2>2. LastOf(Append(r.buf, b), MaxLine) \in Seq(B)
      BY <2>1, LastOfFacts
    <2>3. QED
      BY <1>1, <1>3, <2>2 DEF ScanByte, Scans
  <1>4. QED
    BY <1>2, <1>3

\* Scanned goes through the chunk once, piece by piece.
LEMMA ScanIterates ==
  ASSUME NEW B \in SUBSET Piece, NEW buf \in Seq(B), NEW chunk \in Seq(B)
  PROVE  \E h \in [0 .. Len(chunk) -> Scans(B)] :
           /\ h[0] = [buf |-> buf, prompts |-> <<>>]
           /\ \A k \in 1 .. Len(chunk) : h[k] = ScanByte(h[k - 1], chunk[k])
           /\ Scanned(buf, chunk) = h[Len(chunk)]
  <1> DEFINE n == Len(chunk)
             R == Scans(B)
             start == [buf |-> buf, prompts |-> <<>>]
             Rec(f) == f = [t \in SUBSET (DOMAIN chunk) |->
                         IF t = {} THEN start ELSE ScanByte(f[t \ {Max(t)}], chunk[Max(t)])]
             iter == CHOOSE f : Rec(f)
             G == [x \in (1 .. n) \X R |-> ScanByte(x[2], chunk[x[1]])]
             h == [k \in 0 .. n |-> iter[1 .. k]]
  <1>0. n \in Nat /\ DOMAIN chunk = 1 .. n
    OBVIOUS
  <1>1. Scanned(buf, chunk) = iter[DOMAIN chunk]
    BY Zenon DEF Scanned, FoldLeft, MapThenFoldSet
  <1> HIDE DEF n
  <1>2. ASSUME NEW r \in R, NEW k \in 1 .. n PROVE ScanByte(r, chunk[k]) \in R
    <2>1. chunk[k] \in B
      BY <1>2 DEF n
    <2>2. QED
      BY <1>2, <2>1, ScanByteType
  <1>3. G \in [(1 .. n) \X R -> R] /\ \A k \in 1 .. n, r \in R : G[<<k, r>>] = ScanByte(r, chunk[k])
    <2>1. \A x \in (1 .. n) \X R : x[1] \in 1 .. n /\ x[2] \in R
      OBVIOUS
    <2>2. \A x \in (1 .. n) \X R : ScanByte(x[2], chunk[x[1]]) \in R
      BY <1>2, <2>1, Zenon
    <2>3. QED
      BY <2>2
  <1>4. start \in R
    BY DEF Scans
  <1> HIDE DEF R
  <1>5. PICK f \in [SUBSET (1 .. n) -> R] : Iterates(f, n, start, G)
    <2> HIDE DEF G
    <2> QED
      BY <1>0, <1>3, <1>4, IteratesExist
  <1>6. Rec(f)
    <2>1. f = [t \in SUBSET (1 .. n) |->
                 IF t = {} THEN start ELSE G[<<Max(t), f[t \ {Max(t)}]>>]]
      BY <1>5, Zenon DEF Iterates
    <2>2. ASSUME NEW t \in SUBSET (1 .. n), t # {}
          PROVE  G[<<Max(t), f[t \ {Max(t)}]>>] = ScanByte(f[t \ {Max(t)}], chunk[Max(t)])
      <3>1. Max(t) \in t
        BY <1>0, <2>2, Greatest
      <3>2. Max(t) \in 1 .. n /\ t \ {Max(t)} \in SUBSET (1 .. n)
        BY <1>0, <3>1
      <3>3. f[t \ {Max(t)}] \in R
        BY <1>5, <3>2
      <3> HIDE DEF G
      <3>4. QED
        BY <1>3, <3>2, <3>3
    <2> HIDE DEF G
    <2>3. QED
      BY <1>0, <2>1, <2>2
  <1>7. Rec(iter)
    <2> HIDE DEF Rec
    <2> QED
      BY <1>6
  <1> HIDE DEF iter
  <1>8. iter[{}] = start
    BY <1>7
  <1>9. ASSUME NEW k \in 1 .. n PROVE iter[1 .. k] = ScanByte(iter[1 .. k - 1], chunk[k])
    <2>1. Max(1 .. k) = k /\ (1 .. k) \ {k} = 1 .. k - 1 /\ 1 .. k # {}
      BY <1>0, MaxPrefix
    <2>2. 1 .. k \in SUBSET (DOMAIN chunk)
      BY <1>0
    <2>3. \A t \in SUBSET (DOMAIN chunk) : t # {} =>
            iter[t] = ScanByte(iter[t \ {Max(t)}], chunk[Max(t)])
      BY <1>7, Zenon
    <2>4. iter[1 .. k] = ScanByte(iter[(1 .. k) \ {Max(1 .. k)}], chunk[Max(1 .. k)])
      BY <2>1, <2>2, <2>3, Zenon
    <2>5. QED
      BY <2>1, <2>2, <2>4, Zenon
  <1> HIDE DEF Rec
  <1>10. h[0] = start /\ \A k \in 1 .. n : h[k] = ScanByte(h[k - 1], chunk[k])
    <2>1. 1 .. 0 = {}
      OBVIOUS
    <2>2. QED
      BY <1>0, <1>8, <1>9, <2>1
  <1>11. h[n] = Scanned(buf, chunk)
    BY <1>0, <1>1
  <1> DEFINE T == {k \in Nat : k <= n => h[k] \in R}
  <1> HIDE DEF h
  <1>12. 0 \in T
    BY <1>4, <1>10
  <1>13. ASSUME NEW k \in Nat, k \in T PROVE k + 1 \in T
    <2> SUFFICES ASSUME k + 1 <= n PROVE h[k + 1] \in R
      OBVIOUS
    <2>1. h[k] \in R /\ k + 1 \in 1 .. n /\ k + 1 - 1 = k
      BY <1>0, <1>13
    <2>2. QED
      BY <1>2, <1>10, <2>1
  <1>14. Nat \subseteq T
    <2> HIDE DEF T
    <2> QED
      BY <1>12, <1>13, Induct
  <1>15. h \in [0 .. n -> R]
    <2>1. \A k \in 0 .. n : h[k] \in R
      BY <1>0, <1>14
    <2>2. h = [k \in 0 .. n |-> h[k]]
      BY DEF h
    <2>3. QED
      BY <2>1, <2>2
  <1>16. QED
    BY <1>10, <1>11, <1>15 DEF n, R


\* What Scan leaves in the buffer and what it returns.
LEMMA ScanType ==
  ASSUME NEW B \in SUBSET Piece, NEW buf \in Seq(B), NEW chunk \in Seq(B)
  PROVE  Scan(buf, chunk).buf \in Seq(B) /\ Scan(buf, chunk).prompts \in Seq(Nat)
  <1>1. PICK h \in [0 .. Len(chunk) -> Scans(B)] : Scanned(buf, chunk) = h[Len(chunk)]
    BY ScanIterates, Zenon
  <1>2. Scanned(buf, chunk) \in Scans(B)
    <2>1. Len(chunk) \in 0 .. Len(chunk)
      OBVIOUS
    <2>2. QED
      BY <1>1, <2>1
  <1> DEFINE s == Scanned(buf, chunk)
             p == MatchLine(s.buf)
  <1>3. s.buf \in Seq(B) /\ s.prompts \in Seq(Nat)
    BY <1>2 DEF Scans
  <1>4. p \in Seq(Nat)
    BY <1>3, SubsetSeq, MatchLineType
  <1>5. Scan(buf, chunk) = [buf |-> IF p = <<>> THEN s.buf ELSE <<>>, prompts |-> s.prompts \o p]
    BY Zenon DEF Scan
  <1> HIDE DEF s, p
  <1>6. s.prompts \o p \in Seq(Nat) /\ <<>> \in Seq(B)
    BY <1>3, <1>4
  <1>7. QED
    BY <1>3, <1>5, <1>6

=============================================================================
