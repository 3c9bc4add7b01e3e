--------------------------- MODULE SeqOutput_proofs ---------------------------
(***************************************************************************)
(* For all sizes of the buffers and of the events: neither buffer is       *)
(* overfilled, EAGAIN is raised only when both are full, and the output    *)
(* path is the stream of OutputStream, in which what has been accepted of  *)
(* an event is its beginning.                                              *)
(***************************************************************************)
EXTENDS SeqOutput, SequenceTheorems, WellFoundedInduction, TLAPS

-----------------------------------------------------------------------------
(* Induction on the numbers up to N, for a set of numbers rather than a    *)
(* predicate.                                                              *)

\* A set of natural numbers has a least one.
LEMMA Least ==
    ASSUME NEW T \in SUBSET Nat, T # {}
    PROVE  \E x \in T : \A y \in T : x <= y
  <1> DEFINE R == OpToRel(<, Nat)
  <1>1. \A x, y \in Nat : <<y, x>> \in R <=> y < x
    BY DEF OpToRel
  <1>2. IsWellFoundedOn(R, Nat)
    BY NatLessThanWellFounded
  <1> HIDE DEF R
  <1>3. PICK x \in T : \A y \in T : ~ (<<y, x>> \in R)
    <2>1. T \subseteq Nat
      OBVIOUS
    <2> QED
      BY <1>2, <2>1, WFMin, Zenon
  <1>4. \A y \in T : x <= y
    <2> TAKE y \in T
    <2>1. x \in Nat /\ y \in Nat
      OBVIOUS
    <2>2. ~ (y < x)
      BY <1>1, <1>3, <2>1, Zenon
    <2> QED
      BY <2>1, <2>2
  <1> QED
    BY <1>4

\* What holds of 0 and, with each number, of the next holds up to N.
LEMMA UpTo ==
    ASSUME NEW N \in Nat, NEW P,
           0 \in P, \A n \in 0..(N - 1) : n \in P => n + 1 \in P
    PROVE  \A n \in 0..N : n \in P
  <1> DEFINE T == {n \in 0..N : n \notin P}
  <1>1. SUFFICES ASSUME T # {}
                 PROVE  FALSE
    OBVIOUS
  <1>2. PICK x \in T : \A y \in T : x <= y
    <2>1. T \in SUBSET Nat
      OBVIOUS
    <2> HIDE DEF T
    <2> QED
      BY <1>1, <2>1, Least
  <1>3. x \in 1..N
    OBVIOUS
  <1>4. x - 1 \in 0..(N - 1) /\ x - 1 \notin T
    BY <1>2, <1>3
  <1>5. x - 1 \in P
    BY <1>4
  <1>6. (x - 1) + 1 \in P
    BY <1>4, <1>5
  <1> QED
    BY <1>3, <1>6

-----------------------------------------------------------------------------
(* Functions defined by recursion on the numbers up to N: what the choice  *)
(* in such a definition chooses has values in T and obeys the recursion.   *)

Recursion(F, N, base, step) ==
    F = [n \in 0..N |-> IF n = 0 THEN base ELSE step[<<n, F[n - 1]>>]]

\* A typed function that obeys it.
Obeys(F, N, T, base, step) ==
    /\ F \in [0..N -> T] /\ F[0] = base
    /\ \A n \in 1..N : F[n] = step[<<n, F[n - 1]>>]

\* There is one.
LEMMA RecursionExists ==
    ASSUME NEW N \in Nat, NEW T, NEW base \in T, NEW step \in [(1..N) \X T -> T]
    PROVE  \E F : Recursion(F, N, base, step)
  <1> DEFINE OK(g, m) == /\ g \in [0..m -> T] /\ g[0] = base
                         /\ \A n \in 1..m : g[n] = step[<<n, g[n - 1]>>]
             P == {m \in 0..N : \E g : OK(g, m)}
  <1>1. 0 \in P
    <2> DEFINE g == [n \in 0..0 |-> base]
    <2>1. OK(g, 0)
      OBVIOUS
    <2>2. 0 \in 0..N
      OBVIOUS
    <2> HIDE DEF OK, g
    <2> QED
      BY <2>1, <2>2
  <1>2. ASSUME NEW m \in 0..(N - 1), m \in P
        PROVE  m + 1 \in P
    <2>1. PICK g : OK(g, m)
      BY <1>2
    <2> DEFINE h == [n \in 0..(m + 1) |-> IF n = m + 1 THEN step[<<m + 1, g[m]>>] ELSE g[n]]
    <2>2. g[m] \in T /\ step[<<m + 1, g[m]>>] \in T
      BY <2>1
    <2>3. OK(h, m + 1)
      <3>1. h \in [0..(m + 1) -> T]
        BY <2>1, <2>2
      <3>2. h[0] = base
        BY <2>1
      <3>3. ASSUME NEW n \in 1..(m + 1)
            PROVE  h[n] = step[<<n, h[n - 1]>>]
        <4>1. CASE n = m + 1
          <5>1. n - 1 = m /\ m \in 0..(m + 1) /\ m # m + 1 /\ n \in 0..(m + 1)
            BY <4>1
          <5> QED
            BY <4>1, <5>1
        <4>2. CASE n # m + 1
          <5>1. n \in 1..m /\ n - 1 \in 0..m
            BY <4>2
          <5> QED
            BY <2>1, <5>1
        <4> QED
          BY <4>1, <4>2
      <3> QED
        BY <3>1, <3>2, <3>3
    <2>4. m + 1 \in 0..N
      OBVIOUS
    <2> HIDE DEF OK, h
    <2> QED
      BY <2>3, <2>4
  <1>3. N \in P
    <2> HIDE DEF P
    <2>1. \A n \in 0..N : n \in P
      BY <1>1, <1>2, UpTo
    <2> QED
      BY <2>1
  <1>4. PICK g : OK(g, N)
    BY <1>3
  <1>5. Recursion(g, N, base, step)
    <2>1. \A n \in 0..N : g[n] = IF n = 0 THEN base ELSE step[<<n, g[n - 1]>>]
      BY <1>4
    <2>2. g \in [0..N -> T]
      BY <1>4
    <2> QED
      BY <2>1, <2>2 DEF Recursion
  <1> QED
    BY <1>5

\* It has values in T.
LEMMA RecursionType ==
    ASSUME NEW N \in Nat, NEW T, NEW base \in T, NEW step \in [(1..N) \X T -> T],
           NEW F, Recursion(F, N, base, step)
    PROVE  Obeys(F, N, T, base, step)
  <1>1. F[0] = base /\ \A n \in 1..N : F[n] = step[<<n, F[n - 1]>>]
    BY DEF Recursion
  <1> DEFINE P == {n \in 0..N : F[n] \in T}
  <1>2. 0 \in P
    BY <1>1
  <1>3. ASSUME NEW n \in 0..(N - 1), n \in P
        PROVE  n + 1 \in P
    <2>1. F[n + 1] = step[<<n + 1, F[n]>>]
      BY <1>1
    <2>2. F[n + 1] \in T
      BY <1>3, <2>1
    <2> QED
      BY <2>2
  <1>4. \A n \in 0..N : n \in P
    <2> HIDE DEF P
    <2> QED
      BY <1>2, <1>3, UpTo
  <1> QED
    BY <1>1, <1>4 DEF Recursion, Obeys

-----------------------------------------------------------------------------
(* The cells of a buffer.                                                  *)

Sized(S) == \A f \in S : f.cells \in Nat

\* F counts the cells of a buffer from its first fragment.
Sums(F, b) ==
    /\ F \in [0..Len(b) -> Nat] /\ F[0] = 0
    /\ \A n \in 1..Len(b) : F[n] = F[n - 1] + b[n].cells

\* Used is what such a count ends with.
LEMMA UsedSums ==
    ASSUME NEW S, Sized(S), NEW b \in Seq(S)
    PROVE  \E F : Sums(F, b) /\ Used(b) = F[Len(b)]
  <1> DEFINE N == Len(b)
             step == [x \in (1..N) \X Nat |-> x[2] + b[x[1]].cells]
             R(F) == F = [n \in 0..N |-> IF n = 0 THEN 0 ELSE F[n - 1] + b[n].cells]
             u == CHOOSE F : R(F)
  <1>1. N \in Nat /\ \A n \in 1..N : b[n].cells \in Nat
    <2>1. N \in Nat /\ \A n \in 1..N : b[n] \in S
      BY LenProperties, ElementOfSeq
    <2> QED
      BY <2>1 DEF Sized
  <1>2. step \in [(1..N) \X Nat -> Nat]
    BY <1>1
  <1>3. \E F : R(F)
    <2> HIDE DEF N
    <2>1. PICK F : Recursion(F, N, 0, step)
      <3>1. N \in Nat /\ 0 \in Nat
        BY <1>1
      <3> HIDE DEF step
      <3> QED
        BY <1>2, <3>1, RecursionExists
    <2>2. F \in [0..N -> Nat] /\ F[0] = 0 /\ \A n \in 1..N : F[n] = step[<<n, F[n - 1]>>]
      <3>1. N \in Nat /\ 0 \in Nat
        BY <1>1
      <3>2. Obeys(F, N, Nat, 0, step)
        <4> HIDE DEF step
        <4> QED
          BY <1>2, <2>1, <3>1, RecursionType, Zenon
      <3> QED
        BY <3>2 DEF Obeys
    <2>3. \A n \in 1..N : step[<<n, F[n - 1]>>] = F[n - 1] + b[n].cells
      BY <1>1, <2>2
    <2> HIDE DEF step
    <2>4. R(F)
      <3>1. ASSUME NEW n \in 0..N
            PROVE  F[n] = IF n = 0 THEN 0 ELSE F[n - 1] + b[n].cells
        <4>1. CASE n = 0
          BY <2>2, <4>1
        <4>2. CASE n # 0
          <5>1. n \in 1..N
            BY <1>1, <4>2
          <5> QED
            BY <2>2, <2>3, <4>2, <5>1, Zenon
        <4> QED
          BY <4>1, <4>2
      <3>2. F = [n \in 0..N |-> F[n]]
        BY <2>2
      <3>3. [n \in 0..N |-> F[n]] = [n \in 0..N |-> IF n = 0 THEN 0 ELSE F[n - 1] + b[n].cells]
        BY <3>1
      <3> QED
        BY <3>2, <3>3
    <2> QED
      BY <2>4
  <1>4. R(u)
    <2> HIDE DEF R
    <2> QED
      BY <1>3
  <1>5. Used(b) = u[N]
    BY DEF Used
  <1> HIDE DEF u
  <1>6. u[0] = 0 /\ \A n \in 1..N : u[n] = u[n - 1] + b[n].cells
    <2> HIDE DEF N
    <2> QED
      BY <1>1, <1>4
  <1>7. \A n \in 0..N : u[n] \in Nat
    <2> HIDE DEF N
    <2> DEFINE P == {n \in 0..N : u[n] \in Nat}
    <2>1. 0 \in P
      BY <1>1, <1>6
    <2>2. ASSUME NEW n \in 0..(N - 1), n \in P
          PROVE  n + 1 \in P
      <3>1. u[n + 1] = u[n] + b[n + 1].cells /\ b[n + 1].cells \in Nat
        BY <1>1, <1>6
      <3> QED
        BY <1>1, <2>2, <3>1
    <2>3. \A n \in 0..N : n \in P
      <3> HIDE DEF P
      <3> QED
        BY <1>1, <2>1, <2>2, UpTo
    <2> QED
      BY <2>3
  <1>8. u \in [0..N -> Nat]
    BY <1>4, <1>7
  <1> QED
    BY <1>5, <1>6, <1>8 DEF Sums

\* The buffer c is found in b behind the first k.
Behind(b, k, c) ==
    k + Len(c) <= Len(b) /\ \A n \in 1..Len(c) : b[k + n] = c[n]

\* Nothing but its first fragments decides how far a count gets.
LEMMA SumsFrom ==
    ASSUME NEW S, Sized(S), NEW b \in Seq(S), NEW c \in Seq(S), NEW F, NEW G, NEW k \in Nat,
           Sums(F, b), Sums(G, c), Behind(b, k, c)
    PROVE  F[k + Len(c)] = F[k] + G[Len(c)]
  <1>1. Len(b) \in Nat /\ Len(c) \in Nat
    BY LenProperties
  <1> DEFINE P == {n \in 0..Len(c) : F[k + n] = F[k] + G[n]}
  <1>2. 0 \in P
    <2>1. k \in 0..Len(b) /\ k + 0 = k
      BY <1>1 DEF Behind
    <2>2. F[k] \in Nat /\ G[0] = 0
      BY <2>1 DEF Sums
    <2> QED
      BY <1>1, <2>1, <2>2
  <1>3. ASSUME NEW n \in 0..(Len(c) - 1), n \in P
        PROVE  n + 1 \in P
    <2>1. n + 1 \in 1..Len(c) /\ k + n + 1 \in 1..Len(b) /\ k + (n + 1) = k + n + 1
      BY <1>1 DEF Behind
    <2>2. c[n + 1] \in S /\ c[n + 1].cells \in Nat /\ b[k + n + 1] = c[n + 1]
      BY <2>1, ElementOfSeq DEF Sized, Behind
    <2>3. G[n + 1] = G[n] + c[n + 1].cells
      BY <1>1, <2>1 DEF Sums
    <2>4. F[k + n + 1] = F[k + n] + b[k + n + 1].cells
      BY <1>1, <2>1 DEF Sums
    <2>5. G[n] \in Nat /\ F[k] \in Nat
      <3>1. n \in 0..Len(c) /\ k \in 0..Len(b)
        BY <1>1 DEF Behind
      <3> QED
        BY <3>1 DEF Sums
    <2>6. F[k + n] = F[k] + G[n]
      BY <1>3
    <2>7. F[k + (n + 1)] = F[k] + G[n + 1]
      BY <2>1, <2>2, <2>3, <2>4, <2>5, <2>6
    <2>8. n + 1 \in 0..Len(c)
      BY <1>1
    <2> QED
      BY <2>7, <2>8
  <1>4. \A n \in 0..Len(c) : n \in P
    <2> HIDE DEF P
    <2> QED
      BY <1>1, <1>2, <1>3, UpTo
  <1> QED
    BY <1>1, <1>4

LEMMA UsedType ==
    ASSUME NEW S, Sized(S), NEW b \in Seq(S)
    PROVE  Used(b) \in Nat
  <1>1. PICK F : Sums(F, b) /\ Used(b) = F[Len(b)]
    BY UsedSums
  <1> QED
    BY <1>1, LenProperties DEF Sums

\* The cells of two buffers, one behind the other.
LEMMA UsedConcat ==
    ASSUME NEW S, Sized(S), NEW b \in Seq(S), NEW c \in Seq(S)
    PROVE  Used(b \o c) = Used(b) + Used(c)
  <1> DEFINE d == b \o c
  <1>1. /\ d \in Seq(S) /\ Len(d) = Len(b) + Len(c)
        /\ \A i \in 1..(Len(b) + Len(c)) : d[i] = IF i <= Len(b) THEN b[i] ELSE c[i - Len(b)]
    BY ConcatProperties
  <1>2. Len(b) \in Nat /\ Len(c) \in Nat
    BY LenProperties
  <1> HIDE DEF d
  <1>3. PICK F : Sums(F, d) /\ Used(d) = F[Len(d)]
    BY <1>1, UsedSums
  <1>4. PICK G : Sums(G, b) /\ Used(b) = G[Len(b)]
    BY UsedSums
  <1>5. PICK H : Sums(H, c) /\ Used(c) = H[Len(c)]
    BY UsedSums
  <1>6. F[0 + Len(b)] = F[0] + G[Len(b)]
    <2>1. Behind(d, 0, b) /\ 0 \in Nat
      BY <1>1, <1>2 DEF Behind
    <2>2. d \in Seq(S) /\ Sums(F, d) /\ Sums(G, b)
      BY <1>1, <1>3, <1>4
    <2> QED
      BY <2>1, <2>2, SumsFrom
  <1>7. F[Len(b) + Len(c)] = F[Len(b)] + H[Len(c)]
    <2> DEFINE k == Len(b)
    <2>1. Behind(d, k, c) /\ k \in Nat
      BY <1>1, <1>2 DEF Behind
    <2>2. d \in Seq(S) /\ Sums(F, d) /\ Sums(H, c)
      BY <1>1, <1>3, <1>5
    <2> HIDE DEF k
    <2>3. F[k + Len(c)] = F[k] + H[Len(c)]
      BY <2>1, <2>2, SumsFrom
    <2> QED
      BY <2>3 DEF k
  <1>8. F[0] = 0 /\ G[Len(b)] \in Nat
    <2>1. F[0] = 0
      BY <1>3 DEF Sums
    <2>2. Len(b) \in 0..Len(b)
      BY <1>2
    <2> QED
      BY <1>4, <2>1, <2>2 DEF Sums
  <1>9. Used(d) = Used(b) + Used(c)
    BY <1>1, <1>2, <1>3, <1>4, <1>5, <1>6, <1>7, <1>8
  <1> QED
    BY <1>9 DEF d

LEMMA UsedEmpty ==
    Used(<<>>) = 0
  <1> DEFINE S == {f \in {} : TRUE}
  <1>1. Sized(S)
    BY DEF Sized
  <1>2. <<>> \in Seq(S) /\ Len(<<>>) = 0
    BY EmptySeq
  <1> HIDE DEF S
  <1>3. PICK F : Sums(F, <<>>) /\ Used(<<>>) = F[Len(<<>>)]
    BY <1>1, <1>2, UsedSums, Zenon
  <1> QED
    BY <1>2, <1>3, Zenon DEF Sums

\* A fragment more at the end, and one less at the beginning.
LEMMA UsedOne ==
    ASSUME NEW S, Sized(S), NEW f \in S
    PROVE  Used(<<f>>) = f.cells
  <1>1. <<f>> \in Seq(S) /\ Len(<<f>>) = 1 /\ <<f>>[1] = f
    OBVIOUS
  <1>2. PICK F : Sums(F, <<f>>) /\ Used(<<f>>) = F[Len(<<f>>)]
    BY <1>1, UsedSums
  <1> QED
    BY <1>1, <1>2 DEF Sums, Sized

LEMMA UsedAppend ==
    ASSUME NEW S, Sized(S), NEW b \in Seq(S), NEW f \in S
    PROVE  Used(Append(b, f)) = Used(b) + f.cells
  <1>1. Append(b, f) = b \o <<f>> /\ <<f>> \in Seq(S)
    BY AppendIsConcat
  <1>2. Used(b \o <<f>>) = Used(b) + Used(<<f>>)
    BY <1>1, UsedConcat
  <1>3. Used(<<f>>) = f.cells
    BY UsedOne
  <1> QED
    BY <1>1, <1>2, <1>3

LEMMA UsedTail ==
    ASSUME NEW S, Sized(S), NEW b \in Seq(S), b # <<>>
    PROVE  Used(b) = Head(b).cells + Used(Tail(b))
  <1>1. Head(b) \in S /\ Tail(b) \in Seq(S) /\ <<Head(b)>> \in Seq(S)
    BY HeadTailProperties
  <1>2. b = <<Head(b)>> \o Tail(b)
    BY <1>1
  <1>3. Used(<<Head(b)>> \o Tail(b)) = Used(<<Head(b)>>) + Used(Tail(b))
    BY <1>1, UsedConcat
  <1>4. Used(<<Head(b)>>) = Head(b).cells
    BY <1>1, UsedOne
  <1> QED
    BY <1>2, <1>3, <1>4

-----------------------------------------------------------------------------
(* What alsa-lib and the kernel do with the fragments they are given.      *)

LEMMA Greatest ==
    ASSUME NEW N \in Nat, NEW T \in SUBSET (0..N), T # {}
    PROVE  Max(T) \in T /\ \A x \in T : x <= Max(T)
  <1> DEFINE U == {N - x : x \in T}
  <1>1. PICK y \in U : \A x \in U : y <= x
    <2>1. \A x \in T : N - x \in Nat
      OBVIOUS
    <2>2. U \subseteq Nat /\ U # {}
      BY <2>1
    <2> HIDE DEF U
    <2> QED
      BY <2>2, Least
  <1>2. PICK m \in T : y = N - m
    BY <1>1
  <1>3. \A x \in T : m >= x
    <2> TAKE x \in T
    <2>1. y <= N - x /\ x \in 0..N /\ m \in 0..N
      BY <1>1
    <2> QED
      BY <1>2, <2>1
  <1>4. Max(T) \in T /\ \A x \in T : Max(T) >= x
    <2> DEFINE M(v) == v \in T /\ \A x \in T : v >= x
    <2>1. Max(T) = CHOOSE v : M(v)
      BY DEF Max
    <2>2. M(m)
      BY <1>3
    <2> HIDE DEF M
    <2>3. M(CHOOSE v : M(v))
      BY <2>2
    <2>4. M(Max(T))
      BY <2>1, <2>3
    <2> QED
      BY <2>4 DEF M
  <1>5. \A x \in T : x <= Max(T)
    <2> TAKE x \in T
    <2>1. x \in 0..N /\ Max(T) \in 0..N
      BY <1>4
    <2>2. Max(T) >= x
      BY <1>4
    <2> QED
      BY <2>1, <2>2
  <1> QED
    BY <1>4, <1>5

\* How many fragments of b can go to p at once.
CanWrite(b, p) ==
    {k \in 0..Len(b) : /\ \A i \in 1..k : ~b[i].bad
                       /\ Used(p) + Used(SubSeq(b, 1, k)) <= PoolSize}

LEMMA WritableIs ==
    ASSUME NEW S, Sized(S), NEW b \in Seq(S), NEW p \in Seq(S), Used(p) <= PoolSize
    PROVE  /\ Writable(b, p) \in CanWrite(b, p)
           /\ \A k \in CanWrite(b, p) : k <= Writable(b, p)
  <1>1. Len(b) \in Nat
    BY LenProperties
  <1>2. Writable(b, p) = Max(CanWrite(b, p))
    BY DEF Writable, CanWrite
  <1>3. 0 \in CanWrite(b, p)
    <2>1. SubSeq(b, 1, 0) = <<>>
      BY SubSeqEmpty
    <2>2. Used(SubSeq(b, 1, 0)) = 0
      BY <2>1, UsedEmpty, Zenon
    <2>3. Used(p) \in Nat
      BY UsedType
    <2>4. Used(p) + Used(SubSeq(b, 1, 0)) <= PoolSize
      BY <2>2, <2>3
    <2> QED
      BY <1>1, <2>4 DEF CanWrite
  <1>4. CanWrite(b, p) \in SUBSET (0..Len(b))
    BY DEF CanWrite
  <1> QED
    BY <1>1, <1>2, <1>3, <1>4, Greatest

\* A buffer cut in two.
LEMMA CutInTwo ==
    ASSUME NEW S, NEW b \in Seq(S), NEW k \in 0..Len(b)
    PROVE  /\ SubSeq(b, 1, k) \in Seq(S) /\ SubSeq(b, k + 1, Len(b)) \in Seq(S)
           /\ SubSeq(b, 1, k) \o SubSeq(b, k + 1, Len(b)) = b
           /\ Len(SubSeq(b, 1, k)) = k
           /\ \A i \in 1..k : SubSeq(b, 1, k)[i] = b[i]
           /\ k = Len(b) => SubSeq(b, k + 1, Len(b)) = <<>>
           /\ k < Len(b) => SubSeq(b, k + 1, Len(b)) # <<>>
           /\ k < Len(b) => /\ Head(SubSeq(b, k + 1, Len(b))) = b[k + 1]
                            /\ SubSeq(b, 1, k + 1) = Append(SubSeq(b, 1, k), b[k + 1])
           /\ k = 0 => SubSeq(b, 1, k) = <<>> /\ SubSeq(b, k + 1, Len(b)) = b
  <1>1. Len(b) \in Nat /\ (\A i \in 1..Len(b) : b[i] \in S) /\ k \in Int
    BY LenProperties, ElementOfSeq
  <1>2. SubSeq(b, 1, k) \in Seq(S) /\ SubSeq(b, k + 1, Len(b)) \in Seq(S)
    BY <1>1, SubSeqProperties
  <1>3. SubSeq(b, 1, k) \o SubSeq(b, k + 1, Len(b)) = b
    <2>1. SubSeq(b, 1, k) \o SubSeq(b, k + 1, Len(b)) = SubSeq(b, 1, Len(b))
      <3>1. /\ 1 \in 1..(Len(b) + 1) /\ k \in (1 - 1)..Len(b)
            /\ Len(b) \in k..Len(b)
        BY <1>1
      <3> QED
        BY <3>1, ConcatAdjacentSubSeq, Zenon
    <2>2. SubSeq(b, 1, Len(b)) = b
      BY SubSeqFull
    <2> QED
      BY <2>1, <2>2
  <1>4. Len(SubSeq(b, 1, k)) = k /\ \A i \in 1..k : SubSeq(b, 1, k)[i] = b[i]
    BY <1>1, SubSeqProperties
  <1>5. /\ k = Len(b) => SubSeq(b, k + 1, Len(b)) = <<>>
        /\ k < Len(b) => SubSeq(b, k + 1, Len(b)) # <<>>
    <2>1. CASE k = Len(b)
      <3>1. SubSeq(b, k + 1, Len(b)) = <<>>
        BY <1>1, <2>1, SubSeqEmpty
      <3> QED
        BY <2>1, <3>1
    <2>2. CASE k < Len(b)
      <3>1. Len(SubSeq(b, k + 1, Len(b))) = Len(b) - k
        BY <1>1, <2>2, SubSeqProperties
      <3>2. Len(SubSeq(b, k + 1, Len(b))) # 0
        BY <1>1, <2>2, <3>1
      <3>3. SubSeq(b, k + 1, Len(b)) # <<>>
        BY <3>2, EmptySeq
      <3> QED
        BY <1>1, <2>2, <3>3
    <2> QED
      BY <1>1, <2>1, <2>2
  <1>6. ASSUME k < Len(b)
        PROVE  /\ Head(SubSeq(b, k + 1, Len(b))) = b[k + 1]
               /\ SubSeq(b, 1, k + 1) = Append(SubSeq(b, 1, k), b[k + 1])
    <2>1. k + 1 \in 1..Len(b) /\ Len(b) \in (k + 1)..Len(b) /\ (k + 1) - 1 = k
      BY <1>1, <1>6
    <2>2. Head(SubSeq(b, k + 1, Len(b))) = b[k + 1]
      BY <2>1, HeadTailOfSubSeq
    <2>3. SubSeq(b, 1, k + 1) = SubSeq(b, 1, (k + 1) - 1) \o <<b[k + 1]>>
      <3>1. 1 \in 1..Len(b) /\ k + 1 \in 1..Len(b)
        BY <1>1, <2>1
      <3> QED
        BY <3>1, SubSeqRecursiveSecond, Zenon
    <2>4. Append(SubSeq(b, 1, k), b[k + 1]) = SubSeq(b, 1, k) \o <<b[k + 1]>>
      BY <1>1, <1>2, <2>1, AppendIsConcat
    <2> QED
      BY <2>1, <2>2, <2>3, <2>4
  <1>7. ASSUME k = 0
        PROVE  SubSeq(b, 1, k) = <<>> /\ SubSeq(b, k + 1, Len(b)) = b
    BY <1>1, <1>7, SubSeqEmpty, SubSeqFull
  <1> QED
    BY <1>2, <1>3, <1>4, <1>5, <1>6, <1>7, Zenon

\* What the result d of a drain of b into p may be.
Drained(S, b, p, d) ==
    /\ d.obuf \in Seq(S) /\ d.pool \in Seq(S) /\ d.pool \o d.obuf = p \o b
    /\ Used(d.pool) <= PoolSize /\ Used(d.obuf) <= Used(b)
    /\ d.result \in {"ok", "partial", "EAGAIN", "EINVAL"}
    /\ d.result = "ok" => d.obuf = <<>>
    /\ d.result = "EAGAIN" => d.obuf = b
    /\ d.result \in {"partial", "EAGAIN"} =>
          d.obuf # <<>> /\ Used(d.pool) + Head(d.obuf).cells > PoolSize

LEMMA DrainIs ==
    ASSUME NEW S, Sized(S), NEW b \in Seq(S), NEW p \in Seq(S),
           PoolSize \in Nat, Used(p) <= PoolSize
    PROVE  Drained(S, b, p, snd_seq_drain_output(b, p))
  <1> DEFINE k    == Writable(b, p)
             head == SubSeq(b, 1, k)
             rest == SubSeq(b, k + 1, Len(b))
             d    == snd_seq_drain_output(b, p)
  <1>1. Len(b) \in Nat /\ \A i \in 1..Len(b) : b[i] \in S /\ b[i].cells \in Nat
    BY LenProperties, ElementOfSeq DEF Sized
  <1>2. /\ k \in CanWrite(b, p) /\ \A j \in CanWrite(b, p) : j <= k
        /\ k \in 0..Len(b) /\ (\A i \in 1..k : ~b[i].bad) /\ Used(p) + Used(head) <= PoolSize
    <2>1. k \in CanWrite(b, p) /\ \A j \in CanWrite(b, p) : j <= k
      BY WritableIs
    <2> HIDE DEF k
    <2> QED
      BY <2>1 DEF CanWrite
  <1>3. /\ d.obuf = rest /\ d.pool = p \o head
        /\ d.result = IF rest = <<>> THEN "ok"
                      ELSE IF Head(rest).bad THEN "EINVAL"
                      ELSE IF k = 0 THEN "EAGAIN" ELSE "partial"
    BY DEF snd_seq_drain_output
  <1> HIDE DEF d, k
  <1>4. /\ head \in Seq(S) /\ rest \in Seq(S) /\ head \o rest = b
        /\ k = Len(b) => rest = <<>>
        /\ k < Len(b) => rest # <<>>
        /\ k < Len(b) => Head(rest) = b[k + 1] /\ SubSeq(b, 1, k + 1) = Append(head, b[k + 1])
        /\ k = 0 => head = <<>> /\ rest = b
    BY <1>2, CutInTwo
  <1> HIDE DEF head, rest
  <1>5. p \o head \in Seq(S) /\ (p \o head) \o rest = p \o b
    <2>1. head \in Seq(S) /\ rest \in Seq(S)
      BY <1>4
    <2>2. p \o head \in Seq(S)
      BY <2>1, ConcatProperties
    <2>3. (p \o head) \o rest = p \o (head \o rest)
      BY <2>1, ConcatAssociative
    <2> QED
      BY <1>4, <2>2, <2>3
  <1>6. Used(p \o head) <= PoolSize /\ Used(p \o head) = Used(p) + Used(head)
    <2>1. Used(p \o head) = Used(p) + Used(head)
      BY <1>4, UsedConcat
    <2> QED
      BY <1>2, <2>1
  <1>7. Used(rest) <= Used(b)
    <2>1. Used(b) = Used(head) + Used(rest) /\ Used(head) \in Nat /\ Used(rest) \in Nat
      BY <1>4, UsedConcat, UsedType
    <2> QED
      BY <2>1
  <1>8. ASSUME rest # <<>>, ~Head(rest).bad
        PROVE  Used(p \o head) + Head(rest).cells > PoolSize
    <2>1. k < Len(b) /\ k + 1 \in 1..Len(b) /\ k + 1 \in 0..Len(b)
      <3>1. k # Len(b)
        BY <1>4, <1>8, Zenon
      <3> QED
        BY <1>1, <1>2, <3>1
    <2>2. /\ Head(rest) = b[k + 1] /\ SubSeq(b, 1, k + 1) = Append(head, b[k + 1])
          /\ b[k + 1] \in S /\ b[k + 1].cells \in Nat
      BY <1>1, <1>4, <2>1
    <2>3. k + 1 \notin CanWrite(b, p)
      <3>1. ~ (k + 1 <= k)
        BY <1>2
      <3> QED
        BY <1>2, <3>1
    <2>4. \A i \in 1..(k + 1) : ~b[i].bad
      <3> TAKE i \in 1..(k + 1)
      <3>1. CASE i = k + 1
        BY <1>8, <2>2, <3>1
      <3>2. CASE i # k + 1
        <4>1. i \in 1..k
          BY <1>2, <3>2
        <4> QED
          BY <1>2, <4>1
      <3> QED
        BY <3>1, <3>2
    <2>5. ~ (Used(p) + Used(SubSeq(b, 1, k + 1)) <= PoolSize)
      BY <2>1, <2>3, <2>4 DEF CanWrite
    <2>6. Used(SubSeq(b, 1, k + 1)) = Used(head) + Head(rest).cells
      BY <1>4, <2>2, UsedAppend
    <2>7. Used(p) \in Nat /\ Used(head) \in Nat
      BY <1>4, UsedType
    <2> QED
      BY <1>6, <2>2, <2>5, <2>6, <2>7
  <1>9. Drained(S, b, p, d)
    <2>1. /\ d.obuf \in Seq(S) /\ d.pool \in Seq(S) /\ d.pool \o d.obuf = p \o b
          /\ Used(d.pool) <= PoolSize /\ Used(d.obuf) <= Used(b)
      BY <1>3, <1>4, <1>5, <1>6, <1>7, Zenon
    <2>2. /\ d.result \in {"ok", "partial", "EAGAIN", "EINVAL"}
          /\ d.result = "ok" => d.obuf = <<>>
          /\ d.result = "EAGAIN" => d.obuf = b
          /\ d.result \in {"partial", "EAGAIN"} => rest # <<>> /\ ~Head(rest).bad
      <3>1. CASE rest = <<>>
        BY <1>3, <3>1
      <3>2. CASE rest # <<>> /\ Head(rest).bad
        BY <1>3, <3>2
      <3>3. CASE rest # <<>> /\ ~Head(rest).bad
        BY <1>3, <1>4, <3>3
      <3> QED
        BY <3>1, <3>2, <3>3
    <2> QED
      BY <1>3, <1>8, <2>1, <2>2, Zenon DEF Drained
  <1> QED
    BY <1>9 DEF d

\* What the result o of handing over f, with the buffers b and p, may be.
HandedOver(S, f, b, p, o) ==
    /\ o.obuf \in Seq(S) /\ o.pool \in Seq(S)
    /\ Used(o.obuf) <= BufSize /\ Used(o.pool) <= PoolSize
    /\ o.result \in {"ok", "EAGAIN", "EINVAL"}
    /\ o.result = "ok" => o.pool \o o.obuf = Append(p \o b, f)
    /\ o.result # "ok" => o.pool \o o.obuf = p \o b
    /\ o.result = "EAGAIN" =>
          /\ o.obuf # <<>> /\ Used(o.pool) + Head(o.obuf).cells > PoolSize
          /\ Used(o.obuf) + f.cells > BufSize

LEMMA HandOver ==
    ASSUME NEW S, Sized(S), NEW f \in S, NEW b \in Seq(S), NEW p \in Seq(S),
           PoolSize \in Nat, Used(p) <= PoolSize, BufSize \in Nat, Used(b) <= BufSize
    PROVE  HandedOver(S, f, b, p, snd_seq_event_output(f, b, p))
  <1> DEFINE d == snd_seq_drain_output(b, p)
             o == snd_seq_event_output(f, b, p)
  <1>1. Drained(S, b, p, d)
    BY DrainIs
  <1>2. d = [obuf |-> d.obuf, pool |-> d.pool, result |-> d.result]
    BY DEF snd_seq_drain_output
  <1>3. o = IF f.cells >= BufSize THEN [obuf |-> b, pool |-> p, result |-> "EINVAL"]
            ELSE IF Fits(f, b) THEN [obuf |-> Append(b, f), pool |-> p, result |-> "ok"]
            ELSE IF d.result \in {"EAGAIN", "EINVAL"} THEN d
            ELSE IF Fits(f, d.obuf) THEN [d EXCEPT !.obuf = Append(@, f), !.result = "ok"]
            ELSE [d EXCEPT !.result = "EAGAIN"]
    BY DEF snd_seq_event_output
  <1> SUFFICES HandedOver(S, f, b, p, o)
    OBVIOUS
  <1> HIDE DEF d, o
  <1>4. \A c \in Seq(S), q \in Seq(S) :
           /\ Append(c, f) \in Seq(S) /\ Used(Append(c, f)) = Used(c) + f.cells
           /\ Used(c) \in Nat
           /\ q \o Append(c, f) = Append(q \o c, f)
    <2> TAKE c \in Seq(S), q \in Seq(S)
    <2>1. Append(c, f) = c \o <<f>> /\ <<f>> \in Seq(S) /\ Append(c, f) \in Seq(S)
      BY AppendIsConcat
    <2>2. q \o (c \o <<f>>) = (q \o c) \o <<f>> /\ q \o c \in Seq(S)
      BY <2>1, ConcatAssociative, ConcatProperties
    <2>3. Append(q \o c, f) = (q \o c) \o <<f>>
      BY <2>2, AppendIsConcat
    <2>4. Used(Append(c, f)) = Used(c) + f.cells /\ Used(c) \in Nat
      BY UsedAppend, UsedType
    <2> QED
      BY <2>1, <2>2, <2>3, <2>4
  <1>5. f.cells \in Nat
    BY DEF Sized
  <1>6. CASE f.cells >= BufSize
    <2>1. o.obuf = b /\ o.pool = p /\ o.result = "EINVAL"
      BY <1>3, <1>6
    <2>2. o.result # "ok" /\ o.result # "EAGAIN" /\ o.result \in {"ok", "EAGAIN", "EINVAL"}
      BY <2>1
    <2>3. /\ o.obuf \in Seq(S) /\ o.pool \in Seq(S)
          /\ Used(o.obuf) <= BufSize /\ Used(o.pool) <= PoolSize
      BY <2>1
    <2>4. o.pool \o o.obuf = p \o b
      BY <2>1
    <2> QED
      BY <2>2, <2>3, <2>4, Zenon DEF HandedOver
  <1>7. CASE ~(f.cells >= BufSize) /\ Fits(f, b)
    <2>1. o.obuf = Append(b, f) /\ o.pool = p /\ o.result = "ok"
      BY <1>3, <1>7
    <2>2. Append(b, f) \in Seq(S) /\ Used(Append(b, f)) <= BufSize
      BY <1>4, <1>7 DEF Fits
    <2>3. o.result # "EAGAIN" /\ o.result \in {"ok", "EAGAIN", "EINVAL"}
      BY <2>1
    <2>4. /\ o.obuf \in Seq(S) /\ o.pool \in Seq(S)
          /\ Used(o.obuf) <= BufSize /\ Used(o.pool) <= PoolSize
      BY <2>1, <2>2
    <2>5. o.pool \o o.obuf = Append(p \o b, f)
      BY <1>4, <2>1
    <2> QED
      BY <2>1, <2>3, <2>4, <2>5, Zenon DEF HandedOver
  <1>8. CASE ~(f.cells >= BufSize) /\ ~Fits(f, b) /\ d.result \in {"EAGAIN", "EINVAL"}
    <2>1. o = d
      BY <1>3, <1>8
    <2>2. Used(d.obuf) <= BufSize
      <3>1. Used(d.obuf) \in Nat /\ Used(b) \in Nat /\ Used(d.obuf) <= Used(b)
        BY <1>1, UsedType DEF Drained
      <3> QED
        BY <3>1
    <2>3. d.result = "EAGAIN" => Used(d.obuf) + f.cells > BufSize
      <3> SUFFICES ASSUME d.result = "EAGAIN"
                   PROVE  Used(d.obuf) + f.cells > BufSize
        OBVIOUS
      <3>1. d.obuf = b
        BY <1>1 DEF Drained
      <3>2. Used(b) + f.cells > BufSize
        BY <1>4, <1>5, <1>8 DEF Fits
      <3> QED
        BY <3>1, <3>2
    <2>4. d.result # "ok" /\ d.result \in {"ok", "EAGAIN", "EINVAL"}
      BY <1>8
    <2>5. d.result = "EAGAIN" => d.result \in {"partial", "EAGAIN"}
      OBVIOUS
    <2>6. HandedOver(S, f, b, p, d)
      BY <1>1, <2>2, <2>3, <2>4, <2>5, Zenon DEF Drained, HandedOver
    <2> QED
      BY <2>1, <2>6, Zenon
  <1>9. CASE /\ ~(f.cells >= BufSize) /\ d.result \notin {"EAGAIN", "EINVAL"}
             /\ ~Fits(f, b) /\ Fits(f, d.obuf)
    <2>1. o.obuf = Append(d.obuf, f) /\ o.pool = d.pool /\ o.result = "ok"
      <3>1. o = [d EXCEPT !.obuf = Append(@, f), !.result = "ok"]
        BY <1>3, <1>9
      <3> QED
        BY <1>2, <3>1
    <2>2. d.obuf \in Seq(S) /\ d.pool \in Seq(S) /\ d.pool \o d.obuf = p \o b /\ Used(d.pool) <= PoolSize
      BY <1>1 DEF Drained
    <2>3. Append(d.obuf, f) \in Seq(S) /\ Used(Append(d.obuf, f)) <= BufSize
      BY <1>4, <1>9, <2>2 DEF Fits
    <2>4. o.pool \o o.obuf = Append(p \o b, f)
      <3>1. d.pool \o Append(d.obuf, f) = Append(d.pool \o d.obuf, f)
        BY <1>4, <2>2, Zenon
      <3> QED
        BY <2>1, <2>2, <3>1, Zenon
    <2>5. o.result # "EAGAIN" /\ o.result \in {"ok", "EAGAIN", "EINVAL"}
      BY <2>1
    <2>6. /\ o.obuf \in Seq(S) /\ o.pool \in Seq(S)
          /\ Used(o.obuf) <= BufSize /\ Used(o.pool) <= PoolSize
      BY <2>1, <2>2, <2>3
    <2> QED
      BY <2>1, <2>4, <2>5, <2>6, Zenon DEF HandedOver
  <1>10. CASE /\ ~(f.cells >= BufSize) /\ d.result \notin {"EAGAIN", "EINVAL"}
              /\ ~Fits(f, b) /\ ~Fits(f, d.obuf)
    <2>1. o.obuf = d.obuf /\ o.pool = d.pool /\ o.result = "EAGAIN"
      <3>1. o = [d EXCEPT !.result = "EAGAIN"]
        BY <1>3, <1>10
      <3> QED
        BY <1>2, <3>1
    <2>2. d.obuf \in Seq(S) /\ d.pool \in Seq(S) /\ d.pool \o d.obuf = p \o b /\ Used(d.pool) <= PoolSize
      BY <1>1 DEF Drained
    <2>3. Used(d.obuf) \in Nat /\ Used(d.obuf) + f.cells > BufSize
      BY <1>4, <1>5, <1>10, <2>2 DEF Fits
    <2>4. Used(d.obuf) <= BufSize
      <3>1. Used(d.obuf) <= Used(b) /\ Used(b) \in Nat
        BY <1>1, UsedType DEF Drained
      <3> QED
        BY <2>3, <3>1
    <2>5. d.result = "partial"
      <3>1. d.result # "ok"
        <4> SUFFICES ASSUME d.result = "ok"
                     PROVE  FALSE
          OBVIOUS
        <4>1. d.obuf = <<>>
          BY <1>1 DEF Drained
        <4>2. Used(d.obuf) = 0
          BY <4>1, UsedEmpty, Zenon
        <4> QED
          BY <1>5, <1>10, <2>3, <4>2
      <3> QED
        BY <1>1, <1>10, <3>1 DEF Drained
    <2>6. d.obuf # <<>> /\ Used(d.pool) + Head(d.obuf).cells > PoolSize
      BY <1>1, <2>5 DEF Drained
    <2>7. o.result # "ok" /\ o.result \in {"ok", "EAGAIN", "EINVAL"}
      BY <2>1
    <2>8. /\ o.obuf \in Seq(S) /\ o.pool \in Seq(S) /\ o.pool \o o.obuf = p \o b
          /\ Used(o.obuf) <= BufSize /\ Used(o.pool) <= PoolSize
      BY <2>1, <2>2, <2>4
    <2>9. o.obuf # <<>>
      BY <2>1, <2>6, Zenon
    <2>10. Used(o.pool) + Head(o.obuf).cells > PoolSize /\ Used(o.obuf) + f.cells > BufSize
      BY <2>1, <2>3, <2>6
    <2> QED
      BY <2>7, <2>8, <2>9, <2>10, Zenon DEF HandedOver
  <1> QED
    BY <1>6, <1>7, <1>8, <1>9, <1>10, Zenon

-----------------------------------------------------------------------------
(* The invariant that TypeOK needs: what the calls and the fragments are,  *)
(* and where the running call is.                                          *)

Nothing == [cells |-> <<0>>, bad |-> FALSE]
Events  == Users[user].events \union {Nothing}
Results == {"ok", "partial", "EAGAIN", "EINVAL"}
CallSet == [op : Users[user].ops, ev : Events, result : Results \union {"none"}]
Made    == [call : 1..Running, part : Nat, cells : Nat, bad : BOOLEAN]

Recorded ==
    /\ calls \in Seq(CallSet)
    /\ obuf \in Seq(Made) /\ pool \in Seq(Made) /\ delivered \in Seq(Made)

\* The running call is the last, the only one without a result, and has gone
\* through its event up to the remainder.
InProgress ==
    /\ pc # "idle" => Running > 0
    /\ \A i \in 1..Running : calls[i].result = "none" <=> (pc # "idle" /\ i = Running)
    /\ pc = "idle" => rem = 0
    /\ rem # 0 => rem \in 2..Parts /\ Call.op \notin {"drain", "direct"}

IInv == TypeOK /\ Recorded /\ InProgress

WellFormed(e) ==
    /\ e.cells \in Seq(Nat) /\ Len(e.cells) \in Nat \ {0} /\ e.bad \in BOOLEAN
    /\ \A i \in 1..(Len(e.cells) - 1) : e.cells[i] > 0

LEMMA EventsWellFormed ==
    ASSUME user \in DOMAIN Users
    PROVE  \A e \in Events : WellFormed(e)
  <1>1. Users[user] \in Range(Users)
    BY DEF Range
  <1>2. \A e \in Users[user].events : WellFormed(e)
    <2> TAKE e \in Users[user].events
    <2>1. /\ e.cells \in Seq(Nat) /\ e.cells # <<>> /\ e.bad \in BOOLEAN
          /\ \A i \in 1..(Len(e.cells) - 1) : e.cells[i] > 0
      BY <1>1, OutputAssumption, Zenon
    <2>2. Len(e.cells) \in Nat \ {0}
      BY <2>1, EmptySeq, Zenon
    <2> QED
      BY <2>1, <2>2, Zenon DEF WellFormed
  <1>3. WellFormed(Nothing)
    <2>1. <<0>> \in Seq(Nat) /\ Len(<<0>>) = 1
      OBVIOUS
    <2>2. Nothing.cells = <<0>> /\ Nothing.bad = FALSE
      BY DEF Nothing
    <2>3. Len(Nothing.cells) \in Nat \ {0} /\ \A i \in 1..(Len(Nothing.cells) - 1) : FALSE
      BY <2>1, <2>2
    <2> QED
      BY <2>1, <2>2, <2>3 DEF WellFormed
  <1> QED
    BY <1>2, <1>3 DEF Events

\* The number of the fragment an attempt is about, and whether it is an event.
First(r) == IF r = 0 THEN 1 ELSE r
Sends(r) == Call.op # "drain" /\ Fragment(r).cells > 0

\* What an attempt a of the running call may come to.
Attempted(a) ==
    /\ a.alsa.obuf \in Seq(Made) /\ Used(a.alsa.obuf) <= BufSize
    /\ a.alsa.pool \in Seq(Made) /\ Used(a.alsa.pool) <= PoolSize
    /\ a.alsa.result \in Results
    /\ Call.op # "drain" => a.alsa.result # "partial"
    /\ a.alsa.result = "ok" /\ Sends(rem) =>
          a.alsa.pool \o a.alsa.obuf = Append(pool \o obuf, Fragment(rem))
    /\ a.alsa.result # "ok" \/ ~Sends(rem) => a.alsa.pool \o a.alsa.obuf = pool \o obuf
    /\ Call.op # "drain" /\ ~Sends(rem) => a.alsa.result = "ok"
    /\ a.alsa.result = "EAGAIN" =>
          /\ a.alsa.obuf # <<>> /\ Used(a.alsa.pool) + Head(a.alsa.obuf).cells > PoolSize
          /\ Call.op # "drain" => Used(a.alsa.obuf) + Fragment(rem).cells > BufSize
    /\ a.rem \in Nat
    /\ a.rem # 0 => /\ a.rem = First(rem) + 1 /\ a.rem <= Parts
                    /\ Call.op \in {"output", "buffer"} /\ Sends(rem)
    /\ a.rem = 0 => Call.op \in {"drain", "direct"} \/ First(rem) = Parts

LEMMA MadeSized == Sized(Made)
  BY DEF Sized, Made

\* The fragment of an attempt.
LEMMA FragmentIs ==
    ASSUME IInv, pc = "try"
    PROVE  /\ Fragment(rem) \in Made /\ Parts \in Nat /\ First(rem) \in 1..Parts
           /\ Fragment(rem) = [call |-> Running, part |-> First(rem),
                               cells |-> Call.ev.cells[First(rem)], bad |-> Call.ev.bad]
           /\ First(rem) # Parts => Fragment(rem).cells > 0
           /\ Call \in CallSet /\ Running \in Nat \ {0} /\ Running \in 1..Running
           /\ WellFormed(Call.ev)
  <1>1. Running \in Nat \ {0}
    <2>1. Running > 0
      BY DEF IInv, InProgress
    <2>2. Running \in Nat
      BY LenProperties DEF IInv, Recorded, Running
    <2> QED
      BY <2>1, <2>2
  <1>2. Running \in 1..Running
    BY <1>1
  <1>3. Call \in CallSet
    <2>1. calls \in Seq(CallSet)
      BY DEF IInv, Recorded
    <2> QED
      BY <1>2, <2>1, ElementOfSeq DEF Call, Running
  <1>4. WellFormed(Call.ev)
    <2>1. user \in DOMAIN Users
      BY DEF IInv, TypeOK
    <2>2. Call.ev \in Events
      BY <1>3 DEF CallSet
    <2> QED
      BY <2>1, <2>2, EventsWellFormed
  <1>5. Parts \in Nat \ {0} /\ First(rem) \in 1..Parts
    <2>1. Parts \in Nat \ {0}
      BY <1>4 DEF Parts, WellFormed
    <2>2. rem \in Nat /\ (rem # 0 => rem \in 2..Parts)
      BY DEF IInv, TypeOK, InProgress
    <2> QED
      BY <2>1, <2>2 DEF First
  <1>6. Fragment(rem) = [call |-> Running, part |-> First(rem),
                         cells |-> Call.ev.cells[First(rem)], bad |-> Call.ev.bad]
    BY DEF Fragment, First
  <1>7. Call.ev.cells[First(rem)] \in Nat /\ Call.ev.bad \in BOOLEAN
    <2>1. Call.ev.cells \in Seq(Nat) /\ First(rem) \in 1..Len(Call.ev.cells) /\ Call.ev.bad \in BOOLEAN
      BY <1>4, <1>5 DEF WellFormed, Parts
    <2> QED
      BY <2>1, ElementOfSeq
  <1>8. Fragment(rem) \in Made
    BY <1>2, <1>5, <1>6, <1>7 DEF Made
  <1>9. First(rem) # Parts => Fragment(rem).cells > 0
    <2> SUFFICES ASSUME First(rem) # Parts
                 PROVE  Fragment(rem).cells > 0
      OBVIOUS
    <2>1. First(rem) \in 1..(Parts - 1)
      BY <1>5
    <2>2. Call.ev.cells[First(rem)] > 0
      BY <1>4, <2>1 DEF WellFormed, Parts
    <2> QED
      BY <1>6, <2>2
  <1> QED
    BY <1>1, <1>2, <1>3, <1>4, <1>5, <1>6, <1>8, <1>9

\* Every attempt comes to that.
LEMMA AttemptIs ==
    ASSUME IInv, pc = "try"
    PROVE  Attempted(func(rem))
  <1> DEFINE f == Fragment(rem)
             a == func(rem)
             d == snd_seq_drain_output(obuf, pool)
             h == snd_seq_event_output(f, obuf, pool)
  <1>1. /\ f \in Made /\ Parts \in Nat /\ First(rem) \in 1..Parts
        /\ First(rem) # Parts => f.cells > 0
        /\ Call.op \in Users[user].ops /\ f.cells \in Nat
    <2>1. Call \in CallSet /\ f \in Made
      BY FragmentIs
    <2>2. Call.op \in Users[user].ops /\ f.cells \in Nat
      BY <2>1 DEF CallSet, Made
    <2> QED
      BY <2>2, FragmentIs
  <1>2. Call.op \in {"output", "direct", "buffer", "drain"}
    <2>1. Users[user] \in Range(Users)
      BY DEF IInv, TypeOK, Range
    <2> QED
      BY <1>1, <2>1, OutputAssumption
  <1>3. /\ obuf \in Seq(Made) /\ pool \in Seq(Made) /\ Used(obuf) <= BufSize /\ Used(pool) <= PoolSize
        /\ BufSize \in Nat /\ PoolSize \in Nat /\ rem \in Nat
        /\ rem # 0 => rem \in 2..Parts /\ Call.op \notin {"drain", "direct"}
    BY OutputAssumption DEF IInv, TypeOK, Recorded, InProgress
  <1>4. Drained(Made, obuf, pool, d)
    BY <1>3, MadeSized, DrainIs
  <1>5. HandedOver(Made, f, obuf, pool, h)
    BY <1>1, <1>3, MadeSized, HandOver
  <1>6. /\ Call.op = "drain" => a.alsa = d /\ a.rem = 0
        /\ Call.op = "direct" => a.alsa = output(rem)
                                 /\ a.rem = IF f.cells = 0 THEN Remainder(rem) ELSE 0
        /\ Call.op \in {"output", "buffer"} => a.alsa = output(rem) /\ a.rem = Remainder(rem)
    BY <1>2 DEF func
  <1>7. Remainder(rem) = IF First(rem) < Parts THEN First(rem) + 1 ELSE 0
    BY DEF Remainder, First
  <1>8. output(rem) = IF f.cells = 0 THEN [obuf |-> obuf, pool |-> pool, result |-> "ok"] ELSE h
    BY DEF output
  <1> SUFFICES Attempted(a)
    OBVIOUS
  <1> HIDE DEF a, d, h, f
  <1>9. CASE Call.op = "drain"
    <2>1. a.alsa = d /\ a.rem = 0 /\ ~Sends(rem)
      BY <1>6, <1>9 DEF Sends
    <2>2. /\ d.obuf \in Seq(Made) /\ d.pool \in Seq(Made) /\ d.pool \o d.obuf = pool \o obuf
          /\ Used(d.pool) <= PoolSize /\ d.result \in Results
      BY <1>4 DEF Drained, Results
    <2>3. Used(d.obuf) <= BufSize
      <3>1. Used(d.obuf) \in Nat /\ Used(obuf) \in Nat /\ Used(d.obuf) <= Used(obuf)
        BY <1>3, <1>4, MadeSized, UsedType DEF Drained
      <3> QED
        BY <1>3, <3>1
    <2>4. d.result = "EAGAIN" =>
             d.obuf # <<>> /\ Used(d.pool) + Head(d.obuf).cells > PoolSize
      <3>1. d.result = "EAGAIN" => d.result \in {"partial", "EAGAIN"}
        OBVIOUS
      <3> QED
        BY <1>4, <3>1, Zenon DEF Drained
    <2> HIDE DEF d
    <2>5. a.rem \in Nat /\ ~ (a.rem # 0)
      BY <2>1
    <2>6. Call.op \in {"drain", "direct"}
      BY <1>9
    <2> QED
      BY <1>9, <2>1, <2>2, <2>3, <2>4, <2>5, <2>6, Zenon DEF Attempted
  <1>10. ASSUME Call.op # "drain"
         PROVE  /\ a.alsa = output(rem) /\ a.rem \in Nat
                /\ a.rem # 0 => /\ a.rem = First(rem) + 1 /\ a.rem <= Parts
                                /\ Call.op \in {"output", "buffer"} /\ First(rem) # Parts
                /\ a.rem = 0 => Call.op \in {"drain", "direct"} \/ First(rem) = Parts
    <2>1. Remainder(rem) \in Nat /\ (Remainder(rem) # 0 <=> First(rem) # Parts)
      BY <1>1, <1>7
    <2>2. Remainder(rem) # 0 => Remainder(rem) = First(rem) + 1 /\ Remainder(rem) <= Parts
      BY <1>1, <1>7
    <2>3. CASE Call.op = "direct"
      <3>1. a.rem = 0
        BY <1>1, <1>6, <2>1, <2>3
      <3> QED
        BY <1>6, <2>3, <3>1
    <2>4. CASE Call.op \in {"output", "buffer"}
      BY <1>6, <2>1, <2>2, <2>4
    <2> QED
      BY <1>2, <1>10, <2>3, <2>4
  <1>11. CASE Call.op # "drain" /\ f.cells = 0
    <2>1. a.alsa.obuf = obuf /\ a.alsa.pool = pool /\ a.alsa.result = "ok" /\ ~Sends(rem)
      BY <1>8, <1>10, <1>11 DEF Sends, f
    <2>2. /\ a.alsa.obuf \in Seq(Made) /\ a.alsa.pool \in Seq(Made)
          /\ Used(a.alsa.obuf) <= BufSize /\ Used(a.alsa.pool) <= PoolSize
          /\ a.alsa.pool \o a.alsa.obuf = pool \o obuf
          /\ a.alsa.result \in Results /\ a.alsa.result # "partial" /\ a.alsa.result # "EAGAIN"
      BY <1>3, <2>1 DEF Results
    <2>3. a.rem \in Nat /\ ~ (a.rem # 0)
      BY <1>1, <1>10, <1>11
    <2>4. a.rem = 0 => Call.op \in {"drain", "direct"} \/ First(rem) = Parts
      BY <1>10, <1>11
    <2> QED
      BY <2>1, <2>2, <2>3, <2>4, Zenon DEF Attempted
  <1>12. CASE Call.op # "drain" /\ f.cells # 0
    <2>1. a.alsa = h /\ Sends(rem)
      BY <1>1, <1>8, <1>10, <1>12 DEF Sends, f
    <2>2. /\ h.obuf \in Seq(Made) /\ h.pool \in Seq(Made)
          /\ Used(h.obuf) <= BufSize /\ Used(h.pool) <= PoolSize
          /\ h.result \in Results /\ h.result # "partial"
      BY <1>5 DEF HandedOver, Results
    <2>3. /\ h.result = "ok" => h.pool \o h.obuf = Append(pool \o obuf, f)
          /\ h.result # "ok" => h.pool \o h.obuf = pool \o obuf
          /\ h.result = "EAGAIN" =>
                /\ h.obuf # <<>> /\ Used(h.pool) + Head(h.obuf).cells > PoolSize
                /\ Used(h.obuf) + f.cells > BufSize
      BY <1>5, Zenon DEF HandedOver
    <2>4. /\ a.rem \in Nat
          /\ a.rem # 0 => /\ a.rem = First(rem) + 1 /\ a.rem <= Parts
                          /\ Call.op \in {"output", "buffer"} /\ Sends(rem)
          /\ a.rem = 0 => Call.op \in {"drain", "direct"} \/ First(rem) = Parts
      BY <1>10, <1>12, <2>1, Zenon
    <2> QED
      BY <2>1, <2>2, <2>3, <2>4, Zenon DEF Attempted, f
  <1> QED
    BY <1>9, <1>11, <1>12

-----------------------------------------------------------------------------
(* What is left of a sequence when some of it is taken away.               *)

\* The sequence s is what is left of t.
Thinned(s, t) ==
    \E h \in [1..Len(s) -> 1..Len(t)] :
        /\ \A i, j \in 1..Len(s) : i < j => h[i] < h[j]
        /\ \A i \in 1..Len(s) : s[i] = t[h[i]]

LEMMA ThinnedSame ==
    ASSUME NEW S, NEW t \in Seq(S)
    PROVE  Thinned(t, t)
  <1> DEFINE h == [i \in 1..Len(t) |-> i]
  <1>1. /\ h \in [1..Len(t) -> 1..Len(t)]
        /\ \A i, j \in 1..Len(t) : i < j => h[i] < h[j]
        /\ \A i \in 1..Len(t) : t[i] = t[h[i]]
    OBVIOUS
  <1> QED
    BY <1>1 DEF Thinned

LEMMA ThinnedEmpty ==
    ASSUME NEW S, NEW t \in Seq(S), NEW s \in Seq(S), Len(s) = 0
    PROVE  Thinned(s, t)
  <1> DEFINE h == [i \in 1..Len(s) |-> i]
  <1>1. \A i \in 1..Len(s) : FALSE
    OBVIOUS
  <1>2. h \in [1..Len(s) -> 1..Len(t)]
    BY <1>1
  <1> QED
    BY <1>1, <1>2 DEF Thinned

LEMMA ThinnedTail ==
    ASSUME NEW S, NEW t \in Seq(S), t # <<>>
    PROVE  Thinned(Tail(t), t)
  <1>1. /\ Len(Tail(t)) = Len(t) - 1 /\ Len(t) \in Nat
        /\ \A i \in 1..Len(Tail(t)) : Tail(t)[i] = t[i + 1]
    BY HeadTailProperties, LenProperties
  <1> DEFINE s == Tail(t)
             h == [i \in 1..Len(s) |-> i + 1]
  <1> HIDE DEF s
  <1>2. Len(s) = Len(t) - 1 /\ \A i \in 1..Len(s) : s[i] = t[i + 1]
    BY <1>1 DEF s
  <1>3. /\ h \in [1..Len(s) -> 1..Len(t)]
        /\ \A i, j \in 1..Len(s) : i < j => h[i] < h[j]
    BY <1>1, <1>2
  <1>4. \A i \in 1..Len(s) : s[i] = t[h[i]]
    BY <1>2
  <1>5. Thinned(s, t)
    <2> HIDE DEF h
    <2> QED
      BY <1>3, <1>4 DEF Thinned
  <1> QED
    BY <1>5 DEF s

\* One behind the other.
LEMMA ThinnedConcat ==
    ASSUME NEW S, NEW s \in Seq(S), NEW t \in Seq(S), NEW u \in Seq(S), NEW v \in Seq(S),
           Thinned(s, t), Thinned(u, v)
    PROVE  Thinned(s \o u, t \o v)
  <1> DEFINE su == s \o u
             tv == t \o v
  <1>1. /\ Len(su) = Len(s) + Len(u) /\ Len(tv) = Len(t) + Len(v)
        /\ \A i \in 1..(Len(s) + Len(u)) : su[i] = IF i <= Len(s) THEN s[i] ELSE u[i - Len(s)]
        /\ \A i \in 1..(Len(t) + Len(v)) : tv[i] = IF i <= Len(t) THEN t[i] ELSE v[i - Len(t)]
        /\ Len(s) \in Nat /\ Len(u) \in Nat /\ Len(t) \in Nat /\ Len(v) \in Nat
    BY ConcatProperties, LenProperties
  <1> HIDE DEF su, tv
  <1>2. PICK g \in [1..Len(s) -> 1..Len(t)] :
            /\ \A i, j \in 1..Len(s) : i < j => g[i] < g[j]
            /\ \A i \in 1..Len(s) : s[i] = t[g[i]]
    BY DEF Thinned
  <1>3. PICK h \in [1..Len(u) -> 1..Len(v)] :
            /\ \A i, j \in 1..Len(u) : i < j => h[i] < h[j]
            /\ \A i \in 1..Len(u) : u[i] = v[h[i]]
    BY DEF Thinned
  <1> DEFINE k == [i \in 1..Len(su) |-> IF i <= Len(s) THEN g[i] ELSE Len(t) + h[i - Len(s)]]
  <1>4. ASSUME NEW i \in 1..Len(su)
        PROVE  /\ i <= Len(s) => k[i] = g[i] /\ g[i] \in 1..Len(t) /\ i \in 1..Len(s)
               /\ ~(i <= Len(s)) => /\ k[i] = Len(t) + h[i - Len(s)]
                                    /\ h[i - Len(s)] \in 1..Len(v) /\ i - Len(s) \in 1..Len(u)
    <2>1. k[i] = IF i <= Len(s) THEN g[i] ELSE Len(t) + h[i - Len(s)]
      OBVIOUS
    <2>2. i <= Len(s) => i \in 1..Len(s)
      BY <1>1
    <2>3. ~(i <= Len(s)) => i - Len(s) \in 1..Len(u)
      BY <1>1
    <2>4. i - Len(s) \in 1..Len(u) => h[i - Len(s)] \in 1..Len(v)
      <3> DEFINE n == i - Len(s)
      <3> HIDE DEF n
      <3>1. n \in 1..Len(u) => h[n] \in 1..Len(v)
        OBVIOUS
      <3> QED
        BY <3>1 DEF n
    <2> HIDE DEF k
    <2> QED
      BY <2>1, <2>2, <2>3, <2>4
  <1>5. k \in [1..Len(su) -> 1..Len(tv)]
    <2>1. \A i \in 1..Len(su) : k[i] \in 1..Len(tv)
      <3> HIDE DEF k
      <3> TAKE i \in 1..Len(su)
      <3>1. CASE i <= Len(s)
        <4>1. k[i] \in 1..Len(t)
          BY <1>4, <3>1
        <4> QED
          BY <1>1, <4>1
      <3>2. CASE ~(i <= Len(s))
        <4>1. PICK n \in 1..Len(v) : k[i] = Len(t) + n
          BY <1>4, <3>2
        <4> QED
          BY <1>1, <4>1
      <3> QED
        BY <3>1, <3>2
    <2> QED
      BY <2>1
  <1> HIDE DEF k
  <1>6. ASSUME NEW i \in 1..Len(su), NEW j \in 1..Len(su), i < j
        PROVE  k[i] < k[j]
    <2>1. CASE j <= Len(s)
      <3>1. i <= Len(s) /\ i \in 1..Len(s) /\ j \in 1..Len(s)
        BY <1>1, <1>6, <2>1
      <3>2. g[i] < g[j]
        BY <1>2, <1>6, <3>1
      <3> QED
        BY <1>4, <2>1, <3>1, <3>2
    <2>2. CASE ~(j <= Len(s)) /\ i <= Len(s)
      BY <1>1, <1>4, <2>2
    <2>3. CASE ~(j <= Len(s)) /\ ~(i <= Len(s))
      <3>1. i - Len(s) < j - Len(s) /\ i - Len(s) \in 1..Len(u) /\ j - Len(s) \in 1..Len(u)
        BY <1>1, <1>4, <1>6, <2>3
      <3>2. h[i - Len(s)] < h[j - Len(s)]
        BY <1>3, <3>1
      <3>3. h[i - Len(s)] \in Int /\ h[j - Len(s)] \in Int
        <4>1. h[i - Len(s)] \in 1..Len(v) /\ h[j - Len(s)] \in 1..Len(v)
          BY <1>4, <2>3
        <4> QED
          BY <4>1
      <3>4. k[i] = Len(t) + h[i - Len(s)] /\ k[j] = Len(t) + h[j - Len(s)]
        BY <1>4, <2>3
      <3>5. \A x, y \in Int : x < y => Len(t) + x < Len(t) + y
        BY <1>1
      <3> QED
        BY <3>2, <3>3, <3>4, <3>5
    <2> QED
      BY <2>1, <2>2, <2>3
  <1>7. ASSUME NEW i \in 1..Len(su)
        PROVE  su[i] = tv[k[i]]
    <2>1. CASE i <= Len(s)
      <3>1. su[i] = s[i] /\ s[i] = t[g[i]] /\ k[i] = g[i] /\ g[i] \in 1..Len(t)
        BY <1>1, <1>2, <1>4, <2>1
      <3>2. tv[g[i]] = t[g[i]]
        BY <1>1, <3>1
      <3> QED
        BY <3>1, <3>2
    <2>2. CASE ~(i <= Len(s))
      <3>1. /\ i - Len(s) \in 1..Len(u) /\ h[i - Len(s)] \in 1..Len(v)
            /\ k[i] = Len(t) + h[i - Len(s)]
        BY <1>4, <2>2
      <3>2. su[i] = u[i - Len(s)]
        BY <1>1, <2>2
      <3>3. u[i - Len(s)] = v[h[i - Len(s)]]
        BY <1>3, <3>1
      <3>4. tv[Len(t) + h[i - Len(s)]] = v[h[i - Len(s)]]
        <4> DEFINE n == h[i - Len(s)]
        <4>1. n \in 1..Len(v)
          BY <3>1
        <4> HIDE DEF n
        <4>2. /\ Len(t) + n \in 1..(Len(t) + Len(v)) /\ ~(Len(t) + n <= Len(t))
              /\ (Len(t) + n) - Len(t) = n
          BY <1>1, <4>1
        <4>3. tv[Len(t) + n] = v[n]
          BY <1>1, <4>2
        <4> QED
          BY <4>3 DEF n
      <3> QED
        BY <3>1, <3>2, <3>3, <3>4
    <2> QED
      BY <2>1, <2>2
  <1>8. Thinned(su, tv)
    BY <1>5, <1>6, <1>7 DEF Thinned
  <1> QED
    BY <1>8 DEF su, tv

\* The fragments of a sequence are in the order of the calls and of their parts.
Before(f, g) == f.call < g.call \/ (f.call = g.call /\ f.part < g.part)
InOrder(t)   == \A i, j \in 1..Len(t) : i < j => Before(t[i], t[j])

LEMMA ThinnedKeeps ==
    ASSUME NEW S, NEW s \in Seq(S), NEW t \in Seq(S), Thinned(s, t)
    PROVE  /\ Range(s) \subseteq Range(t)
           /\ InOrder(t) => InOrder(s)
  <1>1. PICK h \in [1..Len(s) -> 1..Len(t)] :
            /\ \A i, j \in 1..Len(s) : i < j => h[i] < h[j]
            /\ \A i \in 1..Len(s) : s[i] = t[h[i]]
    BY DEF Thinned
  <1>2. Range(s) \subseteq Range(t)
    <2>1. DOMAIN s = 1..Len(s) /\ DOMAIN t = 1..Len(t)
      BY LenProperties
    <2>2. ASSUME NEW x \in Range(s)
          PROVE  x \in Range(t)
      <3>1. PICK i \in 1..Len(s) : x = s[i]
        BY <2>1 DEF Range
      <3>2. h[i] \in 1..Len(t) /\ x = t[h[i]]
        BY <1>1, <3>1
      <3> QED
        BY <2>1, <3>2 DEF Range
    <2> QED
      BY <2>2
  <1>3. ASSUME InOrder(t), NEW i \in 1..Len(s), NEW j \in 1..Len(s), i < j
        PROVE  Before(s[i], s[j])
    <2>1. h[i] < h[j] /\ h[i] \in 1..Len(t) /\ h[j] \in 1..Len(t)
      BY <1>1, <1>3
    <2>2. Before(t[h[i]], t[h[j]])
      BY <1>3, <2>1 DEF InOrder
    <2>3. s[i] = t[h[i]] /\ s[j] = t[h[j]]
      BY <1>1
    <2> QED
      BY <2>2, <2>3
  <1> QED
    BY <1>2, <1>3 DEF InOrder

\* The sequence s is what Without leaves of t.
Remains(S, s, t, X) ==
    /\ s \in Seq(S) /\ Thinned(s, t) /\ Used(s) <= Used(t)
    /\ Range(s) = {f \in Range(t) : f.call \notin X}

\* One fragment more, kept or not.
LEMMA RemainsNext ==
    ASSUME NEW S, Sized(S), NEW s, NEW t \in Seq(S), NEW X, Remains(S, s, t, X), NEW f \in S
    PROVE  /\ f.call \in X => Remains(S, s, Append(t, f), X)
           /\ f.call \notin X => Remains(S, Append(s, f), Append(t, f), X)
  <1>1. /\ s \in Seq(S) /\ Thinned(s, t) /\ Used(s) <= Used(t)
        /\ Range(s) = {g \in Range(t) : g.call \notin X}
    BY DEF Remains
  <1>2. /\ Append(s, f) = s \o <<f>> /\ Append(t, f) = t \o <<f>> /\ <<f>> \in Seq(S)
        /\ Append(s, f) \in Seq(S) /\ Append(t, f) \in Seq(S)
        /\ s \o <<f>> \in Seq(S) /\ t \o <<f>> \in Seq(S)
    <2>1. <<f>> \in Seq(S)
      OBVIOUS
    <2> QED
      BY <1>1, <2>1, AppendIsConcat, AppendProperties, ConcatProperties
  <1>3. Range(<<f>>) = {f}
    <2>1. DOMAIN <<f>> = {1} /\ <<f>>[1] = f
      OBVIOUS
    <2> QED
      BY <2>1 DEF Range
  <1>4. Range(t \o <<f>>) = Range(t) \union {f} /\ Range(s \o <<f>>) = Range(s) \union {f}
    <2>1. ASSUME NEW q \in Seq(S)
          PROVE  Range(q \o <<f>>) = Range(q) \union {f}
      <3>1. <<f>> \in Seq(S)
        OBVIOUS
      <3>2. Range(q \o <<f>>) = Range(q) \union Range(<<f>>)
        <4>1. \A u \in Seq(S) : Range(q \o u) = Range(q) \union Range(u)
          BY RangeConcatenation
        <4> QED
          BY <3>1, <4>1, Zenon
      <3> QED
        BY <1>3, <3>2
    <2> QED
      BY <1>1, <2>1
  <1>5. /\ Used(Append(s, f)) = Used(s) + f.cells /\ Used(Append(t, f)) = Used(t) + f.cells
        /\ Used(s) \in Nat /\ Used(t) \in Nat /\ f.cells \in Nat
    BY <1>1, UsedAppend, UsedType DEF Sized
  <1>6. ASSUME f.call \in X
        PROVE  Remains(S, s, Append(t, f), X)
    <2>1. Thinned(s, Append(t, f))
      <3>1. <<>> \in Seq(S) /\ Len(<<>>) = 0
        BY EmptySeq
      <3>2. Thinned(<<>>, <<f>>)
        BY <1>2, <3>1, ThinnedEmpty, Zenon
      <3>3. Thinned(s \o <<>>, t \o <<f>>)
        BY <1>1, <1>2, <3>1, <3>2, ThinnedConcat, Zenon
      <3>4. s \o <<>> = s
        BY <1>1, ConcatEmptySeq, Zenon
      <3> QED
        BY <1>2, <3>3, <3>4, Zenon
    <2>2. Used(s) <= Used(Append(t, f))
      BY <1>1, <1>5
    <2>3. Range(s) = {g \in Range(Append(t, f)) : g.call \notin X}
      BY <1>1, <1>2, <1>4, <1>6
    <2> QED
      BY <1>1, <2>1, <2>2, <2>3, Zenon DEF Remains
  <1>7. ASSUME f.call \notin X
        PROVE  Remains(S, Append(s, f), Append(t, f), X)
    <2>1. Thinned(Append(s, f), Append(t, f))
      <3>1. Thinned(<<f>>, <<f>>)
        BY <1>2, ThinnedSame, Zenon
      <3>2. Thinned(s \o <<f>>, t \o <<f>>)
        BY <1>1, <1>2, <3>1, ThinnedConcat, Zenon
      <3> QED
        BY <1>2, <3>2
    <2>2. Used(Append(s, f)) <= Used(Append(t, f))
      BY <1>1, <1>5
    <2>3. Range(Append(s, f)) = {g \in Range(Append(t, f)) : g.call \notin X}
      BY <1>1, <1>2, <1>4, <1>7
    <2> QED
      BY <1>2, <2>1, <2>2, <2>3, Zenon DEF Remains
  <1> QED
    BY <1>6, <1>7

LEMMA WithoutIs ==
    ASSUME NEW S, Sized(S), NEW b \in Seq(S), NEW X
    PROVE  Remains(S, Without(b, X), b, X)
  <1> DEFINE N == Len(b)
             T == Seq(S)
             step == [x \in (1..N) \X T |->
                         IF b[x[1]].call \in X THEN x[2] ELSE Append(x[2], b[x[1]])]
             R(F) == F = [n \in 0..N |-> IF n = 0 THEN <<>>
                                         ELSE IF b[n].call \in X THEN F[n - 1]
                                         ELSE Append(F[n - 1], b[n])]
             u == CHOOSE F : R(F)
  <1>1. N \in Nat /\ \A n \in 1..N : b[n] \in S
    BY LenProperties, ElementOfSeq
  <1>2. step \in [(1..N) \X T -> T]
    <2>1. ASSUME NEW x \in (1..N) \X T
          PROVE  (IF b[x[1]].call \in X THEN x[2] ELSE Append(x[2], b[x[1]])) \in T
      <3>1. x[1] \in 1..N /\ x[2] \in Seq(S) /\ b[x[1]] \in S
        BY <1>1
      <3>2. Append(x[2], b[x[1]]) \in Seq(S)
        BY <3>1, AppendProperties
      <3> QED
        BY <3>1, <3>2
    <2> QED
      BY <2>1
  <1>3. \E F : R(F)
    <2> HIDE DEF N
    <2>1. <<>> \in T
      BY EmptySeq
    <2> HIDE DEF T
    <2>2. PICK F : Recursion(F, N, <<>>, step)
      <3>1. N \in Nat
        BY <1>1
      <3> HIDE DEF step
      <3> QED
        BY <1>2, <2>1, <3>1, RecursionExists, Zenon
    <2>3. Obeys(F, N, T, <<>>, step)
      <3>1. N \in Nat
        BY <1>1
      <3> HIDE DEF step
      <3> QED
        BY <1>2, <2>1, <2>2, <3>1, RecursionType, Zenon
    <2>4. \A n \in 1..N : step[<<n, F[n - 1]>>] =
                             IF b[n].call \in X THEN F[n - 1] ELSE Append(F[n - 1], b[n])
      <3> TAKE n \in 1..N
      <3>1. F[n - 1] \in T
        <4>1. n - 1 \in 0..N
          BY <1>1
        <4> QED
          BY <2>3, <4>1 DEF Obeys
      <3> QED
        BY <3>1
    <2> HIDE DEF step
    <2>5. ASSUME NEW n \in 0..N
          PROVE  F[n] = IF n = 0 THEN <<>> ELSE IF b[n].call \in X THEN F[n - 1]
                                               ELSE Append(F[n - 1], b[n])
      <3>1. CASE n = 0
        BY <2>3, <3>1, Zenon DEF Obeys
      <3>2. CASE n # 0
        <4>1. n \in 1..N
          BY <1>1, <3>2
        <4> QED
          BY <2>3, <2>4, <3>2, <4>1, Zenon DEF Obeys
      <3> QED
        BY <3>1, <3>2
    <2>6. F = [n \in 0..N |-> F[n]]
      BY <2>3 DEF Obeys
    <2>7. R(F)
      <3>1. [n \in 0..N |-> F[n]] = [n \in 0..N |-> IF n = 0 THEN <<>>
                                                    ELSE IF b[n].call \in X THEN F[n - 1]
                                                    ELSE Append(F[n - 1], b[n])]
        BY <2>5
      <3> QED
        BY <2>6, <3>1
    <2> QED
      BY <2>7
  <1>4. R(u)
    <2> HIDE DEF R
    <2> QED
      BY <1>3
  <1>5. Without(b, X) = u[N]
    BY DEF Without
  <1> HIDE DEF u
  <1>6. u[0] = <<>>
    <2> HIDE DEF N
    <2>1. 0 \in 0..N
      BY <1>1
    <2> QED
      BY <1>4, <2>1, Zenon
  <1>7. \A n \in 1..N : u[n] = IF b[n].call \in X THEN u[n - 1] ELSE Append(u[n - 1], b[n])
    <2> HIDE DEF N
    <2> TAKE n \in 1..N
    <2>1. n \in 0..N /\ n # 0
      BY <1>1
    <2> QED
      BY <1>4, <2>1, Zenon
  <1> HIDE DEF step, R
  <1> DEFINE P == {n \in 0..N : Remains(S, u[n], SubSeq(b, 1, n), X)}
  <1>8. 0 \in P
    <2>1. SubSeq(b, 1, 0) = <<>>
      BY SubSeqEmpty
    <2>2. Range(<<>>) = {}
      BY DEF Range
    <2>3. <<>> \in Seq(S) /\ Len(<<>>) = 0
      BY EmptySeq
    <2>4. Used(<<>>) <= Used(<<>>)
      <3>1. Used(<<>>) = 0
        BY UsedEmpty
      <3>2. 0 <= 0
        OBVIOUS
      <3> QED
        BY <3>1, <3>2, Zenon
    <2>5. Thinned(<<>>, <<>>)
      BY <2>3, ThinnedSame, Zenon
    <2>6. Range(<<>>) = {f \in Range(<<>>) : f.call \notin X}
      BY <2>2, Zenon
    <2>7. Remains(S, u[0], SubSeq(b, 1, 0), X)
      BY <1>6, <2>1, <2>3, <2>4, <2>5, <2>6, Zenon DEF Remains
    <2>8. 0 \in 0..N
      BY <1>1
    <2> QED
      BY <2>7, <2>8, Zenon
  <1>9. ASSUME NEW n \in 0..(N - 1), n \in P
        PROVE  n + 1 \in P
    <2>1. n + 1 \in 1..N /\ n + 1 \in 0..N /\ (n + 1) - 1 = n /\ n \in 0..Len(b) /\ n < Len(b)
      BY <1>1
    <2>2. b[n + 1] \in S
      BY <1>1, <2>1
    <2>3. /\ SubSeq(b, 1, n) \in Seq(S)
          /\ SubSeq(b, 1, n + 1) = Append(SubSeq(b, 1, n), b[n + 1])
      BY <2>1, CutInTwo
    <2>4. Remains(S, u[n], SubSeq(b, 1, n), X)
      BY <1>9
    <2>5. u[n + 1] = IF b[n + 1].call \in X THEN u[n] ELSE Append(u[n], b[n + 1])
      BY <1>7, <2>1
    <2> HIDE DEF P
    <2>6. /\ b[n + 1].call \in X => Remains(S, u[n], SubSeq(b, 1, n + 1), X)
          /\ b[n + 1].call \notin X => Remains(S, Append(u[n], b[n + 1]), SubSeq(b, 1, n + 1), X)
      BY <2>2, <2>3, <2>4, RemainsNext
    <2>7. Remains(S, u[n + 1], SubSeq(b, 1, n + 1), X)
      BY <2>5, <2>6
    <2> QED
      BY <2>1, <2>7 DEF P
  <1>10. N \in P
    <2> HIDE DEF P, N
    <2>1. \A n \in 0..N : n \in P
      BY <1>1, <1>8, <1>9, UpTo
    <2> QED
      BY <1>1, <2>1
  <1>11. Remains(S, u[N], SubSeq(b, 1, Len(b)), X)
    BY <1>10
  <1>12. SubSeq(b, 1, Len(b)) = b
    BY SubSeqFull
  <1> QED
    BY <1>5, <1>11, <1>12

-----------------------------------------------------------------------------
(* Types.                                                                  *)

\* What TypeOK says beyond Recorded.
Bounded ==
    /\ user \in DOMAIN Users /\ Running <= Users[user].calls
    /\ Used(obuf) <= BufSize /\ Used(pool) <= PoolSize
    /\ dropped \subseteq 1..Running
    /\ pc \in {"idle", "try", "poll"} /\ rem \in Nat

LEMMA TypesHold == Bounded /\ Recorded => TypeOK
  <1> SUFFICES ASSUME Bounded, Recorded
               PROVE  TypeOK
    OBVIOUS
  <1>1. Running \in Nat /\ Users[user].calls \in Nat
    <2>1. Users[user] \in Range(Users)
      BY DEF Bounded, Range
    <2> QED
      BY <2>1, LenProperties, OutputAssumption DEF Recorded, Running
  <1>2. Made \subseteq Fragments
    BY <1>1 DEF Bounded, Made, Fragments
  <1>3. obuf \in Seq(Fragments) /\ pool \in Seq(Fragments) /\ delivered \in Seq(Fragments)
    <2>1. \A b \in Seq(Made) : b \in Seq(Fragments)
      BY <1>2, SeqMonotonic
    <2> QED
      BY <2>1 DEF Recorded
  <1>4. ASSUME NEW i \in 1..Running
        PROVE  /\ calls[i].op \in Users[user].ops
               /\ calls[i].result \in {"none", "ok", "partial", "EAGAIN", "EINVAL"}
    <2>1. calls[i] \in CallSet
      BY <1>4, ElementOfSeq DEF Recorded, Running
    <2> QED
      BY <2>1 DEF CallSet, Results
  <1> QED
    BY <1>3, <1>4 DEF TypeOK, Bounded

LEMMA Bounds == IInv => Bounded /\ Recorded /\ InProgress
  BY DEF IInv, TypeOK, Bounded

LEMMA InitIInv == Init => IInv
  <1> SUFFICES ASSUME Init
               PROVE  IInv
    OBVIOUS
  <1>1. user \in DOMAIN Users /\ obuf = <<>> /\ pool = <<>> /\ delivered = <<>> /\ calls = <<>>
        /\ dropped = {} /\ pc = "idle" /\ rem = 0
    BY DEF Init
  <1>2. Running = 0
    BY <1>1, EmptySeq, Zenon DEF Running
  <1>3. Recorded
    BY <1>1, EmptySeq, Zenon DEF Recorded
  <1>4. Bounded
    <2>1. Users[user] \in Range(Users)
      BY <1>1 DEF Range
    <2>2. Users[user].calls \in Nat /\ BufSize \in Nat /\ PoolSize \in Nat
      BY <2>1, OutputAssumption
    <2>3. Used(obuf) = 0 /\ Used(pool) = 0
      BY <1>1, UsedEmpty, Zenon
    <2> QED
      BY <1>1, <1>2, <2>2, <2>3 DEF Bounded
  <1>5. InProgress
    <2>1. \A i \in 1..Running : FALSE
      BY <1>2
    <2> QED
      BY <1>1, <2>1, Zenon DEF InProgress
  <1> QED
    BY <1>3, <1>4, <1>5, TypesHold DEF IInv

\* While no call begins, the sets of calls and of fragments stay what they are.
LEMMA SameSets ==
    ASSUME user' = user, Running' = Running
    PROVE  Made' = Made /\ CallSet' = CallSet /\ Events' = Events
  BY DEF Made, CallSet, Events

\* A call that returns.
LEMMA Returns ==
    ASSUME IInv, pc = "try", NEW r \in Results, Return(r)
    PROVE  /\ calls' \in Seq(CallSet) /\ Running' = Running
           /\ \A i \in 1..Running : /\ calls'[i].op = calls[i].op /\ calls'[i].ev = calls[i].ev
                                    /\ i # Running => calls'[i] = calls[i]
           /\ calls'[Running].result = r
           /\ pc' = "idle" /\ rem' = 0
  <1>1. Call \in CallSet /\ Running \in 1..Running /\ calls \in Seq(CallSet)
    BY FragmentIs DEF IInv, Recorded
  <1> DEFINE c == [Call EXCEPT !.result = r]
  <1>2. /\ c \in CallSet /\ c.op = Call.op /\ c.ev = Call.ev /\ c.result = r
    BY <1>1 DEF CallSet
  <1>3. calls' = [calls EXCEPT ![Running] = c] /\ pc' = "idle" /\ rem' = 0
    BY DEF Return, Call
  <1> HIDE DEF c
  <1>4. /\ calls' \in Seq(CallSet) /\ Len(calls') = Len(calls)
        /\ \A i \in 1..Len(calls) : calls'[i] = IF i = Running THEN c ELSE calls[i]
    BY <1>1, <1>2, <1>3, ExceptSeq DEF Running
  <1>5. ASSUME NEW i \in 1..Running
        PROVE  /\ calls'[i].op = calls[i].op /\ calls'[i].ev = calls[i].ev
               /\ i # Running => calls'[i] = calls[i]
    BY <1>2, <1>4 DEF Running, Call
  <1>6. calls'[Running].result = r
    BY <1>1, <1>2, <1>4 DEF Running
  <1> QED
    BY <1>3, <1>4, <1>5, <1>6 DEF Running

\* An attempt, after which the call goes on with a remainder or returns.
LEMMA AttemptKeeps ==
    ASSUME IInv, pc = "try", NEW a, Attempted(a),
           obuf' = a.alsa.obuf, pool' = a.alsa.pool, UNCHANGED <<user, delivered, dropped>>,
           \/ \E r \in Results : Return(r)
           \/ pc' \in {"try", "poll"} /\ rem' = a.rem /\ UNCHANGED calls
    PROVE  IInv'
  <1>1. Running \in 1..Running /\ Running \in Nat \ {0}
    BY FragmentIs
  <1>2. /\ calls' \in Seq(CallSet) /\ Running' = Running /\ pc' \in {"idle", "try", "poll"}
        /\ rem' \in Nat
    <2>1. CASE \E r \in Results : Return(r)
      <3>1. PICK r \in Results : Return(r)
        BY <2>1
      <3>2. calls' \in Seq(CallSet) /\ Running' = Running /\ pc' = "idle" /\ rem' = 0
        BY <3>1, Returns
      <3> QED
        BY <3>2
    <2>2. CASE pc' \in {"try", "poll"} /\ rem' = a.rem /\ UNCHANGED calls
      BY <2>2 DEF Attempted, IInv, Recorded, Running
    <2> QED
      BY <2>1, <2>2
  <1>3. Made' = Made /\ CallSet' = CallSet
    BY <1>2, SameSets
  <1>4. Recorded'
    <2>1. obuf' \in Seq(Made) /\ pool' \in Seq(Made) /\ delivered' \in Seq(Made)
      BY DEF Attempted, IInv, Recorded
    <2> QED
      BY <1>2, <1>3, <2>1 DEF Recorded
  <1>5. Bounded'
    <2>1. Used(obuf)' <= BufSize /\ Used(pool)' <= PoolSize
      <3>1. Used(obuf)' = Used(a.alsa.obuf) /\ Used(pool)' = Used(a.alsa.pool)
        BY DEF Used
      <3> QED
        BY <3>1 DEF Attempted
    <2> QED
      BY <1>2, <2>1 DEF IInv, TypeOK, Bounded
  <1>6. InProgress'
    <2>1. CASE \E r \in Results : Return(r)
      <3>1. PICK r \in Results : Return(r)
        BY <2>1
      <3>2. /\ \A i \in 1..Running : i # Running => calls'[i] = calls[i]
            /\ calls'[Running].result = r /\ pc' = "idle" /\ rem' = 0
        BY <3>1, Returns
      <3>3. ASSUME NEW i \in 1..Running
            PROVE  calls'[i].result # "none"
        <4>1. CASE i = Running
          BY <3>2, <4>1 DEF Results
        <4>2. CASE i # Running
          <5>1. calls'[i] = calls[i]
            BY <3>2, <4>2
          <5>2. calls[i].result # "none"
            BY <4>2 DEF IInv, InProgress
          <5> QED
            BY <5>1, <5>2
        <4> QED
          BY <4>1, <4>2
      <3> QED
        BY <1>2, <3>2, <3>3 DEF InProgress
    <2>2. CASE pc' \in {"try", "poll"} /\ rem' = a.rem /\ UNCHANGED calls
      <3>1. \A i \in 1..Running : calls[i].result = "none" <=> i = Running
        BY DEF IInv, InProgress
      <3>2. pc' # "idle" /\ calls' = calls /\ Running' = Running
        BY <2>2 DEF Running
      <3>3. Call' = Call /\ Parts' = Parts
        BY <2>2 DEF Call, Parts, Running
      <3>4. a.rem # 0 => a.rem \in 2..Parts /\ Call.op \notin {"drain", "direct"}
        <4> SUFFICES ASSUME a.rem # 0
                     PROVE  a.rem \in 2..Parts /\ Call.op \notin {"drain", "direct"}
          OBVIOUS
        <4>1. a.rem = First(rem) + 1 /\ a.rem <= Parts /\ Call.op \in {"output", "buffer"}
          BY DEF Attempted
        <4>2. First(rem) \in 1..Parts /\ Parts \in Nat
          BY FragmentIs
        <4> QED
          BY <4>1, <4>2
      <3>5. rem' # 0 => rem' \in 2..Parts' /\ Call'.op \notin {"drain", "direct"}
        BY <2>2, <3>3, <3>4
      <3> QED
        BY <1>1, <3>1, <3>2, <3>5 DEF InProgress
    <2> QED
      BY <2>1, <2>2
  <1>7. TypeOK'
    BY <1>4, <1>5, TypesHold, PTL
  <1> QED
    BY <1>4, <1>6, <1>7 DEF IInv

\* TryOnce and TryWait are such attempts.
LEMMA TryIs ==
    ASSUME IInv, TryOnce \/ TryWait
    PROVE  \E a : /\ a = func(rem) /\ pc = "try" /\ Attempted(a)
                  /\ obuf' = a.alsa.obuf /\ pool' = a.alsa.pool
                  /\ UNCHANGED <<user, delivered, dropped>>
                  /\ Len(Log) < MaxLog
                  /\ \/ /\ Return(a.alsa.result)
                        /\ \/ a.rem = 0
                           \/ ~Waits /\ a.alsa.result \in {"EAGAIN", "EINVAL"}
                        /\ Waits => a.alsa.result # "EAGAIN"
                     \/ /\ pc' \in {"try", "poll"} /\ rem' = a.rem /\ UNCHANGED calls
                        /\ \/ ~Waits /\ a.rem # 0 /\ a.alsa.result \notin {"EAGAIN", "EINVAL"}
                           \/ Waits /\ (a.alsa.result = "EAGAIN" \/ a.rem # 0)
  <1> DEFINE a == func(rem)
  <1>1. pc = "try"
    BY DEF TryOnce, TryWait
  <1>2. Attempted(a)
    BY <1>1, AttemptIs
  <1> HIDE DEF a
  <1>3. CASE TryOnce
    <2>1. /\ ~Waits /\ Len(Log) < MaxLog /\ obuf' = a.alsa.obuf /\ pool' = a.alsa.pool
          /\ UNCHANGED <<user, delivered, dropped>>
          /\ IF a.alsa.result \in {"EAGAIN", "EINVAL"} \/ a.rem = 0
               THEN Return(a.alsa.result)
               ELSE rem' = a.rem /\ UNCHANGED <<pc, calls>>
      BY <1>3 DEF TryOnce, a
    <2>2. CASE a.alsa.result \in {"EAGAIN", "EINVAL"} \/ a.rem = 0
      BY <1>1, <1>2, <2>1, <2>2 DEF a
    <2>3. CASE ~(a.alsa.result \in {"EAGAIN", "EINVAL"} \/ a.rem = 0)
      BY <1>1, <1>2, <2>1, <2>3 DEF a
    <2> QED
      BY <2>2, <2>3
  <1>4. CASE TryWait
    <2>1. /\ Waits /\ Len(Log) < MaxLog /\ obuf' = a.alsa.obuf /\ pool' = a.alsa.pool
          /\ UNCHANGED <<user, delivered, dropped>>
          /\ IF a.alsa.result # "EAGAIN" /\ a.rem = 0
               THEN Return(a.alsa.result)
               ELSE pc' = "poll" /\ rem' = a.rem /\ UNCHANGED calls
      BY <1>4 DEF TryWait, a
    <2>2. CASE a.alsa.result # "EAGAIN" /\ a.rem = 0
      BY <1>1, <1>2, <2>1, <2>2 DEF a
    <2>3. CASE ~(a.alsa.result # "EAGAIN" /\ a.rem = 0)
      BY <1>1, <1>2, <2>1, <2>3 DEF a
    <2> QED
      BY <2>2, <2>3
  <1> QED
    BY <1>3, <1>4

\* A step that leaves the calls alone and takes fragments from the buffers.
LEMMA TakenKeeps ==
    ASSUME IInv, UNCHANGED <<user, calls, rem>>, pc' = pc \/ (pc = "poll" /\ pc' = "try"),
           obuf' \in Seq(Made), pool' \in Seq(Made), delivered' \in Seq(Made),
           Used(obuf') <= BufSize, Used(pool') <= PoolSize, dropped' \subseteq 1..Running
    PROVE  IInv'
  <1>1. Running' = Running /\ Call' = Call /\ Parts' = Parts
    BY DEF Running, Call, Parts
  <1>2. Made' = Made /\ CallSet' = CallSet
    BY <1>1, SameSets
  <1>3. Recorded'
    BY <1>2 DEF IInv, Recorded
  <1>4. Bounded'
    <2>1. Used(obuf)' = Used(obuf') /\ Used(pool)' = Used(pool')
      BY DEF Used
    <2> QED
      BY <1>1, <2>1 DEF IInv, TypeOK, Bounded
  <1>5. InProgress'
    <2>1. pc' # "idle" <=> pc # "idle"
      OBVIOUS
    <2>2. \A i \in 1..Running : calls'[i] = calls[i]
      OBVIOUS
    <2>3. /\ pc # "idle" => Running > 0
          /\ \A i \in 1..Running : calls[i].result = "none" <=> (pc # "idle" /\ i = Running)
          /\ pc = "idle" => rem = 0
          /\ rem # 0 => rem \in 2..Parts /\ Call.op \notin {"drain", "direct"}
      BY DEF IInv, InProgress
    <2> QED
      BY <1>1, <2>1, <2>3, Zenon DEF InProgress
  <1>6. TypeOK'
    BY <1>3, <1>4, TypesHold, PTL
  <1> QED
    BY <1>3, <1>5, <1>6 DEF IInv

LEMMA BeginKeeps ==
    ASSUME IInv, NEW op \in Users[user].ops, NEW e \in Events, Begin(op, e)
    PROVE  IInv'
  <1> DEFINE c == [op |-> op, ev |-> e, result |-> "none"]
  <1>1. /\ pc = "idle" /\ Running < Users[user].calls /\ calls' = Append(calls, c) /\ pc' = "try"
        /\ UNCHANGED <<user, obuf, pool, delivered, dropped, rem>>
    BY DEF Begin
  <1>2. /\ calls \in Seq(CallSet) /\ Running \in Nat /\ Users[user].calls \in Nat
        /\ CallSet' = CallSet
    <2>1. Users[user] \in Range(Users)
      BY DEF IInv, TypeOK, Range
    <2>2. calls \in Seq(CallSet) /\ Running \in Nat
      BY LenProperties DEF IInv, Recorded, Running
    <2> QED
      BY <1>1, <2>1, <2>2, OutputAssumption DEF CallSet, Events
  <1>3. /\ calls' \in Seq(CallSet) /\ Running' = Running + 1 /\ c.result = "none"
        /\ \A i \in 1..Running : calls'[i] = calls[i]
        /\ calls'[Running + 1] = c
    <2>1. c \in CallSet /\ c.result = "none"
      BY DEF CallSet
    <2> HIDE DEF c
    <2> QED
      BY <1>1, <1>2, <2>1, AppendProperties DEF Running
  <1> HIDE DEF c
  <1>4. Recorded'
    <2>1. Made \subseteq Made'
      BY <1>2, <1>3 DEF Made
    <2>2. \A b \in Seq(Made) : b \in Seq(Made')
      BY <2>1, SeqMonotonic
    <2> QED
      BY <1>1, <1>2, <1>3, <2>2 DEF IInv, Recorded
  <1>5. Bounded'
    <2>1. Used(obuf)' = Used(obuf) /\ Used(pool)' = Used(pool)
      BY <1>1 DEF Used
    <2>2. 1..Running \subseteq 1..(Running + 1)
      BY <1>2
    <2> QED
      BY <1>1, <1>2, <1>3, <2>1, <2>2 DEF IInv, TypeOK, Bounded
  <1>6. InProgress'
    <2>1. rem' = 0
      BY <1>1 DEF IInv, InProgress
    <2>2. ASSUME NEW i \in 1..(Running + 1)
          PROVE  calls'[i].result = "none" <=> i = Running + 1
      <3>1. CASE i = Running + 1
        BY <1>3, <3>1
      <3>2. CASE i # Running + 1
        <4>1. i \in 1..Running
          BY <1>2, <3>2
        <4>2. calls[i].result # "none"
          BY <1>1, <4>1 DEF IInv, InProgress
        <4> QED
          BY <1>3, <3>2, <4>1, <4>2
      <3> QED
        BY <3>1, <3>2
    <2> QED
      BY <1>1, <1>2, <1>3, <2>1, <2>2 DEF InProgress
  <1>7. TypeOK'
    BY <1>4, <1>5, TypesHold, PTL
  <1> QED
    BY <1>4, <1>6, <1>7 DEF IInv

\* What was made of b by taking away fragments, all of the dropped calls.
Reduced(c, b, gone) ==
    /\ c \in Seq(Made) /\ Thinned(c, b) /\ Used(c) <= Used(b)
    /\ \A f \in Range(b) : f.call \notin gone => f \in Range(c)

\* The four calls that drop some.
Drops ==
    \/ DropOutputBuffer \/ DropOutput \/ ExtractOutput
    \/ \E X \in SUBSET (1..Running) : RemoveEvents(X)

LEMMA CallsOfIs ==
    ASSUME NEW b \in Seq(Made)
    PROVE  /\ CallsOf(b) \subseteq 1..Running
           /\ \A f \in Range(b) : f.call \in CallsOf(b)
  <1>1. DOMAIN b = 1..Len(b) /\ \A i \in 1..Len(b) : b[i] \in Made
    BY LenProperties, ElementOfSeq
  <1>2. ASSUME NEW i \in 1..Len(b)
        PROVE  b[i].call \in 1..Running
    BY <1>1 DEF Made
  <1>3. CallsOf(b) \subseteq 1..Running
    BY <1>1, <1>2 DEF CallsOf
  <1>4. ASSUME NEW f \in Range(b)
        PROVE  f.call \in CallsOf(b)
    BY DEF Range, CallsOf
  <1> QED
    BY <1>3, <1>4

LEMMA ReducedSame ==
    ASSUME NEW b \in Seq(Made), NEW gone
    PROVE  Reduced(b, b, gone)
  <1>1. Thinned(b, b) /\ Used(b) \in Nat
    BY MadeSized, ThinnedSame, UsedType
  <1> QED
    BY <1>1 DEF Reduced

LEMMA ReducedEmpty ==
    ASSUME NEW b \in Seq(Made), NEW gone, \A f \in Range(b) : f.call \in gone
    PROVE  Reduced(<<>>, b, gone)
  <1>1. <<>> \in Seq(Made) /\ Len(<<>>) = 0
    BY EmptySeq
  <1>2. Thinned(<<>>, b)
    BY <1>1, ThinnedEmpty, Zenon
  <1>3. Used(<<>>) <= Used(b)
    <2>1. Used(b) \in Nat
      BY MadeSized, UsedType
    <2>2. 0 <= Used(b)
      BY <2>1
    <2> QED
      BY <2>2, UsedEmpty, Zenon
  <1> QED
    BY <1>1, <1>2, <1>3, Zenon DEF Reduced

LEMMA DropsReduce ==
    ASSUME IInv, Drops
    PROVE  /\ pc = "idle" /\ UNCHANGED <<user, delivered, calls, pc, rem>>
           /\ dropped \subseteq dropped' /\ dropped' \subseteq 1..Running
           /\ Reduced(obuf', obuf, dropped') /\ Reduced(pool', pool, dropped')
  <1>1. obuf \in Seq(Made) /\ pool \in Seq(Made) /\ dropped \subseteq 1..Running
    BY DEF IInv, Recorded, TypeOK
  <1>2. CASE DropOutputBuffer
    <2>1. /\ pc = "idle" /\ dropped' = dropped \union CallsOf(obuf) /\ obuf' = <<>>
          /\ UNCHANGED <<user, pool, delivered, calls, pc, rem>>
      BY <1>2 DEF DropOutputBuffer
    <2>2. dropped' \subseteq 1..Running /\ \A f \in Range(obuf) : f.call \in dropped'
      BY <1>1, <2>1, CallsOfIs
    <2>3. Reduced(obuf', obuf, dropped')
      BY <1>1, <2>1, <2>2, ReducedEmpty, Zenon
    <2>4. Reduced(pool', pool, dropped')
      BY <1>1, <2>1, ReducedSame, Zenon
    <2> QED
      BY <2>1, <2>2, <2>3, <2>4
  <1>3. CASE DropOutput
    <2>1. /\ pc = "idle" /\ dropped' = dropped \union CallsOf(obuf \o pool)
          /\ obuf' = <<>> /\ pool' = <<>>
          /\ UNCHANGED <<user, delivered, calls, pc, rem>>
      BY <1>3 DEF DropOutput
    <2>2. /\ obuf \o pool \in Seq(Made)
          /\ Range(obuf \o pool) = Range(obuf) \union Range(pool)
      BY <1>1, ConcatProperties, RangeConcatenation
    <2>3. /\ dropped' \subseteq 1..Running
          /\ \A f \in Range(obuf \o pool) : f.call \in dropped'
      BY <1>1, <2>1, <2>2, CallsOfIs
    <2>4. Reduced(obuf', obuf, dropped') /\ Reduced(pool', pool, dropped')
      <3>1. /\ \A f \in Range(obuf) : f.call \in dropped'
            /\ \A f \in Range(pool) : f.call \in dropped'
        BY <2>2, <2>3
      <3> QED
        BY <1>1, <2>1, <3>1, ReducedEmpty, Zenon
    <2> QED
      BY <2>1, <2>3, <2>4
  <1>4. CASE ExtractOutput
    <2>1. /\ pc = "idle" /\ obuf # <<>> /\ dropped' = dropped \union {Head(obuf).call}
          /\ obuf' = Tail(obuf) /\ UNCHANGED <<user, pool, delivered, calls, pc, rem>>
      BY <1>4 DEF ExtractOutput
    <2>2. Head(obuf) \in Made /\ Tail(obuf) \in Seq(Made)
      BY <1>1, <2>1, HeadTailProperties
    <2>3. dropped' \subseteq 1..Running
      BY <1>1, <2>1, <2>2 DEF Made
    <2>4. Reduced(Tail(obuf), obuf, dropped')
      <3>1. Thinned(Tail(obuf), obuf)
        BY <1>1, <2>1, ThinnedTail
      <3>2. Used(Tail(obuf)) <= Used(obuf)
        <4>1. Used(obuf) = Head(obuf).cells + Used(Tail(obuf))
          BY <1>1, <2>1, MadeSized, UsedTail
        <4>2. Head(obuf).cells \in Nat /\ Used(Tail(obuf)) \in Nat
          BY <2>2, MadeSized, UsedType DEF Sized
        <4> QED
          BY <4>1, <4>2
      <3>3. ASSUME NEW f \in Range(obuf), f.call \notin dropped'
            PROVE  f \in Range(Tail(obuf))
        <4> DEFINE t == Tail(obuf)
        <4>1. /\ DOMAIN obuf = 1..Len(obuf) /\ DOMAIN t = 1..Len(t)
              /\ Len(t) = Len(obuf) - 1 /\ \A i \in 1..Len(t) : t[i] = obuf[i + 1]
              /\ Len(obuf) \in Nat /\ Head(obuf) = obuf[1]
          BY <1>1, <2>1, <2>2, HeadTailProperties, LenProperties
        <4> HIDE DEF t
        <4>2. PICK i \in 1..Len(obuf) : f = obuf[i]
          BY <4>1 DEF Range
        <4>3. i # 1
          BY <2>1, <3>3, <4>1, <4>2
        <4>4. i - 1 \in 1..Len(t) /\ (i - 1) + 1 = i
          BY <4>1, <4>3
        <4>5. t[i - 1] = f
          BY <4>1, <4>2, <4>4
        <4>6. f \in Range(t)
          BY <4>1, <4>4, <4>5 DEF Range
        <4> QED
          BY <4>6 DEF t
      <3> QED
        BY <2>2, <3>1, <3>2, <3>3, Zenon DEF Reduced
    <2>5. Reduced(pool', pool, dropped')
      BY <1>1, <2>1, ReducedSame, Zenon
    <2> QED
      BY <2>1, <2>3, <2>4, <2>5
  <1>5. CASE \E X \in SUBSET (1..Running) : RemoveEvents(X)
    <2>1. PICK X \in SUBSET (1..Running) : RemoveEvents(X)
      BY <1>5
    <2>2. /\ pc = "idle" /\ dropped' = dropped \union X
          /\ obuf' = Without(obuf, X) /\ pool' = Without(pool, X)
          /\ UNCHANGED <<user, delivered, calls, pc, rem>>
      BY <2>1 DEF RemoveEvents
    <2>3. dropped' \subseteq 1..Running
      BY <1>1, <2>2
    <2>4. ASSUME NEW b \in Seq(Made)
          PROVE  Reduced(Without(b, X), b, dropped')
      <3>1. Remains(Made, Without(b, X), b, X)
        BY MadeSized, WithoutIs
      <3> DEFINE w == Without(b, X)
      <3> HIDE DEF w
      <3>2. /\ w \in Seq(Made) /\ Thinned(w, b) /\ Used(w) <= Used(b)
            /\ Range(w) = {f \in Range(b) : f.call \notin X}
        BY <3>1 DEF Remains, w
      <3>3. \A f \in Range(b) : f.call \notin dropped' => f \in Range(w)
        BY <2>2, <3>2
      <3>4. Reduced(w, b, dropped')
        BY <3>2, <3>3, Zenon DEF Reduced
      <3> QED
        BY <3>4 DEF w
    <2> QED
      BY <1>1, <2>2, <2>3, <2>4
  <1> QED
    BY <1>2, <1>3, <1>4, <1>5 DEF Drops

LEMMA DropsKeep ==
    ASSUME IInv, Drops
    PROVE  IInv'
  <1>1. /\ UNCHANGED <<user, delivered, calls, pc, rem>> /\ dropped' \subseteq 1..Running
        /\ Reduced(obuf', obuf, dropped') /\ Reduced(pool', pool, dropped')
    BY DropsReduce
  <1>2. /\ obuf' \in Seq(Made) /\ pool' \in Seq(Made) /\ delivered' \in Seq(Made)
        /\ Used(obuf') <= Used(obuf) /\ Used(pool') <= Used(pool)
    BY <1>1 DEF Reduced, IInv, Recorded
  <1>3. Used(obuf') <= BufSize /\ Used(pool') <= PoolSize
    <2>1. /\ Used(obuf) <= BufSize /\ Used(pool) <= PoolSize
          /\ BufSize \in Nat /\ PoolSize \in Nat
      BY OutputAssumption DEF IInv, TypeOK
    <2>2. /\ Used(obuf) \in Nat /\ Used(obuf') \in Nat
          /\ Used(pool) \in Nat /\ Used(pool') \in Nat
      BY <1>2, MadeSized, UsedType DEF IInv, Recorded
    <2> QED
      BY <1>2, <2>1, <2>2
  <1> QED
    BY <1>1, <1>2, <1>3, TakenKeeps

LEMMA DeliverKeeps ==
    ASSUME IInv, Deliver
    PROVE  IInv'
  <1>1. /\ pool # <<>> /\ delivered' = Append(delivered, Head(pool)) /\ pool' = Tail(pool)
        /\ UNCHANGED <<user, obuf, calls, dropped, pc, rem>>
    BY DEF Deliver
  <1>2. /\ obuf \in Seq(Made) /\ pool \in Seq(Made) /\ delivered \in Seq(Made)
        /\ Used(obuf) <= BufSize /\ Used(pool) <= PoolSize /\ dropped \subseteq 1..Running
        /\ PoolSize \in Nat
    BY OutputAssumption DEF IInv, TypeOK, Recorded
  <1>3. Head(pool) \in Made /\ Tail(pool) \in Seq(Made) /\ Append(delivered, Head(pool)) \in Seq(Made)
    BY <1>1, <1>2, HeadTailProperties, AppendProperties
  <1>4. Used(Tail(pool)) <= PoolSize
    <2>1. Used(pool) = Head(pool).cells + Used(Tail(pool))
      BY <1>1, <1>2, MadeSized, UsedTail
    <2>2. Head(pool).cells \in Nat /\ Used(Tail(pool)) \in Nat
      BY <1>3, MadeSized, UsedType DEF Sized
    <2> QED
      BY <1>2, <2>1, <2>2
  <1> QED
    BY <1>1, <1>2, <1>3, <1>4, TakenKeeps

LEMMA NextIInv == IInv /\ [Next]_vars => IInv'
  <1> SUFFICES ASSUME IInv, [Next]_vars
               PROVE  IInv'
    OBVIOUS
  <1>1. CASE Next
    <2>1. ASSUME NEW op \in Users[user].ops, NEW e \in Users[user].events, Begin(op, e)
          PROVE  IInv'
      <3>1. e \in Events
        BY DEF Events
      <3> QED
        BY <2>1, <3>1, BeginKeeps
    <2>2. CASE BeginDrain
      <3>1. Begin("drain", Nothing) /\ Nothing \in Events /\ "drain" \in Users[user].ops
        BY <2>2 DEF BeginDrain, Nothing, Events
      <3> QED
        BY <3>1, BeginKeeps
    <2>3. CASE TryOnce \/ TryWait
      <3>1. PICK a : /\ pc = "try" /\ Attempted(a)
                     /\ obuf' = a.alsa.obuf /\ pool' = a.alsa.pool
                     /\ UNCHANGED <<user, delivered, dropped>>
                     /\ \/ Return(a.alsa.result)
                        \/ pc' \in {"try", "poll"} /\ rem' = a.rem /\ UNCHANGED calls
        BY <2>3, TryIs, Zenon
      <3>2. \/ \E r \in Results : Return(r)
            \/ pc' \in {"try", "poll"} /\ rem' = a.rem /\ UNCHANGED calls
        BY <3>1, Zenon DEF Attempted
      <3> QED
        BY <3>1, <3>2, AttemptKeeps
    <2>4. CASE Poll
      <3>1. /\ pc = "poll" /\ pc' = "try"
            /\ UNCHANGED <<user, obuf, pool, delivered, calls, dropped, rem>>
        BY <2>4 DEF Poll
      <3> QED
        BY <3>1, TakenKeeps DEF IInv, TypeOK, Recorded
    <2>5. CASE Drops
      BY <2>5, DropsKeep
    <2>6. CASE Deliver
      BY <2>6, DeliverKeeps
    <2> QED
      BY <1>1, <2>1, <2>2, <2>3, <2>4, <2>5, <2>6 DEF Next, Drops
  <1>2. CASE UNCHANGED vars
    <2>1. UNCHANGED <<user, obuf, pool, delivered, calls, dropped, pc, rem>>
      BY <1>2 DEF vars
    <2> QED
      BY <2>1, TakenKeeps DEF IInv, TypeOK, Recorded
  <1> QED
    BY <1>1, <1>2

\* Neither buffer is overfilled and every variable has its type, whatever is
\* sent, buffered, drained, waited for, dropped and delivered.
THEOREM OutputTypeOK == Spec => []TypeOK
  <1>1. IInv => TypeOK
    BY DEF IInv
  <1> QED
    BY <1>1, InitIInv, NextIInv, PTL DEF Spec

\* EAGAIN is raised only when the pool cannot take the oldest event of the
\* output buffer, nor the output buffer the one that was to be sent.
THEOREM OutputEagainMeansBothFull == Spec => EagainMeansBothFull
  <1> DEFINE Full(c) ==
                calls[c].result = "none" /\ calls'[c].result = "EAGAIN" =>
                    /\ obuf' # <<>>
                    /\ Used(pool') + Head(obuf').cells > PoolSize
                    /\ calls[c].op # "drain" =>
                          \E n \in Range(calls[c].ev.cells) : Used(obuf') + n > BufSize
             A == \A c \in 1..Running : Full(c)
  <1>1. IInv /\ [Next]_vars => [A]_vars
    <2> SUFFICES ASSUME IInv, Next, NEW c \in 1..Running,
                        calls[c].result = "none", calls'[c].result = "EAGAIN"
                 PROVE  /\ obuf' # <<>>
                        /\ Used(pool') + Head(obuf').cells > PoolSize
                        /\ calls[c].op # "drain" =>
                              \E n \in Range(calls[c].ev.cells) : Used(obuf') + n > BufSize
      OBVIOUS
    <2>1. c = Running /\ pc # "idle" /\ calls'[c] # calls[c]
      BY DEF IInv, InProgress
    <2>2. TryOnce \/ TryWait
      <3>1. pc # "idle" /\ calls' # calls
        BY <2>1
      <3> QED
        BY <3>1 DEF Next, Begin, BeginDrain, Poll, DropOutputBuffer, DropOutput, ExtractOutput,
                    RemoveEvents, Deliver
    <2>3. PICK a : /\ pc = "try" /\ Attempted(a) /\ obuf' = a.alsa.obuf /\ pool' = a.alsa.pool
                   /\ \/ Return(a.alsa.result)
                      \/ UNCHANGED calls
      BY <2>2, TryIs, Zenon
    <2>4. Return(a.alsa.result) /\ a.alsa.result \in Results
      BY <2>1, <2>3, Zenon DEF Attempted
    <2>5. a.alsa.result = "EAGAIN"
      <3>1. calls'[Running].result = a.alsa.result
        BY <2>3, <2>4, Returns
      <3> QED
        BY <2>1, <3>1
    <2>6. /\ a.alsa.obuf # <<>> /\ Used(a.alsa.pool) + Head(a.alsa.obuf).cells > PoolSize
          /\ Call.op # "drain" => Used(a.alsa.obuf) + Fragment(rem).cells > BufSize
      BY <2>3, <2>5, Zenon DEF Attempted
    <2>7. Fragment(rem).cells \in Range(Call.ev.cells)
      <3>1. /\ Fragment(rem).cells = Call.ev.cells[First(rem)] /\ First(rem) \in 1..Parts
            /\ WellFormed(Call.ev)
        BY <2>3, FragmentIs
      <3>2. DOMAIN Call.ev.cells = 1..Parts
        BY <3>1, LenProperties DEF WellFormed, Parts
      <3> QED
        BY <3>1, <3>2 DEF Range
    <2>8. Call = calls[c]
      BY <2>1 DEF Call
    <2>9. /\ obuf' # <<>> /\ Used(pool') + Head(obuf').cells > PoolSize
          /\ Call.op # "drain" => Used(obuf') + Fragment(rem).cells > BufSize
      BY <2>3, <2>6, Zenon
    <2> QED
      BY <2>7, <2>8, <2>9, Zenon
  <1>2. EagainMeansBothFull <=> [][A]_vars
    BY DEF EagainMeansBothFull
  <1> HIDE DEF A
  <1> QED
    BY <1>1, <1>2, InitIInv, NextIInv, PTL DEF Spec

-----------------------------------------------------------------------------
(* The stream: what each step does to everything accepted so far.          *)

LEMMA RangeAppend ==
    ASSUME NEW S, NEW b \in Seq(S), NEW f \in S
    PROVE  Range(Append(b, f)) = Range(b) \union {f}
  <1>1. <<f>> \in Seq(S) /\ Append(b, f) = b \o <<f>>
    BY AppendIsConcat
  <1>2. Range(b \o <<f>>) = Range(b) \union Range(<<f>>)
    <2>1. \A s \in Seq(S) : Range(b \o s) = Range(b) \union Range(s)
      BY RangeConcatenation
    <2> QED
      BY <1>1, <2>1, Zenon
  <1>3. Range(<<f>>) = {f}
    <2>1. DOMAIN <<f>> = {1} /\ <<f>>[1] = f
      OBVIOUS
    <2> QED
      BY <2>1 DEF Range
  <1> QED
    BY <1>1, <1>2, <1>3

LEMMA AppendToConcat ==
    ASSUME NEW S, NEW d \in Seq(S), NEW b \in Seq(S), NEW f \in S
    PROVE  d \o Append(b, f) = Append(d \o b, f)
  <1> DEFINE one == <<f>>
  <1>1. one \in Seq(S) /\ Append(b, f) = b \o one
    BY AppendIsConcat
  <1>2. d \o b \in Seq(S)
    BY ConcatProperties
  <1>3. Append(d \o b, f) = (d \o b) \o one
    BY <1>2, AppendIsConcat
  <1> HIDE DEF one
  <1>4. (d \o b) \o one = d \o (b \o one)
    BY <1>1, ConcatAssociative
  <1> QED
    BY <1>1, <1>3, <1>4, Zenon

LEMMA LogIs ==
    ASSUME NEW d \in Seq(Made), NEW p \in Seq(Made), NEW b \in Seq(Made)
    PROVE  /\ d \o p \o b \in Seq(Made) /\ p \o b \in Seq(Made)
           /\ d \o p \o b = d \o (p \o b)
           /\ Range(d \o p \o b) = Range(d) \union Range(p) \union Range(b)
  <1>1. d \o p \in Seq(Made) /\ p \o b \in Seq(Made)
    BY ConcatProperties
  <1>2. (d \o p) \o b \in Seq(Made)
    BY <1>1, ConcatProperties
  <1>3. (d \o p) \o b = d \o (p \o b)
    BY ConcatAssociative
  <1>4. Range((d \o p) \o b) = Range(d \o p) \union Range(b)
    <2>1. \A s \in Seq(Made) : Range(s \o b) = Range(s) \union Range(b)
      BY RangeConcatenation
    <2> QED
      BY <1>1, <2>1, Zenon
  <1>5. Range(d \o p) = Range(d) \union Range(p)
    BY RangeConcatenation
  <1> QED
    BY <1>1, <1>2, <1>3, <1>4, <1>5

LEMMA LogType ==
    ASSUME IInv
    PROVE  /\ Log \in Seq(Made) /\ Len(Log) \in Nat
           /\ Log = delivered \o (pool \o obuf) /\ pool \o obuf \in Seq(Made)
           /\ Range(Log) = Range(delivered) \union Range(pool) \union Range(obuf)
           /\ \A f \in Range(Log) : f.call \in 1..Running /\ f.part \in Nat
  <1>1. delivered \in Seq(Made) /\ pool \in Seq(Made) /\ obuf \in Seq(Made)
    BY DEF IInv, Recorded
  <1>2. /\ Log \in Seq(Made) /\ pool \o obuf \in Seq(Made)
        /\ Log = delivered \o (pool \o obuf)
        /\ Range(Log) = Range(delivered) \union Range(pool) \union Range(obuf)
    BY <1>1, LogIs DEF Log
  <1>3. Len(Log) \in Nat /\ Range(Log) \in SUBSET Made
    BY <1>2, LenProperties, RangeOfSeq
  <1>4. ASSUME NEW f \in Range(Log)
        PROVE  f.call \in 1..Running /\ f.part \in Nat
    <2>1. f \in Made
      BY <1>3
    <2> QED
      BY <2>1 DEF Made
  <1> QED
    BY <1>2, <1>3, <1>4

LEMMA RangeAttempt ==
    ASSUME IInv, pc = "try"
    PROVE  Range(Append(Log, Fragment(rem))) = Range(Log) \union {Fragment(rem)}
  <1>1. Log \in Seq(Made)
    BY LogType
  <1>2. Fragment(rem) \in Made
    BY FragmentIs
  <1>3. \A f \in Made : Range(Append(Log, f)) = Range(Log) \union {f}
    BY <1>1, RangeAppend
  <1> QED
    BY <1>2, <1>3, Zenon

\* An attempt adds its fragment, or nothing.
LEMMA AttemptLog ==
    ASSUME IInv, pc = "try", NEW a, Attempted(a),
           obuf' = a.alsa.obuf, pool' = a.alsa.pool, delivered' = delivered
    PROVE  /\ a.alsa.result = "ok" /\ Sends(rem) =>
                 /\ Log' = Append(Log, Fragment(rem))
                 /\ pool' \o obuf' = Append(pool \o obuf, Fragment(rem))
           /\ a.alsa.result # "ok" \/ ~Sends(rem) =>
                 Log' = Log /\ pool' \o obuf' = pool \o obuf
  <1>1. /\ delivered \in Seq(Made) /\ obuf' \in Seq(Made) /\ pool' \in Seq(Made)
        /\ pool \o obuf \in Seq(Made) /\ Log = delivered \o (pool \o obuf)
    BY LogType DEF Attempted, IInv, Recorded
  <1>2. Log' = delivered \o (pool' \o obuf')
    <2>1. Log' = delivered \o pool' \o obuf'
      BY DEF Log
    <2>2. delivered \o pool' \o obuf' = delivered \o (pool' \o obuf')
      <3> DEFINE p == pool'
                 b == obuf'
      <3>1. p \in Seq(Made) /\ b \in Seq(Made) /\ delivered \in Seq(Made)
        BY <1>1
      <3> HIDE DEF p, b
      <3>2. delivered \o p \o b = delivered \o (p \o b)
        BY <3>1, LogIs
      <3> QED
        BY <3>2 DEF p, b
    <2> QED
      BY <2>1, <2>2, Zenon
  <1>3. CASE a.alsa.result = "ok" /\ Sends(rem)
    <2> DEFINE f == Fragment(rem)
               b == pool \o obuf
    <2>1. pool' \o obuf' = Append(b, f)
      BY <1>3 DEF Attempted
    <2>2. f \in Made
      BY FragmentIs
    <2>3. b \in Seq(Made) /\ Log = delivered \o b
      BY <1>1
    <2> HIDE DEF f, b
    <2>4. delivered \o Append(b, f) = Append(delivered \o b, f)
      BY <1>1, <2>2, <2>3, AppendToConcat
    <2>5. Log' = Append(Log, f)
      BY <1>2, <2>1, <2>3, <2>4, Zenon
    <2> QED
      BY <1>3, <2>1, <2>5 DEF f, b
  <1>4. CASE ~ (a.alsa.result = "ok" /\ Sends(rem))
    <2>1. pool' \o obuf' = pool \o obuf
      BY <1>4, Zenon DEF Attempted
    <2> QED
      BY <1>1, <1>2, <1>4, <2>1
  <1> QED
    BY <1>3, <1>4

\* Taking fragments away takes nothing of the calls that are not dropped.
LEMMA DropsLog ==
    ASSUME IInv, Drops
    PROVE  /\ Log' \in Seq(Made) /\ Thinned(Log', Log)
           /\ pool' \o obuf' \in Seq(Made) /\ Thinned(pool' \o obuf', pool \o obuf)
           /\ \A f \in Range(Log) : f.call \notin dropped' => f \in Range(Log')
  <1>1. /\ delivered' = delivered /\ delivered \in Seq(Made)
        /\ pool \in Seq(Made) /\ obuf \in Seq(Made)
        /\ Reduced(obuf', obuf, dropped') /\ Reduced(pool', pool, dropped')
    BY DropsReduce DEF IInv, Recorded
  <1>2. /\ obuf' \in Seq(Made) /\ Thinned(obuf', obuf)
        /\ pool' \in Seq(Made) /\ Thinned(pool', pool)
        /\ \A f \in Range(obuf) : f.call \notin dropped' => f \in Range(obuf')
        /\ \A f \in Range(pool) : f.call \notin dropped' => f \in Range(pool')
    BY <1>1, Zenon DEF Reduced
  <1> DEFINE b == pool \o obuf
             c == pool' \o obuf'
  <1>3. b \in Seq(Made) /\ c \in Seq(Made) /\ Thinned(c, b)
    <2>1. b \in Seq(Made) /\ c \in Seq(Made)
      BY <1>1, <1>2, ConcatProperties
    <2>2. Thinned(c, b)
      BY <1>1, <1>2, ThinnedConcat, Zenon
    <2> QED
      BY <2>1, <2>2
  <1>4. /\ Log = delivered \o b /\ Log' = delivered \o c
        /\ Range(Log) = Range(delivered) \union Range(pool) \union Range(obuf)
        /\ Range(Log') = Range(delivered) \union Range(pool') \union Range(obuf')
        /\ Log' \in Seq(Made)
    <2>1. Log = delivered \o pool \o obuf /\ Log' = delivered \o pool' \o obuf'
      BY <1>1 DEF Log
    <2>2. ASSUME NEW p \in Seq(Made), NEW q \in Seq(Made)
          PROVE  /\ delivered \o p \o q = delivered \o (p \o q)
                 /\ delivered \o p \o q \in Seq(Made)
                 /\ Range(delivered \o p \o q) = Range(delivered) \union Range(p) \union Range(q)
      <3>1. delivered \in Seq(Made)
        BY <1>1
      <3> QED
        BY <3>1, LogIs
    <2>3. pool \in Seq(Made) /\ obuf \in Seq(Made) /\ pool' \in Seq(Made) /\ obuf' \in Seq(Made)
      BY <1>1, <1>2
    <2>4. /\ delivered \o pool \o obuf = delivered \o b
          /\ Range(delivered \o pool \o obuf) = Range(delivered) \union Range(pool) \union Range(obuf)
      BY <2>2, <2>3
    <2>5. /\ delivered \o pool' \o obuf' = delivered \o c
          /\ delivered \o pool' \o obuf' \in Seq(Made)
          /\ Range(delivered \o pool' \o obuf') = Range(delivered) \union Range(pool') \union Range(obuf')
      BY <2>2, <2>3
    <2> HIDE DEF b, c
    <2> QED
      BY <2>1, <2>4, <2>5
  <1> HIDE DEF b, c
  <1>5. Thinned(delivered \o c, delivered \o b)
    <2>1. Thinned(delivered, delivered)
      BY <1>1, ThinnedSame, Zenon
    <2> QED
      BY <1>1, <1>3, <2>1, ThinnedConcat, Zenon
  <1>6. Thinned(Log', Log)
    BY <1>4, <1>5
  <1>7. \A f \in Range(Log) : f.call \notin dropped' => f \in Range(Log')
    BY <1>2, <1>4
  <1> QED
    BY <1>3, <1>4, <1>6, <1>7 DEF b, c

LEMMA DeliverLog ==
    ASSUME IInv, Deliver
    PROVE  /\ Log' = Log /\ pool \o obuf # <<>>
           /\ Head(pool) = Head(pool \o obuf)
           /\ Tail(pool) \o obuf = Tail(pool \o obuf)
  <1>1. /\ pool # <<>> /\ delivered' = Append(delivered, Head(pool)) /\ pool' = Tail(pool)
        /\ obuf' = obuf
        /\ obuf \in Seq(Made) /\ pool \in Seq(Made) /\ delivered \in Seq(Made)
    BY DEF Deliver, IInv, Recorded
  <1> DEFINE h == Head(pool)
             t == Tail(pool)
  <1>2. h \in Made /\ t \in Seq(Made) /\ pool = <<h>> \o t /\ <<h>> \in Seq(Made)
    BY <1>1, HeadTailProperties
  <1> HIDE DEF h, t
  <1>3. Append(delivered, h) = delivered \o <<h>>
    BY <1>1, <1>2, AppendIsConcat
  <1>4. (delivered \o <<h>>) \o t = delivered \o (<<h>> \o t)
    BY <1>1, <1>2, ConcatAssociative
  <1>5. Log' = Log
    BY <1>1, <1>2, <1>3, <1>4 DEF Log, h, t
  <1>6. pool \o obuf = <<h>> \o (t \o obuf) /\ t \o obuf \in Seq(Made)
    BY <1>1, <1>2, ConcatAssociative, ConcatProperties
  <1> DEFINE u == t \o obuf
  <1>7. u \in Seq(Made)
    BY <1>6
  <1> HIDE DEF u
  <1>8. /\ <<h>> \o u # <<>> /\ Head(<<h>> \o u) = h /\ Tail(<<h>> \o u) = u
    BY <1>2, <1>7
  <1> QED
    BY <1>5, <1>6, <1>8, Zenon DEF u, h, t

-----------------------------------------------------------------------------
(* The invariant of the stream.  A call that waits goes back to the first  *)
(* fragment whose hand-over failed only if it is the only one: the stream  *)
(* is in order as long as SequencerClient is given events of one fragment. *)

SinglyWaited == \A u \in Range(Users) : u.waits => \A e \in u.events : Len(e.cells) = 1

Streamed ==
    /\ InOrder(Log)
    /\ pc # "idle" => \A f \in Range(Log) : f.call = Running => f.part < First(rem)
    /\ rem <= Len(Log) + 1

LEMMA WaitedIsSingle ==
    ASSUME SinglyWaited, IInv, pc = "try", Waits
    PROVE  Parts = 1 /\ First(rem) = 1
  <1>1. Users[user] \in Range(Users) /\ Users[user].waits
    BY DEF IInv, TypeOK, Range, Waits
  <1>2. Call.ev \in Events
    BY FragmentIs DEF CallSet
  <1>3. \A e \in Users[user].events : Len(e.cells) = 1
    BY <1>1, Zenon DEF SinglyWaited
  <1>4. Len(Nothing.cells) = 1
    BY DEF Nothing
  <1>5. Parts = 1
    BY <1>2, <1>3, <1>4 DEF Events, Parts
  <1>6. First(rem) \in 1..Parts
    BY FragmentIs
  <1> QED
    BY <1>5, <1>6

\* How an attempt ends: the call goes on with the next fragment, goes on with the
\* only one, which is refused for now, or returns.
LEMMA AttemptEnds ==
    ASSUME SinglyWaited, IInv, TryOnce \/ TryWait
    PROVE  \E a : /\ pc = "try" /\ Attempted(a) /\ a = func(rem)
                  /\ obuf' = a.alsa.obuf /\ pool' = a.alsa.pool
                  /\ UNCHANGED <<user, delivered, dropped>>
                  /\ Len(Log) < MaxLog
                  /\ \/ /\ pc' \in {"try", "poll"} /\ UNCHANGED calls
                        /\ rem' = First(rem) + 1 /\ Sends(rem) /\ a.alsa.result = "ok"
                     \/ /\ pc' \in {"try", "poll"} /\ UNCHANGED calls
                        /\ rem' = 0 /\ First(rem) = 1 /\ a.alsa.result = "EAGAIN"
                     \/ /\ Return(a.alsa.result)
                        /\ \/ Call.op \in {"drain", "direct"}
                           \/ First(rem) = Parts
                           \/ a.alsa.result \in {"EAGAIN", "EINVAL"}
  <1>1. PICK a : /\ a = func(rem) /\ pc = "try" /\ Attempted(a)
                 /\ obuf' = a.alsa.obuf /\ pool' = a.alsa.pool
                 /\ UNCHANGED <<user, delivered, dropped>>
                 /\ Len(Log) < MaxLog
                 /\ \/ /\ Return(a.alsa.result)
                       /\ \/ a.rem = 0
                          \/ ~Waits /\ a.alsa.result \in {"EAGAIN", "EINVAL"}
                       /\ Waits => a.alsa.result # "EAGAIN"
                    \/ /\ pc' \in {"try", "poll"} /\ rem' = a.rem /\ UNCHANGED calls
                       /\ \/ ~Waits /\ a.rem # 0 /\ a.alsa.result \notin {"EAGAIN", "EINVAL"}
                          \/ Waits /\ (a.alsa.result = "EAGAIN" \/ a.rem # 0)
    BY TryIs, Zenon
  <1>2. /\ a.alsa.result \in Results
        /\ Call.op # "drain" => a.alsa.result # "partial"
        /\ a.rem # 0 => /\ a.rem = First(rem) + 1 /\ a.rem <= Parts
                        /\ Call.op \in {"output", "buffer"} /\ Sends(rem)
        /\ a.rem = 0 => Call.op \in {"drain", "direct"} \/ First(rem) = Parts
    BY <1>1, Zenon DEF Attempted
  <1>3. CASE Return(a.alsa.result) /\ (a.rem = 0 \/ a.alsa.result \in {"EAGAIN", "EINVAL"})
    <2>1. \/ Call.op \in {"drain", "direct"}
          \/ First(rem) = Parts
          \/ a.alsa.result \in {"EAGAIN", "EINVAL"}
      BY <1>2, <1>3
    <2> QED
      BY <1>1, <1>3, <2>1, Zenon
  <1>4. CASE /\ pc' \in {"try", "poll"} /\ rem' = a.rem /\ UNCHANGED calls
             /\ ~Waits /\ a.rem # 0 /\ a.alsa.result \notin {"EAGAIN", "EINVAL"}
    <2>1. rem' = First(rem) + 1 /\ Sends(rem) /\ Call.op # "drain"
      BY <1>2, <1>4
    <2>2. a.alsa.result = "ok"
      BY <1>2, <1>4, <2>1 DEF Results
    <2> QED
      BY <1>1, <1>4, <2>1, <2>2, Zenon
  <1>5. CASE /\ pc' \in {"try", "poll"} /\ rem' = a.rem /\ UNCHANGED calls
             /\ Waits /\ (a.alsa.result = "EAGAIN" \/ a.rem # 0)
    <2>1. Parts = 1 /\ First(rem) = 1
      BY <1>1, <1>5, WaitedIsSingle
    <2>2. a.rem = 0
      <3> SUFFICES ASSUME a.rem # 0
                   PROVE  FALSE
        OBVIOUS
      <3> QED
        BY <1>2, <2>1
    <2>3. a.alsa.result = "EAGAIN" /\ rem' = 0
      BY <1>5, <2>2
    <2> QED
      BY <1>1, <1>5, <2>1, <2>3, Zenon
  <1> QED
    BY <1>1, <1>3, <1>4, <1>5, Zenon

LEMMA AppendInOrder ==
    ASSUME NEW S, NEW b \in Seq(S), NEW f \in S, InOrder(b), \A g \in Range(b) : Before(g, f)
    PROVE  InOrder(Append(b, f))
  <1> DEFINE c == Append(b, f)
  <1>1. /\ Len(c) = Len(b) + 1 /\ c[Len(b) + 1] = f /\ \A i \in 1..Len(b) : c[i] = b[i]
        /\ Len(b) \in Nat /\ DOMAIN b = 1..Len(b)
    BY AppendProperties, LenProperties
  <1> HIDE DEF c
  <1>2. ASSUME NEW i \in 1..Len(c), NEW j \in 1..Len(c), i < j
        PROVE  Before(c[i], c[j])
    <2>1. i \in 1..Len(b) /\ c[i] = b[i]
      BY <1>1, <1>2
    <2>2. CASE j = Len(b) + 1
      <3>1. b[i] \in Range(b)
        BY <1>1, <2>1 DEF Range
      <3>2. Before(b[i], f)
        BY <3>1
      <3>3. c[j] = f
        BY <1>1, <2>2
      <3> QED
        BY <2>1, <3>2, <3>3
    <2>3. CASE j # Len(b) + 1
      <3>1. j \in 1..Len(b) /\ c[j] = b[j]
        BY <1>1, <2>3
      <3>2. Before(b[i], b[j])
        BY <1>2, <2>1, <3>1 DEF InOrder
      <3> QED
        BY <2>1, <3>1, <3>2
    <2> QED
      BY <2>2, <2>3
  <1>3. InOrder(c)
    BY <1>2 DEF InOrder
  <1> QED
    BY <1>3 DEF c

\* What an attempt adds comes after everything there is.
LEMMA AttemptIsLater ==
    ASSUME IInv, Streamed, pc = "try"
    PROVE  \A g \in Range(Log) : Before(g, Fragment(rem))
  <1> TAKE g \in Range(Log)
  <1>1. g.call \in 1..Running /\ (g.call = Running => g.part < First(rem)) /\ Running \in Nat
    BY LogType, FragmentIs DEF Streamed
  <1>2. Fragment(rem).call = Running /\ Fragment(rem).part = First(rem)
    BY FragmentIs
  <1> QED
    BY <1>1, <1>2 DEF Before

\* The steps that are neither attempts nor drops leave the stream alone.
LEMMA OtherSteps ==
    ASSUME IInv, [Next]_vars, ~(TryOnce \/ TryWait), ~Drops
    PROVE  /\ Log' = Log /\ UNCHANGED <<user, dropped, rem>>
           /\ \/ /\ calls' = calls /\ Running' = Running
                 /\ (pc' = "idle" <=> pc = "idle")
              \/ /\ pc = "idle" /\ rem = 0
                 /\ \E c : /\ calls' = Append(calls, c) /\ c.result = "none"
                 /\ Running' = Running + 1
                 /\ \A i \in 1..Running : calls'[i] = calls[i]
                 /\ calls'[Running + 1].result = "none"
  <1>1. ASSUME NEW op, NEW e, Begin(op, e)
        PROVE  /\ Log' = Log /\ UNCHANGED <<user, dropped, rem>>
               /\ pc = "idle" /\ rem = 0
               /\ \E c : /\ calls' = Append(calls, c) /\ c.result = "none"
               /\ Running' = Running + 1
               /\ \A i \in 1..Running : calls'[i] = calls[i]
               /\ calls'[Running + 1].result = "none"
    <2> DEFINE c == [op |-> op, ev |-> e, result |-> "none"]
               S == CallSet \union {c}
    <2>1. /\ pc = "idle" /\ calls' = Append(calls, c) /\ c.result = "none"
          /\ UNCHANGED <<user, obuf, pool, delivered, dropped, rem>>
      BY <1>1 DEF Begin
    <2>2. rem = 0
      BY <2>1 DEF IInv, InProgress
    <2>3. calls \in Seq(S) /\ c \in S
      <3>1. calls \in Seq(CallSet) /\ CallSet \subseteq S /\ c \in S
        BY DEF IInv, Recorded
      <3> HIDE DEF S, c
      <3> QED
        BY <3>1, SeqMonotonic
    <2> HIDE DEF S, c
    <2>4. /\ Running' = Running + 1 /\ \A i \in 1..Running : calls'[i] = calls[i]
          /\ calls'[Running + 1] = c
      BY <2>1, <2>3, AppendProperties DEF Running
    <2>5. Log' = Log
      BY <2>1 DEF Log
    <2> QED
      BY <2>1, <2>2, <2>4, <2>5
  <1>2. CASE BeginDrain
    BY <1>1, <1>2 DEF BeginDrain
  <1>3. CASE \E op, e : Begin(op, e)
    BY <1>1, <1>3
  <1>4. CASE Poll
    BY <1>4 DEF Poll, Log, Running
  <1>5. CASE Deliver
    <2>1. Log' = Log
      BY <1>5, DeliverLog
    <2> QED
      BY <1>5, <2>1 DEF Deliver, Running
  <1>6. CASE UNCHANGED vars
    BY <1>6 DEF vars, Log, Running
  <1> QED
    BY <1>2, <1>3, <1>4, <1>5, <1>6 DEF Next, Drops

LEMMA StreamedStep ==
    ASSUME SinglyWaited, IInv, Streamed, [Next]_vars
    PROVE  Streamed'
  <1>1. /\ Log \in Seq(Made) /\ Len(Log) \in Nat /\ InOrder(Log)
        /\ \A f \in Range(Log) : f.call \in 1..Running /\ f.part \in Nat
        /\ pc # "idle" => \A f \in Range(Log) : f.call = Running => f.part < First(rem)
        /\ rem <= Len(Log) + 1 /\ rem \in Nat
        /\ pc = "idle" => rem = 0
    BY LogType DEF Streamed, IInv, TypeOK, InProgress
  <1>2. CASE TryOnce \/ TryWait
    <2>1. PICK a : /\ pc = "try" /\ Attempted(a)
                   /\ obuf' = a.alsa.obuf /\ pool' = a.alsa.pool
                   /\ UNCHANGED <<user, delivered, dropped>>
                   /\ \/ /\ pc' \in {"try", "poll"} /\ UNCHANGED calls
                         /\ rem' = First(rem) + 1 /\ Sends(rem) /\ a.alsa.result = "ok"
                      \/ /\ pc' \in {"try", "poll"} /\ UNCHANGED calls
                         /\ rem' = 0 /\ First(rem) = 1 /\ a.alsa.result = "EAGAIN"
                      \/ Return(a.alsa.result)
      BY <1>2, AttemptEnds, Zenon
    <2>2. /\ a.alsa.result = "ok" /\ Sends(rem) => Log' = Append(Log, Fragment(rem))
          /\ a.alsa.result # "ok" \/ ~Sends(rem) => Log' = Log
      BY <2>1, AttemptLog
    <2>3. /\ Fragment(rem) \in Made /\ First(rem) \in Nat \ {0}
          /\ Fragment(rem).call = Running /\ Fragment(rem).part = First(rem)
      BY <2>1, FragmentIs
    <2>4. /\ InOrder(Append(Log, Fragment(rem)))
          /\ Range(Append(Log, Fragment(rem))) = Range(Log) \union {Fragment(rem)}
          /\ Len(Append(Log, Fragment(rem))) = Len(Log) + 1
      <3>1. \A g \in Range(Log) : Before(g, Fragment(rem))
        BY <2>1, AttemptIsLater
      <3>2. InOrder(Append(Log, Fragment(rem)))
        BY <1>1, <2>3, <3>1, AppendInOrder, Zenon
      <3>3. Range(Append(Log, Fragment(rem))) = Range(Log) \union {Fragment(rem)}
        BY <2>1, RangeAttempt
      <3>4. Len(Append(Log, Fragment(rem))) = Len(Log) + 1
        BY <1>1, <2>3, AppendProperties, Zenon
      <3> QED
        BY <3>2, <3>3, <3>4
    <2>5. InOrder(Log') /\ Len(Log') \in Nat
      <3>1. CASE Log' = Append(Log, Fragment(rem))
        <4>1. InOrder(Log') /\ Len(Log') = Len(Log) + 1
          BY <2>4, <3>1, Zenon
        <4> QED
          BY <1>1, <4>1
      <3>2. CASE Log' = Log
        <4>1. InOrder(Log') /\ Len(Log') = Len(Log)
          BY <1>1, <3>2, Zenon
        <4> QED
          BY <1>1, <4>1
      <3> QED
        BY <2>2, <3>1, <3>2, Zenon
    <2>6. CASE /\ pc' \in {"try", "poll"} /\ UNCHANGED calls
               /\ rem' = First(rem) + 1 /\ Sends(rem) /\ a.alsa.result = "ok"
      <3>1. Running' = Running /\ First(rem)' = First(rem) + 1
        BY <2>3, <2>6 DEF Running, First
      <3>2. Log' = Append(Log, Fragment(rem))
        BY <2>2, <2>6
      <3>3. \A f \in Range(Log') : f.call = Running => f.part < First(rem) + 1
        <4> TAKE f \in Range(Log')
        <4>1. CASE f = Fragment(rem)
          BY <2>3, <4>1
        <4>2. CASE f \in Range(Log)
          BY <1>1, <2>1, <2>3, <4>2
        <4> QED
          BY <2>4, <3>2, <4>1, <4>2
      <3>4. rem' <= Len(Log') + 1
        BY <1>1, <2>3, <2>4, <2>6, <3>2 DEF First
      <3> QED
        BY <2>5, <3>1, <3>3, <3>4 DEF Streamed, InOrder
    <2>7. CASE /\ pc' \in {"try", "poll"} /\ UNCHANGED calls
               /\ rem' = 0 /\ First(rem) = 1 /\ a.alsa.result = "EAGAIN"
      <3>1. Running' = Running /\ First(rem)' = 1
        BY <2>7 DEF Running, First
      <3>2. Log' = Log
        BY <2>2, <2>7
      <3>3. \A f \in Range(Log') : f.call = Running => f.part < 1
        BY <1>1, <2>1, <2>7, <3>2
      <3>4. rem' <= Len(Log') + 1
        BY <2>5, <2>7
      <3> QED
        BY <2>5, <3>1, <3>3, <3>4 DEF Streamed, InOrder
    <2>8. CASE Return(a.alsa.result)
      <3>1. pc' = "idle" /\ rem' = 0
        BY <2>8 DEF Return
      <3>2. rem' <= Len(Log') + 1
        BY <2>5, <3>1
      <3> QED
        BY <2>5, <3>1, <3>2 DEF Streamed, InOrder
    <2> QED
      BY <2>1, <2>6, <2>7, <2>8
  <1>3. CASE Drops
    <2>1. pc' = "idle" /\ rem' = 0
      BY <1>1, <1>3, DropsReduce
    <2>2. Log' \in Seq(Made) /\ Thinned(Log', Log)
      BY <1>3, DropsLog
    <2>3. InOrder(Log') /\ Len(Log') \in Nat
      BY <1>1, <2>2, ThinnedKeeps, LenProperties
    <2> QED
      BY <2>1, <2>3 DEF Streamed, InOrder
  <1>4. CASE ~(TryOnce \/ TryWait) /\ ~Drops
    <2>1. /\ Log' = Log /\ rem' = rem
          /\ \/ Running' = Running /\ (pc' = "idle" <=> pc = "idle")
             \/ rem = 0 /\ Running' = Running + 1
      BY <1>4, OtherSteps, Zenon
    <2>2. InOrder(Log') /\ rem' <= Len(Log') + 1 /\ First(rem)' = First(rem)
      BY <1>1, <2>1 DEF First
    <2>3. CASE Running' = Running /\ (pc' = "idle" <=> pc = "idle")
      BY <1>1, <2>1, <2>2, <2>3 DEF Streamed, InOrder
    <2>4. CASE Running' = Running + 1
      <3>1. \A f \in Range(Log') : f.call # Running'
        <4>1. Running \in Nat
          BY LenProperties DEF IInv, Recorded, Running
        <4>2. Range(Log') = Range(Log)
          BY <2>1
        <4> QED
          BY <1>1, <2>4, <4>1, <4>2
      <3> QED
        BY <2>2, <3>1 DEF Streamed, InOrder
    <2> QED
      BY <2>1, <2>3, <2>4
  <1> QED
    BY <1>2, <1>3, <1>4

LEMMA InitStreamed == Init => Streamed
  <1> SUFFICES ASSUME Init
               PROVE  Streamed
    OBVIOUS
  <1>1. delivered = <<>> /\ pool = <<>> /\ obuf = <<>> /\ pc = "idle" /\ rem = 0
    BY DEF Init
  <1>2. Log = <<>>
    <2>1. <<>> \o <<>> \o <<>> = <<>>
      OBVIOUS
    <2> QED
      BY <1>1, <2>1, Zenon DEF Log
  <1>3. Len(Log) = 0
    BY <1>2, EmptySeq, Zenon
  <1>4. InOrder(Log)
    <2>1. \A i \in 1..Len(Log) : FALSE
      BY <1>3
    <2> QED
      BY <2>1, Zenon DEF InOrder
  <1>5. rem <= Len(Log) + 1
    BY <1>1, <1>3
  <1> QED
    BY <1>1, <1>4, <1>5, Zenon DEF Streamed

-----------------------------------------------------------------------------
(* The invariant that BeginningAccepted needs: of the running call, what   *)
(* is before the remainder has been accepted, and nothing else.            *)

InOneGo(c) == calls[c].op # "drain" /\ (calls[c].op # "direct" \/ Len(calls[c].ev.cells) = 1)

BegunWell(c) ==
    /\ calls[c].result = "none" => Accepted(c) = {p \in Sendable(c) : p < First(rem)}
    /\ \A p \in Accepted(c), q \in Sendable(c) : q < p => q \in Accepted(c)
    /\ calls[c].result = "ok" => Accepted(c) = Sendable(c)
    /\ calls[c].result \in {"EAGAIN", "EINVAL"} => Accepted(c) # Sendable(c)

Begun ==
    /\ \A f \in Range(Log) : f.part \in Sendable(f.call)
    /\ \A c \in 1..Running : c \notin dropped /\ InOneGo(c) => BegunWell(c)

LEMMA BegunSuffices == IInv /\ Streamed /\ Begun => BeginningAccepted
  <1> SUFFICES ASSUME IInv, Streamed, Begun, NEW c \in Outputs \ dropped,
                      calls[c].op # "direct" \/ Len(calls[c].ev.cells) = 1
               PROVE  /\ PartsInOrder(c) /\ Accepted(c) \subseteq Sendable(c)
                      /\ \A p \in Accepted(c), q \in Sendable(c) : q < p => q \in Accepted(c)
                      /\ calls[c].result = "ok" => Accepted(c) = Sendable(c)
                      /\ calls[c].result \in {"EAGAIN", "EINVAL"} => Accepted(c) # Sendable(c)
    BY DEF BeginningAccepted
  <1>1. BegunWell(c)
    BY DEF Begun, InOneGo, Outputs
  <1>2. PartsInOrder(c)
    <2> SUFFICES ASSUME NEW i \in DOMAIN Log, NEW j \in DOMAIN Log, i < j,
                        Log[i].call = c, Log[j].call = c
                 PROVE  Log[i].part < Log[j].part
      BY DEF PartsInOrder
    <2>1. i \in 1..Len(Log) /\ j \in 1..Len(Log)
      BY LogType, LenProperties
    <2>2. Before(Log[i], Log[j])
      BY <2>1 DEF Streamed, InOrder
    <2>3. c \in Int
      BY DEF Outputs
    <2> QED
      BY <2>2, <2>3 DEF Before
  <1>3. Accepted(c) \subseteq Sendable(c)
    BY DEF Begun, Accepted
  <1> QED
    BY <1>1, <1>2, <1>3, Zenon DEF BegunWell

LEMMA InitBegun == Init => Begun
  <1> SUFFICES ASSUME Init
               PROVE  Begun
    OBVIOUS
  <1>1. delivered = <<>> /\ pool = <<>> /\ obuf = <<>> /\ calls = <<>>
    BY DEF Init
  <1>2. Log = <<>>
    <2>1. <<>> \o <<>> \o <<>> = <<>>
      OBVIOUS
    <2> QED
      BY <1>1, <2>1, Zenon DEF Log
  <1>3. Range(Log) = {}
    <2>1. Range(<<>>) = {}
      BY DEF Range
    <2> QED
      BY <1>2, <2>1, Zenon
  <1>4. \A c \in 1..Running : FALSE
    <2>1. Running = 0
      BY <1>1, EmptySeq, Zenon DEF Running
    <2> QED
      BY <2>1
  <1> QED
    BY <1>3, <1>4, Zenon DEF Begun

\* A call that no step has to do with.
LEMMA BegunKept ==
    ASSUME NEW c, calls'[c] = calls[c], BegunWell(c),
           calls[c].result = "none" => First(rem)' = First(rem),
           \A f \in Range(Log) : f.call = c => f \in Range(Log'),
           \A f \in Range(Log') : f.call = c => f \in Range(Log)
    PROVE  BegunWell(c)'
  <1>1. Sendable(c)' = Sendable(c)
    BY DEF Sendable
  <1>2. Accepted(c)' = Accepted(c)
    BY DEF Accepted
  <1> QED
    BY <1>1, <1>2, Zenon DEF BegunWell

\* A set of numbers and what of it is before one of them.
LEMMA Beginnings ==
    ASSUME NEW N \in Nat, NEW T \in SUBSET (1..N), NEW n \in 1..N,
           NEW K, K = {p \in T : p < n}
    PROVE  /\ \A p \in K, q \in T : q < p => q \in K
           /\ n \in T => /\ K # T
                        /\ K \union {n} = {p \in T : p < n + 1}
                        /\ \A p \in K \union {n}, q \in T : q < p => q \in K \union {n}
  <1>1. \A p \in K, q \in T : q < p => q \in K
    OBVIOUS
  <1>2. ASSUME n \in T PROVE K # T
    BY <1>2
  <1>3. ASSUME n \in T PROVE K \union {n} = {p \in T : p < n + 1}
    <2>1. ASSUME NEW p \in T PROVE p < n + 1 <=> p < n \/ p = n
      BY <2>1
    <2> QED
      BY <1>3, <2>1
  <1>4. ASSUME n \in T, NEW p \in K \union {n}, NEW q \in T, q < p
        PROVE  q \in K \union {n}
    <2>1. q < n
      BY <1>4
    <2> QED
      BY <1>4, <2>1
  <1> QED
    BY <1>1, <1>2, <1>3, <1>4

LEMMA BeginningsWhole ==
    ASSUME NEW N \in Nat, NEW T \in SUBSET (1..N), NEW K, K = {p \in T : p < N}
    PROVE  K \union (T \intersect {N}) = T
  <1>1. ASSUME NEW p \in T PROVE p < N \/ p = N
    OBVIOUS
  <1> QED
    BY <1>1

\* The running call after an attempt.
LEMMA BegunAttempt ==
    ASSUME SinglyWaited, IInv, Streamed, Begun, TryOnce \/ TryWait,
           NEW c, c = Running, c \notin dropped, InOneGo(c)
    PROVE  BegunWell(c)'
  <1>1. PICK a : /\ pc = "try" /\ Attempted(a)
                 /\ obuf' = a.alsa.obuf /\ pool' = a.alsa.pool
                 /\ UNCHANGED <<user, delivered, dropped>>
                 /\ \/ /\ pc' \in {"try", "poll"} /\ UNCHANGED calls
                       /\ rem' = First(rem) + 1 /\ Sends(rem) /\ a.alsa.result = "ok"
                    \/ /\ pc' \in {"try", "poll"} /\ UNCHANGED calls
                       /\ rem' = 0 /\ First(rem) = 1 /\ a.alsa.result = "EAGAIN"
                    \/ /\ Return(a.alsa.result)
                       /\ \/ Call.op \in {"drain", "direct"}
                          \/ First(rem) = Parts
                          \/ a.alsa.result \in {"EAGAIN", "EINVAL"}
    BY AttemptEnds, Zenon
  <1>2. /\ Log \in Seq(Made) /\ Fragment(rem) \in Made
        /\ Fragment(rem).call = c /\ Fragment(rem).part = First(rem)
        /\ Fragment(rem).cells = Call.ev.cells[First(rem)]
        /\ First(rem) \in 1..Parts /\ Parts \in Nat /\ c \in 1..Running /\ Call = calls[c]
        /\ WellFormed(Call.ev)
    BY <1>1, FragmentIs, LogType DEF Call
  <1>3. /\ a.alsa.result = "ok" /\ Sends(rem) => Log' = Append(Log, Fragment(rem))
        /\ a.alsa.result # "ok" \/ ~Sends(rem) => Log' = Log
    BY <1>1, AttemptLog
  <1>4. /\ a.alsa.result \in Results
        /\ Call.op # "drain" => a.alsa.result # "partial"
        /\ Call.op # "drain" /\ ~Sends(rem) => a.alsa.result = "ok"
    BY <1>1, Zenon DEF Attempted
  <1>5. Call.op # "drain" /\ (Call.op = "direct" => First(rem) = Parts)
    <2>1. Call.op # "drain" /\ (Call.op = "direct" => Len(Call.ev.cells) = 1)
      BY <1>2, Zenon DEF InOneGo
    <2>2. Parts = Len(Call.ev.cells)
      BY DEF Parts
    <2>3. First(rem) \in 1..Parts
      BY <1>2
    <2>4. Parts = 1 => First(rem) = Parts
      BY <2>3
    <2> QED
      BY <2>1, <2>2, <2>4
  <1> DEFINE R == a.alsa.result
             r == calls'[c].result
             n == First(rem)
             K == Accepted(c)
             L == Accepted(c)'
             T == Sendable(c)
  <1>6. K = {p \in T : p < n}
    <2>1. calls[c].result = "none"
      BY <1>1, <1>2 DEF IInv, InProgress
    <2> QED
      BY <1>2, <2>1, Zenon DEF Begun, BegunWell
  <1>7. T \subseteq 1..Parts /\ n \in 1..Parts /\ (n \in T <=> Sends(rem))
    <2>1. DOMAIN Call.ev.cells = 1..Parts
      BY <1>2, LenProperties DEF WellFormed, Parts
    <2>2. Sends(rem) <=> Fragment(rem).cells > 0
      BY <1>5 DEF Sends
    <2> QED
      BY <1>2, <2>1, <2>2 DEF Sendable
  <1>8. Sendable(c)' = T /\ (\/ r = "none" /\ First(rem)' = (IF R = "ok" THEN n + 1 ELSE n)
                                          /\ (R = "ok" => Sends(rem)) /\ (R # "ok" => R = "EAGAIN")
                             \/ r = R /\ (R = "ok" => n = Parts))
    <2>1. CASE /\ UNCHANGED calls
               /\ rem' = First(rem) + 1 /\ Sends(rem) /\ a.alsa.result = "ok"
      <3>1. r = "none"
        BY <1>1, <1>2, <2>1 DEF IInv, InProgress
      <3>2. First(rem)' = n + 1
        BY <1>2, <2>1 DEF First
      <3> QED
        BY <2>1, <3>1, <3>2 DEF Sendable
    <2>2. CASE UNCHANGED calls /\ rem' = 0 /\ First(rem) = 1 /\ a.alsa.result = "EAGAIN"
      <3>1. r = "none"
        BY <1>1, <1>2, <2>2 DEF IInv, InProgress
      <3>2. First(rem)' = n
        BY <2>2 DEF First
      <3> QED
        BY <2>2, <3>1, <3>2 DEF Sendable
    <2>3. CASE /\ Return(a.alsa.result)
               /\ \/ Call.op \in {"drain", "direct"}
                  \/ First(rem) = Parts
                  \/ a.alsa.result \in {"EAGAIN", "EINVAL"}
      <3>1. calls'[c].ev = calls[c].ev /\ r = R
        BY <1>1, <1>2, <1>4, <2>3, Returns
      <3>2. R = "ok" => n = Parts
        BY <1>5, <2>3
      <3> QED
        BY <3>1, <3>2 DEF Sendable
    <2> QED
      BY <1>1, <2>1, <2>2, <2>3
  <1>9. CASE R = "ok" /\ Sends(rem)
    <2>1. Range(Log') = Range(Log) \union {Fragment(rem)}
      <3>1. Range(Append(Log, Fragment(rem))) = Range(Log) \union {Fragment(rem)}
        BY <1>1, RangeAttempt
      <3> QED
        BY <1>3, <1>9, <3>1
    <2>2. L = K \union {n}
      BY <1>2, <2>1 DEF Accepted
    <2>3. Parts \in Nat /\ T \in SUBSET (1..Parts) /\ n \in 1..Parts /\ n \in T
      BY <1>2, <1>7, <1>9
    <2> HIDE DEF L, K, T, n, R, r
    <2>4. /\ K \union {n} = {p \in T : p < n + 1}
          /\ \A p \in K \union {n}, q \in T : q < p => q \in K \union {n}
      BY <1>6, <2>3, Beginnings
    <2>5. L = {p \in T : p < n + 1}
      BY <2>2, <2>4, Zenon
    <2>6. /\ \A p \in L, q \in T : q < p => q \in L
          /\ n = Parts => L = T
      <3>1. T \intersect {n} = {n}
        BY <2>3
      <3>2. n = Parts => K \union (T \intersect {n}) = T
        BY <1>6, <2>3, BeginningsWhole
      <3> QED
        BY <2>2, <2>4, <3>1, <3>2, Zenon
    <2>7. CASE r = "none" /\ First(rem)' = n + 1
      <3>1. r # "ok" /\ r \notin {"EAGAIN", "EINVAL"}
        BY <2>7
      <3> QED
        BY <1>8, <2>5, <2>6, <2>7, <3>1, Zenon DEF BegunWell, L, T, r
    <2>8. CASE r = "ok" /\ n = Parts
      <3>1. r # "none" /\ r \notin {"EAGAIN", "EINVAL"}
        BY <2>8
      <3> QED
        BY <1>8, <2>6, <2>8, <3>1, Zenon DEF BegunWell, L, T, r
    <2> QED
      BY <1>8, <1>9, <2>7, <2>8
  <1>10. CASE R = "ok" /\ ~Sends(rem)
    <2>1. L = K
      BY <1>3, <1>10 DEF Accepted
    <2> HIDE DEF L, K, T, n, R, r
    <2>2. r = "ok" /\ n = Parts
      BY <1>8, <1>10
    <2>3. L = T
      <3>1. Parts \in Nat /\ T \in SUBSET (1..Parts) /\ n \in 1..Parts
        BY <1>2, <1>7
      <3>2. n \notin T
        BY <1>7, <1>10
      <3>3. K \union (T \intersect {n}) = T
        BY <1>6, <2>2, <3>1, BeginningsWhole
      <3>4. K \union (T \intersect {n}) = K
        BY <3>2
      <3> QED
        BY <2>1, <3>3, <3>4, Zenon
    <2>4. r # "none" /\ r \notin {"EAGAIN", "EINVAL"}
      BY <2>2
    <2> QED
      BY <1>8, <2>3, <2>4, Zenon DEF BegunWell, L, T, r
  <1>11. CASE R # "ok"
    <2>1. L = K
      BY <1>3, <1>11 DEF Accepted
    <2>2. Sends(rem) /\ R \in {"EAGAIN", "EINVAL"}
      BY <1>4, <1>5, <1>11 DEF Results
    <2> HIDE DEF L, K, T, n, R, r
    <2>3. /\ L = {p \in T : p < n} /\ L # T
          /\ \A p \in L, q \in T : q < p => q \in L
      <3>1. Parts \in Nat /\ T \in SUBSET (1..Parts) /\ n \in 1..Parts
        BY <1>2, <1>7
      <3>2. n \in T
        BY <1>7, <2>2
      <3>3. K # T /\ \A p \in K, q \in T : q < p => q \in K
        BY <1>6, <3>1, <3>2, Beginnings
      <3> QED
        BY <1>6, <2>1, <3>3, Zenon
    <2>4. CASE r = "none" /\ First(rem)' = n
      <3>1. r # "ok" /\ r \notin {"EAGAIN", "EINVAL"}
        BY <2>4
      <3> QED
        BY <1>8, <2>3, <2>4, <3>1, Zenon DEF BegunWell, L, T, r
    <2>5. CASE r = R
      <3>1. r # "none" /\ r # "ok"
        BY <2>2, <2>5
      <3> QED
        BY <1>8, <2>3, <3>1, Zenon DEF BegunWell, L, T, r
    <2> QED
      BY <1>8, <1>11, <2>4, <2>5
  <1> QED
    BY <1>9, <1>10, <1>11

\* The parts of the stream are still events of their calls after a step that
\* changes none of the events.
LEMMA PartsKept ==
    ASSUME IInv, Begun, \A c \in 1..Running : calls'[c].ev = calls[c].ev,
           NEW f, f \in Range(Log)
    PROVE  f.part \in Sendable(f.call)'
  <1>1. f.call \in 1..Running
    BY LogType
  <1>2. Sendable(f.call)' = Sendable(f.call)
    BY <1>1 DEF Sendable
  <1> QED
    BY <1>2, Zenon DEF Begun

SendableNumbered == \A c \in 1..Running : Sendable(c) \subseteq Nat \ {0}

LEMMA SendableNumbers == IInv => SendableNumbered
  <1> SUFFICES ASSUME IInv, NEW c \in 1..Running, NEW p \in Sendable(c)
               PROVE  p \in Nat \ {0}
    BY DEF SendableNumbered
  <1>1. calls[c] \in CallSet
    BY LenProperties, ElementOfSeq DEF IInv, Recorded, Running
  <1>2. WellFormed(calls[c].ev)
    BY <1>1, EventsWellFormed DEF CallSet, IInv, TypeOK
  <1>3. DOMAIN calls[c].ev.cells = 1..Len(calls[c].ev.cells)
    BY <1>2, LenProperties DEF WellFormed
  <1> QED
    BY <1>3 DEF Sendable

LEMMA BegunStep ==
    ASSUME SinglyWaited, IInv, Streamed, Begun, [Next]_vars
    PROVE  Begun'
  <1>1. /\ Log \in Seq(Made) /\ Running \in Nat
        /\ \A f \in Range(Log) : f.call \in 1..Running /\ f.part \in Nat
        /\ \A c \in 1..Running : c \notin dropped /\ InOneGo(c) => BegunWell(c)
        /\ \A i \in 1..Running : calls[i].result = "none" <=> (pc # "idle" /\ i = Running)
    <2>1. Running \in Nat
      BY LenProperties DEF IInv, Recorded, Running
    <2> QED
      BY <2>1, LogType DEF Begun, IInv, InProgress
  <1>2. CASE TryOnce \/ TryWait
    <2>1. PICK a : /\ pc = "try" /\ Attempted(a)
                   /\ obuf' = a.alsa.obuf /\ pool' = a.alsa.pool
                   /\ UNCHANGED <<user, delivered, dropped>>
                   /\ \/ UNCHANGED calls
                      \/ Return(a.alsa.result)
      BY <1>2, AttemptEnds, Zenon
    <2>2. /\ a.alsa.result = "ok" /\ Sends(rem) => Log' = Append(Log, Fragment(rem))
          /\ a.alsa.result # "ok" \/ ~Sends(rem) => Log' = Log
      BY <2>1, AttemptLog
    <2>3. /\ Fragment(rem) \in Made /\ Fragment(rem).call = Running
          /\ Fragment(rem).part = First(rem) /\ Fragment(rem).cells = Call.ev.cells[First(rem)]
          /\ First(rem) \in 1..Parts /\ WellFormed(Call.ev)
      BY <2>1, FragmentIs
    <2>4. /\ Running' = Running
          /\ \A c \in 1..Running : /\ calls'[c].ev = calls[c].ev /\ calls'[c].op = calls[c].op
                                   /\ c # Running => calls'[c] = calls[c]
      <3>1. CASE UNCHANGED calls
        BY <3>1 DEF Running
      <3>2. CASE Return(a.alsa.result)
        <4>1. a.alsa.result \in Results
          BY <2>1, Zenon DEF Attempted
        <4> QED
          BY <2>1, <3>2, <4>1, Returns
      <3> QED
        BY <2>1, <3>1, <3>2
    <2>5. /\ Range(Log) \subseteq Range(Log')
          /\ \A f \in Range(Log') : f \in Range(Log) \/ (f = Fragment(rem) /\ Sends(rem))
      <3>1. Range(Append(Log, Fragment(rem))) = Range(Log) \union {Fragment(rem)}
        BY <2>1, RangeAttempt, Zenon
      <3>2. CASE a.alsa.result = "ok" /\ Sends(rem)
        <4>1. Range(Log') = Range(Log) \union {Fragment(rem)}
          BY <2>2, <3>1, <3>2, Zenon
        <4> QED
          BY <3>2, <4>1
      <3>3. CASE a.alsa.result # "ok" \/ ~Sends(rem)
        <4>1. Range(Log') = Range(Log)
          BY <2>2, <3>3, Zenon
        <4> QED
          BY <4>1
      <3> QED
        BY <3>2, <3>3
    <2>6. ASSUME NEW f \in Range(Log')
          PROVE  f.part \in Sendable(f.call)'
      <3>1. CASE f \in Range(Log)
        BY <2>4, <3>1, PartsKept
      <3>2. CASE f = Fragment(rem) /\ Sends(rem)
        <4>1. First(rem) \in DOMAIN Call.ev.cells
          BY <2>3, LenProperties DEF WellFormed, Parts
        <4>2. calls'[Running].ev = Call.ev
          BY <2>3, <2>4, FragmentIs, <2>1 DEF Call
        <4>3. Call.ev.cells[First(rem)] > 0
          BY <2>3, <3>2 DEF Sends
        <4>4. First(rem) \in Sendable(Running)'
          BY <2>4, <4>1, <4>2, <4>3 DEF Sendable
        <4> QED
          BY <2>3, <2>4, <3>2, <4>4
      <3> QED
        BY <2>5, <3>1, <3>2
    <2>7. ASSUME NEW c \in 1..Running, c \notin dropped, InOneGo(c)'
          PROVE  BegunWell(c)'
      <3>1. InOneGo(c)
        BY <2>4, <2>7 DEF InOneGo
      <3>2. CASE c = Running
        BY <1>2, <2>7, <3>1, <3>2, BegunAttempt
      <3>3. CASE c # Running
        <4>1. calls'[c] = calls[c] /\ BegunWell(c) /\ calls[c].result # "none"
          BY <1>1, <2>4, <2>7, <3>1, <3>3
        <4>2. \A f \in Range(Log') : f.call = c => f \in Range(Log)
          BY <2>3, <2>5, <3>3
        <4> QED
          BY <2>5, <4>1, <4>2, BegunKept
      <3> QED
        BY <3>2, <3>3
    <2> QED
      BY <2>1, <2>4, <2>6, <2>7 DEF Begun
  <1>3. CASE Drops
    <2>1. /\ UNCHANGED calls /\ UNCHANGED rem /\ Running' = Running /\ dropped \subseteq dropped'
      BY <1>3, DropsReduce DEF Running
    <2>2. Range(Log') \subseteq Range(Log)
      <3>1. Log' \in Seq(Made) /\ Thinned(Log', Log)
        BY <1>3, DropsLog
      <3> QED
        BY <1>1, <3>1, ThinnedKeeps, Zenon
    <2>3. ASSUME NEW f \in Range(Log')
          PROVE  f.part \in Sendable(f.call)'
      BY <2>1, <2>2, PartsKept
    <2>4. ASSUME NEW c \in 1..Running, c \notin dropped', InOneGo(c)'
          PROVE  BegunWell(c)'
      <3>1. BegunWell(c)
        <4>1. InOneGo(c)
          BY <2>1, <2>4 DEF InOneGo
        <4> QED
          BY <1>1, <2>1, <2>4, <4>1
      <3>2. First(rem)' = First(rem)
        BY <2>1 DEF First
      <3>3. \A f \in Range(Log) : f.call = c => f \in Range(Log')
        BY <1>3, <2>4, DropsLog
      <3> QED
        BY <2>1, <2>2, <3>1, <3>2, <3>3, BegunKept
    <2> QED
      BY <2>1, <2>3, <2>4 DEF Begun
  <1>4. CASE ~(TryOnce \/ TryWait) /\ ~Drops
    <2>1. /\ Log' = Log /\ UNCHANGED rem /\ UNCHANGED dropped
          /\ \/ calls' = calls /\ Running' = Running
             \/ /\ rem = 0 /\ Running' = Running + 1
                /\ \A i \in 1..Running : calls'[i] = calls[i]
                /\ calls'[Running + 1].result = "none"
      BY <1>4, OtherSteps, Zenon
    <2>2. \A i \in 1..Running : calls'[i] = calls[i]
      BY <2>1
    <2>3. Range(Log') = Range(Log) /\ First(rem)' = First(rem)
      BY <2>1 DEF First
    <2>4. ASSUME NEW f \in Range(Log')
          PROVE  f.part \in Sendable(f.call)'
      BY <2>2, <2>3, PartsKept
    <2>5. ASSUME NEW c \in 1..Running, c \notin dropped', InOneGo(c)'
          PROVE  BegunWell(c)'
      <3>1. BegunWell(c)
        <4>1. InOneGo(c)
          BY <2>2, <2>5 DEF InOneGo
        <4> QED
          BY <1>1, <2>1, <2>5, <4>1
      <3> QED
        BY <2>2, <2>3, <3>1, BegunKept
    <2>6. ASSUME Running' = Running + 1, rem = 0, calls'[Running + 1].result = "none",
                 NEW c, c = Running + 1
          PROVE  BegunWell(c)'
      <3>1. Accepted(c)' = {}
        <4>1. \A f \in Range(Log') : f.call # c
          BY <1>1, <2>3, <2>6
        <4> QED
          BY <4>1 DEF Accepted
      <3>2. First(rem)' = 1
        BY <2>1, <2>6 DEF First
      <3>3. Sendable(c)' \subseteq Nat \ {0}
        <4>1. IInv'
          BY NextIInv
        <4>2. SendableNumbered'
          BY <4>1, SendableNumbers, PTL
        <4>3. c \in 1..Running'
          BY <1>1, <2>6
        <4> QED
          BY <4>2, <4>3 DEF SendableNumbered
      <3>4. {p \in Sendable(c)' : p < 1} = {}
        BY <3>3
      <3>5. calls'[c].result = "none"
        BY <2>6
      <3> QED
        BY <3>1, <3>2, <3>4, <3>5 DEF BegunWell
    <2>7. CASE calls' = calls /\ Running' = Running
      BY <2>4, <2>5, <2>7 DEF Begun
    <2>8. CASE Running' = Running + 1 /\ rem = 0 /\ calls'[Running + 1].result = "none"
      <3>1. 1..Running' = 1..Running \union {Running + 1}
        BY <1>1, <2>8
      <3>2. ASSUME NEW c \in 1..Running', c \notin dropped', InOneGo(c)'
            PROVE  BegunWell(c)'
        <4>1. CASE c \in 1..Running
          BY <2>5, <3>2, <4>1
        <4>2. CASE c = Running + 1
          BY <2>6, <2>8, <4>2
        <4> QED
          BY <3>1, <4>1, <4>2
      <3> QED
        BY <2>4, <3>2 DEF Begun
    <2> QED
      BY <2>1, <2>7, <2>8
  <1> QED
    BY <1>2, <1>3, <1>4

\* Events of one fragment where the client waits: what has been accepted of an event is
\* its beginning, and all of it exactly when the call returned normally.
THEOREM OutputBeginningAccepted ==
    ASSUME SinglyWaited
    PROVE  Spec => []BeginningAccepted
  <1>1. Init => IInv /\ Streamed /\ Begun
    BY InitIInv, InitStreamed, InitBegun
  <1>2. IInv /\ Streamed /\ Begun /\ [Next]_vars => IInv' /\ Streamed' /\ Begun'
    BY NextIInv, StreamedStep, BegunStep
  <1>3. IInv /\ Streamed /\ Begun => BeginningAccepted
    BY BegunSuffices
  <1> QED
    BY <1>1, <1>2, <1>3, PTL DEF Spec

-----------------------------------------------------------------------------
(* The output path implements OutputStream.                                *)

Name(f) == <<f.call, f.part>>

LEMMA NamesAre ==
    ASSUME NEW S, NEW b \in Seq(S)
    PROVE  /\ Names(b) \in Seq({Name(f) : f \in S}) /\ Len(Names(b)) = Len(b)
           /\ \A i \in 1..Len(b) : Names(b)[i] = Name(b[i])
           /\ DOMAIN Names(b) = 1..Len(b) /\ Len(b) \in Nat
  <1>1. DOMAIN b = 1..Len(b) /\ Len(b) \in Nat /\ \A i \in 1..Len(b) : b[i] \in S
    BY LenProperties, ElementOfSeq
  <1>2. Names(b) = [i \in 1..Len(b) |-> Name(b[i])]
    BY <1>1, Zenon DEF Names, Name
  <1> DEFINE T == {Name(f) : f \in S}
             g(i) == Name(b[i])
  <1>3. \A i \in 1..Len(b) : g(i) \in T
    BY <1>1
  <1> HIDE DEF T, g
  <1>4. [i \in 1..Len(b) |-> g(i)] \in Seq(T)
    BY <1>1, <1>3, IsASeq
  <1>5. Len([i \in 1..Len(b) |-> g(i)]) = Len(b)
    BY <1>1
  <1>6. Names(b) = [i \in 1..Len(b) |-> g(i)]
    BY <1>2, Zenon DEF g
  <1>7. \A i \in 1..Len(b) : Names(b)[i] = Name(b[i])
    BY <1>2
  <1>8. DOMAIN Names(b) = 1..Len(b)
    BY <1>2
  <1> QED
    BY <1>1, <1>4, <1>5, <1>6, <1>7, <1>8 DEF T

LEMMA NamesEmpty == Names(<<>>) = <<>>
  <1>1. <<>> \in Seq({}) /\ Len(<<>>) = 0
    BY EmptySeq
  <1>2. Len(Names(<<>>)) = 0 /\ Names(<<>>) \in Seq({Name(f) : f \in {}})
    BY <1>1, NamesAre
  <1> QED
    BY <1>2, EmptySeq

LEMMA NamesAppend ==
    ASSUME NEW S, NEW b \in Seq(S), NEW f \in S
    PROVE  Names(Append(b, f)) = Append(Names(b), Name(f))
  <1> DEFINE c == Append(b, f)
             d == Append(Names(b), Name(f))
             T == {Name(g) : g \in S}
  <1>1. /\ Len(b) \in Nat /\ c \in Seq(S) /\ Len(c) = Len(b) + 1 /\ c[Len(b) + 1] = f
        /\ \A i \in 1..Len(b) : c[i] = b[i]
    BY AppendProperties, LenProperties
  <1>2. Names(b) \in Seq(T) /\ Len(Names(b)) = Len(b) /\ \A i \in 1..Len(b) : Names(b)[i] = Name(b[i])
    BY NamesAre
  <1>3. Name(f) \in T
    OBVIOUS
  <1> HIDE DEF T
  <1>4. /\ d \in Seq(T) /\ Len(d) = Len(b) + 1 /\ d[Len(b) + 1] = Name(f)
        /\ \A i \in 1..Len(b) : d[i] = Names(b)[i]
    BY <1>2, <1>3, AppendProperties
  <1>5. /\ Names(c) \in Seq(T) /\ Len(Names(c)) = Len(c)
        /\ \A i \in 1..Len(c) : Names(c)[i] = Name(c[i])
    BY <1>1, NamesAre DEF T
  <1> SUFFICES Names(c) = d
    OBVIOUS
  <1> HIDE DEF c, d
  <1>6. ASSUME NEW i \in 1..Len(Names(c)) PROVE Names(c)[i] = d[i]
    <2>1. CASE i = Len(b) + 1
      <3>1. Names(c)[i] = Name(f)
        BY <1>1, <1>5, <2>1
      <3> QED
        BY <1>4, <2>1, <3>1
    <2>2. CASE i \in 1..Len(b)
      <3>1. i \in 1..Len(c)
        BY <1>1, <2>2
      <3>2. Names(c)[i] = Name(b[i])
        BY <1>1, <1>5, <2>2, <3>1
      <3> QED
        BY <1>2, <1>4, <2>2, <3>2
    <2> QED
      BY <1>1, <1>5, <2>1, <2>2
  <1> QED
    BY <1>1, <1>4, <1>5, <1>6, SeqEqual

LEMMA NamesTail ==
    ASSUME NEW S, NEW b \in Seq(S), b # <<>>
    PROVE  /\ Names(b) # <<>> /\ Head(Names(b)) = Name(Head(b))
           /\ Names(Tail(b)) = Tail(Names(b))
  <1> DEFINE c == Tail(b)
             d == Tail(Names(b))
             T == {Name(g) : g \in S}
  <1>1. /\ Len(b) \in Nat /\ Len(b) # 0 /\ Head(b) = b[1] /\ c \in Seq(S) /\ Len(c) = Len(b) - 1
        /\ \A i \in 1..Len(c) : c[i] = b[i + 1]
    BY HeadTailProperties, EmptySeq, LenProperties
  <1>2. Names(b) \in Seq(T) /\ Len(Names(b)) = Len(b) /\ \A i \in 1..Len(b) : Names(b)[i] = Name(b[i])
    BY NamesAre
  <1>3. /\ Names(c) \in Seq(T) /\ Len(Names(c)) = Len(c)
        /\ \A i \in 1..Len(c) : Names(c)[i] = Name(c[i])
    BY <1>1, NamesAre
  <1> HIDE DEF T
  <1>4. Names(b) # <<>>
    BY <1>1, <1>2, EmptySeq
  <1>5. /\ Head(Names(b)) = Names(b)[1] /\ d \in Seq(T) /\ Len(d) = Len(b) - 1
        /\ \A i \in 1..Len(d) : d[i] = Names(b)[i + 1]
    BY <1>2, <1>4, HeadTailProperties
  <1> SUFFICES Names(b) # <<>> /\ Head(Names(b)) = Name(Head(b)) /\ Names(c) = d
    OBVIOUS
  <1> HIDE DEF c, d
  <1>6. Head(Names(b)) = Name(Head(b))
    BY <1>1, <1>2, <1>5
  <1>7. ASSUME NEW i \in 1..Len(Names(c)) PROVE Names(c)[i] = d[i]
    <2>1. i \in 1..Len(c) /\ i \in 1..Len(d) /\ i + 1 \in 1..Len(b)
      BY <1>1, <1>3, <1>5
    <2> QED
      BY <1>1, <1>2, <1>3, <1>5, <2>1
  <1>8. Names(c) = d
    BY <1>1, <1>3, <1>5, <1>7, SeqEqual
  <1> QED
    BY <1>4, <1>6, <1>8

LEMMA NamesEarlier ==
    ASSUME NEW S, NEW b \in Seq(S), NEW f, \A g \in Range(b) : Before(g, f)
    PROVE  \A i \in DOMAIN Names(b) : Stream!Earlier(Names(b)[i], Name(f))
  <1> SUFFICES ASSUME NEW i \in DOMAIN Names(b)
               PROVE  Stream!Earlier(Names(b)[i], Name(f))
    OBVIOUS
  <1>1. i \in 1..Len(b) /\ Names(b)[i] = Name(b[i])
    BY NamesAre
  <1>2. Before(b[i], f)
    BY <1>1, LenProperties DEF Range
  <1> QED
    BY <1>1, <1>2 DEF Before, Stream!Earlier, Name

LEMMA NamesInOrder ==
    ASSUME NEW S, NEW b \in Seq(S), InOrder(b)
    PROVE  \A i, j \in DOMAIN Names(b) : i < j => Stream!Earlier(Names(b)[i], Names(b)[j])
  <1> SUFFICES ASSUME NEW i \in DOMAIN Names(b), NEW j \in DOMAIN Names(b), i < j
               PROVE  Stream!Earlier(Names(b)[i], Names(b)[j])
    OBVIOUS
  <1>1. /\ i \in 1..Len(b) /\ Names(b)[i] = Name(b[i])
        /\ j \in 1..Len(b) /\ Names(b)[j] = Name(b[j])
    BY NamesAre
  <1>2. Before(b[i], b[j])
    BY <1>1 DEF InOrder
  <1> QED
    BY <1>1, <1>2 DEF Before, Stream!Earlier, Name

LEMMA NamesRange ==
    ASSUME NEW S, NEW b \in Seq(S), NEW c \in Seq(S), Range(c) \subseteq Range(b)
    PROVE  Range(Names(c)) \subseteq Range(Names(b))
  <1> SUFFICES ASSUME NEW i \in DOMAIN Names(c)
               PROVE  Names(c)[i] \in Range(Names(b))
    BY DEF Range
  <1>1. i \in 1..Len(c) /\ Names(c)[i] = Name(c[i]) /\ DOMAIN c = 1..Len(c) /\ DOMAIN b = 1..Len(b)
    BY NamesAre, LenProperties
  <1>2. c[i] \in Range(b)
    BY <1>1 DEF Range
  <1>3. PICK j \in 1..Len(b) : b[j] = c[i]
    BY <1>1, <1>2 DEF Range
  <1>4. j \in DOMAIN Names(b) /\ Names(b)[j] = Name(b[j])
    BY NamesAre
  <1> QED
    BY <1>1, <1>3, <1>4 DEF Range

\* What waits, and what has been delivered, is in order as the whole stream is.
LEMMA SuffixInOrder ==
    ASSUME NEW S, NEW d \in Seq(S), NEW b \in Seq(S), InOrder(d \o b)
    PROVE  InOrder(b) /\ Range(d) \subseteq Range(d \o b) /\ Range(b) \subseteq Range(d \o b)
  <1>1. <<>> \in Seq(S) /\ Len(<<>>) = 0
    BY EmptySeq
  <1>2. Thinned(<<>>, d) /\ Thinned(b, b)
    BY <1>1, ThinnedEmpty, ThinnedSame
  <1>3. Thinned(<<>> \o b, d \o b)
    BY <1>1, <1>2, ThinnedConcat
  <1>4. <<>> \o b = b
    BY ConcatEmptySeq
  <1>5. d \o b \in Seq(S)
    BY ConcatProperties
  <1>6. Thinned(b, d \o b)
    BY <1>3, <1>4, Zenon
  <1>7. InOrder(b)
    BY <1>5, <1>6, ThinnedKeeps
  <1>8. Range(d \o b) = Range(d) \union Range(b)
    BY RangeConcatenation
  <1> QED
    BY <1>7, <1>8

LEMMA AttemptAccepts ==
    ASSUME SinglyWaited, IInv, Streamed, TryOnce \/ TryWait
    PROVE  [Stream!Next]_<<Names(pool \o obuf), Names(delivered)>>
  <1>1. PICK a : /\ pc = "try" /\ Attempted(a)
                 /\ obuf' = a.alsa.obuf /\ pool' = a.alsa.pool
                 /\ UNCHANGED <<user, delivered, dropped>>
                 /\ Len(Log) < MaxLog
    BY AttemptEnds, Zenon
  <1>2. /\ a.alsa.result = "ok" /\ Sends(rem) =>
              pool' \o obuf' = Append(pool \o obuf, Fragment(rem))
        /\ a.alsa.result # "ok" \/ ~Sends(rem) => pool' \o obuf' = pool \o obuf
    BY <1>1, AttemptLog
  <1>3. Names(delivered)' = Names(delivered)
    BY <1>1
  <1>4. CASE pool' \o obuf' = pool \o obuf
    <2>1. Names(pool \o obuf)' = Names(pool \o obuf)
      BY <1>4
    <2> QED
      BY <1>3, <2>1
  <1>5. CASE pool' \o obuf' = Append(pool \o obuf, Fragment(rem))
    <2>1. /\ Log \in Seq(Made) /\ delivered \in Seq(Made) /\ pool \o obuf \in Seq(Made)
          /\ Log = delivered \o (pool \o obuf) /\ Len(Log) \in Nat
      BY LogType DEF IInv, Recorded
    <2>2. /\ Fragment(rem) \in Made /\ First(rem) \in Nat \ {0} /\ Running \in Nat \ {0}
          /\ Fragment(rem).call = Running /\ Fragment(rem).part = First(rem)
      BY <1>1, FragmentIs
    <2> DEFINE m == Name(Fragment(rem))
    <2>3. m \in (UNION {1..u.calls : u \in Range(Users)}) \X (1..MaxLog)
      <3>1. Running \in UNION {1..u.calls : u \in Range(Users)}
        <4>1. Users[user] \in Range(Users) /\ Running <= Users[user].calls
          BY DEF IInv, TypeOK, Range
        <4>2. Users[user].calls \in Nat
          BY <4>1, OutputAssumption
        <4>3. Running \in 1..Users[user].calls
          BY <2>2, <4>1, <4>2
        <4> QED
          BY <4>1, <4>3
      <3>2. First(rem) \in 1..MaxLog
        <4>1. rem <= Len(Log) + 1 /\ rem \in Nat /\ MaxLog \in Nat
          BY OutputAssumption DEF Streamed, IInv, TypeOK
        <4> QED
          BY <1>1, <2>1, <2>2, <4>1 DEF First
      <3> QED
        BY <2>2, <3>1, <3>2 DEF Name
    <2>4. Names(pool \o obuf)' = Append(Names(pool \o obuf), m)
      <3>1. \A f \in Made : Names(Append(pool \o obuf, f)) = Append(Names(pool \o obuf), Name(f))
        BY <2>1, NamesAppend
      <3>2. Names(Append(pool \o obuf, Fragment(rem))) = Append(Names(pool \o obuf), m)
        BY <2>2, <3>1
      <3> QED
        BY <1>5, <3>2, Zenon
    <2>5. /\ \A i \in DOMAIN Names(pool \o obuf) : Stream!Earlier(Names(pool \o obuf)[i], m)
          /\ \A i \in DOMAIN Names(delivered) : Stream!Earlier(Names(delivered)[i], m)
      <3>1. \A g \in Range(Log) : Before(g, Fragment(rem))
        BY <1>1, AttemptIsLater
      <3>2. Range(delivered) \subseteq Range(Log) /\ Range(pool \o obuf) \subseteq Range(Log)
        BY <2>1, SuffixInOrder DEF Streamed
      <3>3. /\ \A g \in Range(delivered) : Before(g, Fragment(rem))
            /\ \A g \in Range(pool \o obuf) : Before(g, Fragment(rem))
        BY <3>1, <3>2
      <3> QED
        BY <2>1, <3>3, NamesEarlier
    <2> HIDE DEF m
    <2>6. Stream!Accept(m)
      BY <1>3, <2>4, <2>5 DEF Stream!Accept
    <2> QED
      BY <2>3, <2>6 DEF Stream!Next
  <1> QED
    BY <1>2, <1>4, <1>5

LEMMA StreamStep ==
    ASSUME SinglyWaited, IInv, Streamed, [Next]_vars
    PROVE  [Stream!Next]_<<Names(pool \o obuf), Names(delivered)>>
  <1>1. /\ delivered \in Seq(Made) /\ pool \o obuf \in Seq(Made)
        /\ Log = delivered \o (pool \o obuf) /\ InOrder(Log)
    BY LogType DEF IInv, Recorded, Streamed
  <1>2. CASE TryOnce \/ TryWait
    BY <1>2, AttemptAccepts
  <1>3. CASE Drops
    <2>1. /\ pool' \o obuf' \in Seq(Made) /\ Thinned(pool' \o obuf', pool \o obuf)
          /\ delivered' = delivered
      BY <1>3, DropsLog, DropsReduce
    <2>2. InOrder(pool \o obuf)
      BY <1>1, SuffixInOrder
    <2>3. Range(pool' \o obuf') \subseteq Range(pool \o obuf) /\ InOrder(pool' \o obuf')
      BY <1>1, <2>1, <2>2, ThinnedKeeps
    <2>4. Range(Names(pool' \o obuf')) \subseteq Range(Names(pool \o obuf))
      BY <1>1, <2>1, <2>3, NamesRange
    <2>5. \A i, j \in DOMAIN Names(pool' \o obuf') :
              i < j => Stream!Earlier(Names(pool' \o obuf')[i], Names(pool' \o obuf')[j])
      BY <2>1, <2>3, NamesInOrder
    <2>6. Stream!Discard
      BY <2>1, <2>4, <2>5 DEF Stream!Discard, Stream!Range, Range
    <2> QED
      BY <2>6 DEF Stream!Next
  <1>4. CASE Deliver
    <2>1. /\ pool \o obuf # <<>> /\ Head(pool) = Head(pool \o obuf)
          /\ Tail(pool) \o obuf = Tail(pool \o obuf)
      BY <1>4, DeliverLog
    <2>2. /\ delivered' = Append(delivered, Head(pool \o obuf))
          /\ pool' \o obuf' = Tail(pool \o obuf)
      BY <1>4, <2>1 DEF Deliver
    <2>3. /\ Names(pool \o obuf) # <<>> /\ Head(Names(pool \o obuf)) = Name(Head(pool \o obuf))
          /\ Names(Tail(pool \o obuf)) = Tail(Names(pool \o obuf))
      BY <1>1, <2>1, NamesTail
    <2>4. Head(pool \o obuf) \in Made
      BY <1>1, <2>1, HeadTailProperties
    <2>5. Names(Append(delivered, Head(pool \o obuf)))
             = Append(Names(delivered), Name(Head(pool \o obuf)))
      BY <1>1, <2>4, NamesAppend
    <2>6. Stream!Deliver
      BY <2>2, <2>3, <2>5 DEF Stream!Deliver
    <2> QED
      BY <2>6 DEF Stream!Next
  <1>5. CASE UNCHANGED <<obuf, pool, delivered>>
    BY <1>5
  <1>6. CASE \/ \E op \in Users[user].ops \ {"drain"}, e \in Users[user].events : Begin(op, e)
             \/ BeginDrain
             \/ Poll
             \/ UNCHANGED vars
    BY <1>5, <1>6 DEF Begin, BeginDrain, Poll, vars
  <1> QED
    BY <1>2, <1>3, <1>4, <1>6, Zenon DEF Next, Drops

\* Events of one fragment where the client waits: output, with its buffers, waits
\* and retries, is the stream of messages of OutputStream.
THEOREM OutputImplementsStream ==
    ASSUME SinglyWaited
    PROVE  Spec => ImplementsStream
  <1>1. Init => Stream!Init
    <2> SUFFICES ASSUME Init
                 PROVE  Stream!Init
      OBVIOUS
    <2>1. pool \o obuf = <<>> /\ delivered = <<>>
      BY DEF Init
    <2> QED
      BY <2>1, NamesEmpty, Zenon DEF Stream!Init
  <1>2. Init => IInv /\ Streamed
    BY InitIInv, InitStreamed
  <1>3. IInv /\ Streamed /\ [Next]_vars => IInv' /\ Streamed'
    BY NextIInv, StreamedStep
  <1>4. IInv /\ Streamed /\ [Next]_vars => [Stream!Next]_<<Names(pool \o obuf), Names(delivered)>>
    BY StreamStep
  <1> QED
    BY <1>1, <1>2, <1>3, <1>4, PTL DEF Spec, ImplementsStream, Stream!Spec
=============================================================================
