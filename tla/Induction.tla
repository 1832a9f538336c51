------------------------------ MODULE Induction ------------------------------
(***************************************************************************)
(* What the proofs about data need: the least and the greatest number of a *)
(* set, induction over the natural numbers by the set of those for which   *)
(* something holds, quotients, the values of a recursion, and sequences    *)
(* put together from others, place by place.                               *)
(***************************************************************************)
EXTENDS Integers, SequencesExt, SequenceTheorems, WellFoundedInduction, TLAPS

LEMMA LeastExists ==
  ASSUME NEW T, T \subseteq Nat, T # {}
  PROVE  \E n \in T : \A k \in T : n <= k
<1>1. PICK n \in T : \A k \in T : ~(<<k, n>> \in OpToRel(<, Nat))
  BY NatLessThanWellFounded, WFMin, Zenon
<1>2. ASSUME NEW k \in T PROVE n <= k
  <2>1. ~(k < n)
    BY <1>1, Zenon DEF OpToRel
  <2> QED BY <2>1
<1> QED BY <1>2

LEMMA SetInduction ==
  ASSUME NEW P, 0 \in P, \A n \in Nat : n \in P => n + 1 \in P
  PROVE  \A n \in Nat : n \in P
<1>1. SUFFICES ASSUME Nat \ P # {} PROVE FALSE
  OBVIOUS
<1>2. PICK n \in Nat \ P : \A k \in Nat \ P : n <= k
  BY <1>1, LeastExists
<1>3. n # 0 /\ n \in Nat
  BY <1>2
<1>4. n - 1 \in Nat /\ ~(n <= n - 1) /\ (n - 1) + 1 = n
  BY <1>3
<1>5. n - 1 \in P
  BY <1>2, <1>4
<1> QED BY <1>2, <1>4, <1>5

LEMMA MaxOf ==
  ASSUME NEW n \in Nat, NEW s \in SUBSET (1 .. n + 1), n + 1 \in s
  PROVE  Max(s) = n + 1
<1>1. \A y \in s : n + 1 >= y
  OBVIOUS
<1>2. \A x \in s : (\A y \in s : x >= y) => x = n + 1
  <2> SUFFICES ASSUME NEW x \in s, \A y \in s : x >= y PROVE x = n + 1
    OBVIOUS
  <2>1. x \in 1 .. n + 1 /\ x >= n + 1
    OBVIOUS
  <2> QED BY <2>1
<1> QED BY <1>1, <1>2 DEF Max

(* Quotients and remainders.                                               *)
LEMMA Division ==
  ASSUME NEW x \in Nat, NEW m \in Nat, m > 0
  PROVE  x \div m \in Nat /\ x % m \in 0 .. m - 1 /\ x % m = x - m * (x \div m)
<1>1. x \div m \in Nat /\ x % m \in 0 .. m - 1
  OBVIOUS
<1>2. x % m = x - m * (x \div m)
  OBVIOUS
<1> QED BY <1>1, <1>2

LEMMA DivisionOf ==
  ASSUME NEW q \in Nat, NEW m \in Nat, NEW r \in 0 .. m - 1
  PROVE  (q * m + r) \div m = q /\ (q * m + r) % m = r
<1> DEFINE x == q * m + r
           d == x \div m
<1>1. q * m \in Nat /\ m > 0 /\ x \in Nat /\ (q + 1) * m = q * m + m
  OBVIOUS
<1>2. d \in Nat /\ x % m = x - m * d /\ x % m \in 0 .. m - 1
  <2> HIDE DEF x
  <2> QED BY <1>1, Division
<1>3. q * m <= x /\ x < q * m + m
  BY <1>1
<1> HIDE DEF x, d
<1>4. d * m = m * d /\ (d + 1) * m = m * d + m
  BY <1>1, <1>2
<1>5. ~(d + 1 <= q)
  <2> SUFFICES ASSUME d + 1 <= q PROVE FALSE
    OBVIOUS
  <2>1. (d + 1) * m <= q * m
    BY <1>1, <1>2
  <2> QED BY <1>1, <1>2, <1>3, <1>4, <2>1
<1>6. ~(q + 1 <= d)
  <2> SUFFICES ASSUME q + 1 <= d PROVE FALSE
    OBVIOUS
  <2>1. (q + 1) * m <= d * m
    BY <1>1, <1>2
  <2> QED BY <1>1, <1>2, <1>3, <1>4, <2>1
<1>7. d = q
  BY <1>2, <1>5, <1>6
<1>8. x % m = r
  BY <1>1, <1>2, <1>7 DEF x
<1> QED BY <1>7, <1>8 DEF d, x

(* A function defined from each number to the next.                        *)
IsRecursion(f, S, a, step) ==
  f \in [Nat -> S] /\ f[0] = a /\ \A n \in Nat : f[n + 1] = step[<<n, f[n]>>]

LEMMA RecursionExists ==
  ASSUME NEW S, NEW a \in S, NEW step \in [Nat \X S -> S]
  PROVE  \E f : IsRecursion(f, S, a, step)
<1> DEFINE Good(n, g) == /\ g \in [0 .. n -> S] /\ g[0] = a
                         /\ \A k \in 0 .. n - 1 : g[k + 1] = step[<<k, g[k]>>]
           P == {n \in Nat : \E g : Good(n, g)}
<1>1. 0 \in P
  <2> DEFINE g == [k \in 0 .. 0 |-> a]
  <2>1. Good(0, g)
    OBVIOUS
  <2> QED BY <2>1
<1>2. ASSUME NEW n \in Nat, n \in P PROVE n + 1 \in P
  <2>1. PICK g : Good(n, g)
    BY <1>2
  <2> DEFINE v == step[<<n, g[n]>>]
             h == [k \in 0 .. n + 1 |-> IF k = n + 1 THEN v ELSE g[k]]
  <2>2. v \in S
    BY <2>1
  <2> HIDE DEF v
  <2>3. h \in [0 .. n + 1 -> S] /\ h[0] = a /\ h[n + 1] = v /\ \A k \in 0 .. n : h[k] = g[k]
    BY <2>1, <2>2
  <2> HIDE DEF h
  <2>4. ASSUME NEW k \in 0 .. (n + 1) - 1 PROVE h[k + 1] = step[<<k, h[k]>>]
    <3>1. CASE k = n
      BY <2>3, <3>1 DEF v
    <3>2. CASE k # n
      <4>1. k \in 0 .. n - 1 /\ k \in 0 .. n /\ k + 1 \in 0 .. n
        BY <3>2
      <4> QED BY <2>1, <2>3, <4>1
    <3> QED BY <3>1, <3>2
  <2>5. Good(n + 1, h)
    BY <2>3, <2>4
  <2> HIDE DEF Good
  <2> QED BY <2>5
<1> HIDE DEF P
<1>3. \A n \in Nat : n \in P
  BY <1>1, <1>2, SetInduction
<1> USE DEF P
<1> DEFINE part == [n \in Nat |-> CHOOSE g : Good(n, g)]
           f == [n \in Nat |-> part[n][n]]
<1>4. \A n \in Nat : Good(n, part[n])
  <2> HIDE DEF Good
  <2> QED BY <1>3
<1> HIDE DEF part, P
<1>5. ASSUME NEW n \in Nat
      PROVE  \A k \in 0 .. n : part[n + 1][k] = part[n][k]
  <2> DEFINE Q == {k \in Nat : k <= n => part[n + 1][k] = part[n][k]}
  <2>1. Good(n, part[n]) /\ Good(n + 1, part[n + 1])
    BY <1>4
  <2>2. 0 \in Q
    BY <2>1
  <2>3. ASSUME NEW k \in Nat, k \in Q PROVE k + 1 \in Q
    <3> SUFFICES ASSUME k + 1 <= n PROVE part[n + 1][k + 1] = part[n][k + 1]
      OBVIOUS
    <3>1. k \in 0 .. n - 1 /\ k \in 0 .. (n + 1) - 1 /\ k <= n
      OBVIOUS
    <3> QED BY <2>1, <2>3, <3>1
  <2> HIDE DEF Q
  <2>4. \A k \in Nat : k \in Q
    BY <2>2, <2>3, SetInduction
  <2> QED BY <2>4 DEF Q
<1>6. f \in [Nat -> S] /\ f[0] = a
  <2>2. ASSUME NEW n \in Nat PROVE part[n][n] \in S
    <3>1. n \in 0 .. n /\ Good(n, part[n])
      BY <1>4
    <3>2. part[n] \in [0 .. n -> S]
      BY <3>1
    <3> HIDE DEF Good
    <3> QED BY <3>1, <3>2
  <2>3. part[0][0] = a
    <3>1. Good(0, part[0])
      <4> HIDE DEF Good
      <4> QED BY <1>4
    <3> QED BY <3>1, Zenon
  <2> QED BY <2>2, <2>3
<1>7. ASSUME NEW n \in Nat PROVE f[n + 1] = step[<<n, f[n]>>]
  <2>1. n \in 0 .. n /\ n \in 0 .. (n + 1) - 1
    OBVIOUS
  <2>2. Good(n + 1, part[n + 1])
    <3> HIDE DEF Good
    <3> QED BY <1>4
  <2>3. part[n + 1][n + 1] = step[<<n, part[n + 1][n]>>]
    BY <2>1, <2>2
  <2> HIDE DEF Good
  <2> QED BY <1>5, <2>1, <2>3
<1> HIDE DEF f
<1> QED BY <1>6, <1>7 DEF IsRecursion

-----------------------------------------------------------------------------
(* FlattenSeq, from place to place.                                        *)
LEMMA SumsExist ==
  ASSUME NEW S, NEW seqs \in Seq(Seq(S))
  PROVE  \E f \in [0 .. Len(seqs) -> Seq(S)] :
           f[0] = <<>> /\ \A i \in 1 .. Len(seqs) : f[i] = f[i - 1] \o seqs[i]
<1> DEFINE n == Len(seqs)
           Good(m, f) == /\ f \in [0 .. n -> Seq(S)] /\ f[0] = <<>>
                         /\ \A i \in 1 .. m : i <= n => f[i] = f[i - 1] \o seqs[i]
           P == {m \in Nat : \E f : Good(m, f)}
<1>0. n \in Nat /\ <<>> \in Seq(S) /\ \A i \in 1 .. n : seqs[i] \in Seq(S)
  BY SMT
<1> HIDE DEF n
<1>1. 0 \in P
  <2> DEFINE f == [i \in 0 .. n |-> <<>>]
  <2>1. Good(0, f)
    BY <1>0
  <2> QED BY <2>1
<1>2. ASSUME NEW m \in Nat, m \in P PROVE m + 1 \in P
  <2>1. PICK f : Good(m, f)
    BY <1>2
  <2> DEFINE v == f[m] \o seqs[m + 1]
             g == [f EXCEPT ![m + 1] = v]
  <2>2. CASE m + 1 <= n
    <3>1. m \in 0 .. n /\ m + 1 \in 1 .. n /\ f[m] \in Seq(S) /\ f \in [0 .. n -> Seq(S)] /\ f[0] = <<>>
      BY <1>0, <2>1, <2>2
    <3>2. v \in Seq(S)
      BY <1>0, <3>1
    <3> HIDE DEF v
    <3>3. /\ g \in [0 .. n -> Seq(S)] /\ g[m + 1] = v
          /\ \A i \in 0 .. n : i # m + 1 => g[i] = f[i]
      BY <1>0, <3>1, <3>2
    <3> HIDE DEF g
    <3>4. g[0] = <<>> /\ g[m] = f[m]
      BY <1>0, <3>1, <3>3
    <3>5. ASSUME NEW i \in 1 .. m + 1, i <= n PROVE g[i] = g[i - 1] \o seqs[i]
      <4>1. CASE i = m + 1
        <5>1. i - 1 = m
          BY <4>1
        <5> QED BY <3>3, <3>4, <4>1, <5>1 DEF v
      <4>2. CASE i # m + 1
        <5>1. i \in 1 .. m /\ i \in 0 .. n /\ i - 1 \in 0 .. n /\ i - 1 # m + 1
          BY <1>0, <3>5, <4>2
        <5>2. g[i] = f[i] /\ g[i - 1] = f[i - 1]
          BY <3>3, <4>2, <5>1
        <5> QED BY <2>1, <3>5, <5>1, <5>2
      <4> QED BY <4>1, <4>2
    <3>6. Good(m + 1, g)
      BY <3>3, <3>4, <3>5
    <3> HIDE DEF Good
    <3> QED BY <3>6
  <2>3. CASE ~(m + 1 <= n)
    <3>1. \A i \in 1 .. m + 1 : i <= n => i \in 1 .. m
      BY <1>0, <2>3
    <3>2. Good(m + 1, f)
      BY <2>1, <3>1
    <3> HIDE DEF Good
    <3> QED BY <3>2
  <2> QED BY <2>2, <2>3
<1> HIDE DEF P
<1>3. n \in P
  BY <1>0, <1>1, <1>2, SetInduction
<1> USE DEF P
<1>4. PICK f : Good(n, f)
  BY <1>3
<1>5. \A i \in 1 .. n : i <= n
  BY <1>0
<1> QED BY <1>4, <1>5 DEF n

LEMMA FlattenSums ==
  ASSUME NEW S, NEW seqs \in Seq(Seq(S))
  PROVE  \E f \in [0 .. Len(seqs) -> Seq(S)] :
           /\ f[0] = <<>>
           /\ \A i \in 1 .. Len(seqs) : f[i] = f[i - 1] \o seqs[i]
           /\ FlattenSeq(seqs) = f[Len(seqs)]
<1> DEFINE n == Len(seqs)
<1>1. /\ n \in Nat /\ <<>> \in Seq(S)
      /\ \A i \in 1 .. n : seqs[i] \in Seq(S)
  BY SMT
<1>3. PICK f \in [0 .. n -> Seq(S)] :
        f[0] = <<>> /\ \A i \in 1 .. n : f[i] = f[i - 1] \o seqs[i]
  BY SumsExist
<1>4. \A i \in 1 .. n : f[i] = f[i - 1] \o seqs[i]
  BY <1>3
<1>5. FlattenSeq(seqs) = f[n]
  <2>1. CASE n = 0
    <3>1. seqs = <<>>
      BY <2>1, EmptySeq
    <3> QED BY <1>3, <2>1, <3>1 DEF FlattenSeq
  <2>2. CASE n # 0
    <3> DEFINE Eq(h) == h = [i \in 1 .. n |-> IF i = 1 THEN seqs[i] ELSE h[i - 1] \o seqs[i]]
               g == [i \in 1 .. n |-> f[i]]
               h == CHOOSE h : Eq(h)
    <3>1. Eq(g)
      <4>1. ASSUME NEW i \in 1 .. n
            PROVE  f[i] = IF i = 1 THEN seqs[i] ELSE g[i - 1] \o seqs[i]
        <5>1. CASE i = 1
          <6>1. <<>> \o seqs[1] = seqs[1] /\ i - 1 = 0
            BY <1>1, <5>1, ConcatEmptySeq
          <6>2. f[i] = f[i - 1] \o seqs[i]
            BY <1>4
          <6> QED BY <1>3, <5>1, <6>1, <6>2
        <5>2. CASE i # 1
          <6>1. i - 1 \in 1 .. n
            BY <1>1, <5>2
          <6> QED BY <1>4, <5>2, <6>1
        <5> QED BY <5>1, <5>2
      <4> QED BY <4>1
    <3>2. Eq(h)
      BY <3>1
    <3>3. FlattenSeq(seqs) = h[n]
      BY <2>2 DEF FlattenSeq
    <3> HIDE DEF h
    <3> DEFINE P == {k \in Nat : k \in 1 .. n => h[k] = f[k]}
    <3>4. 0 \in P
      OBVIOUS
    <3>5. ASSUME NEW k \in Nat, k \in P PROVE k + 1 \in P
      <4> SUFFICES ASSUME k + 1 \in 1 .. n PROVE h[k + 1] = f[k + 1]
        OBVIOUS
      <4>1. h[k + 1] = IF k + 1 = 1 THEN seqs[k + 1] ELSE h[(k + 1) - 1] \o seqs[k + 1]
        BY <3>2
      <4>2. CASE k = 0
        <5>1. <<>> \o seqs[1] = seqs[1] /\ k + 1 = 1 /\ (k + 1) - 1 = 0
          BY <1>1, <4>2, ConcatEmptySeq
        <5>2. f[k + 1] = f[(k + 1) - 1] \o seqs[k + 1]
          BY <1>4
        <5> QED BY <1>3, <4>1, <5>1, <5>2
      <4>3. CASE k # 0
        <5>1. k \in 1 .. n /\ (k + 1) - 1 = k /\ k + 1 # 1
          BY <1>1, <4>3
        <5>2. h[k] = f[k]
          BY <3>5, <5>1
        <5>3. f[k + 1] = f[k] \o seqs[k + 1]
          BY <1>4, <5>1
        <5> QED BY <4>1, <5>1, <5>2, <5>3
      <4> QED BY <4>2, <4>3
    <3> HIDE DEF P
    <3>6. n \in P
      BY <1>1, <3>4, <3>5, SetInduction
    <3> USE DEF P
    <3>7. n \in 1 .. n
      BY <1>1, <2>2
    <3> QED BY <3>3, <3>6, <3>7
  <2> QED BY <2>1, <2>2
<1> QED BY <1>3, <1>4, <1>5

(* What holds of nothing and of two sequences one after the other holds of *)
(* the whole when it holds of the parts.                                   *)
LEMMA FlattenClosed ==
  ASSUME NEW S, NEW seqs \in Seq(Seq(S)),
         NEW C, <<>> \in C,
         \A i \in 1 .. Len(seqs) : seqs[i] \in C,
         \A s, t \in C : s \o t \in C
  PROVE  FlattenSeq(seqs) \in C
<1>1. PICK f \in [0 .. Len(seqs) -> Seq(S)] :
        /\ f[0] = <<>>
        /\ \A i \in 1 .. Len(seqs) : f[i] = f[i - 1] \o seqs[i]
        /\ FlattenSeq(seqs) = f[Len(seqs)]
  BY FlattenSums
<1> DEFINE n == Len(seqs)
           P == {k \in Nat : k <= n => f[k] \in C}
<1>2. n \in Nat
  BY SMT
<1> HIDE DEF n
<1>3. 0 \in P
  BY <1>1, <1>2
<1>4. ASSUME NEW k \in Nat, k \in P PROVE k + 1 \in P
  <2> SUFFICES ASSUME k + 1 <= n PROVE f[k + 1] \in C
    OBVIOUS
  <2>1. k <= n /\ k + 1 \in 1 .. n /\ (k + 1) - 1 = k
    BY <1>2
  <2>2. f[k] \in C
    BY <1>4, <2>1
  <2>3. seqs[k + 1] \in C /\ f[k + 1] = f[k] \o seqs[k + 1]
    BY <1>1, <2>1 DEF n
  <2> QED BY <2>2, <2>3
<1> HIDE DEF P
<1>5. n \in P
  BY <1>2, <1>3, <1>4, SetInduction
<1> USE DEF P
<1> QED BY <1>1, <1>2, <1>5 DEF n

(* The elements of the whole are those of the parts.                       *)
LEMMA FlattenRange ==
  ASSUME NEW S, NEW seqs \in Seq(Seq(S))
  PROVE  /\ FlattenSeq(seqs) \in Seq(S)
         /\ Range(FlattenSeq(seqs)) = UNION {Range(seqs[i]) : i \in 1 .. Len(seqs)}
<1>1. PICK f \in [0 .. Len(seqs) -> Seq(S)] :
        /\ f[0] = <<>>
        /\ \A i \in 1 .. Len(seqs) : f[i] = f[i - 1] \o seqs[i]
        /\ FlattenSeq(seqs) = f[Len(seqs)]
  BY FlattenSums
<1> DEFINE n == Len(seqs)
           P == {k \in Nat : k <= n => Range(f[k]) = UNION {Range(seqs[i]) : i \in 1 .. k}}
<1>2. n \in Nat /\ \A i \in 1 .. n : seqs[i] \in Seq(S)
  BY SMT
<1>0. f \in [0 .. n -> Seq(S)]
  BY <1>1
<1> HIDE DEF n
<1>3. 0 \in P
  <2>1. Range(<<>>) = {} /\ 1 .. 0 = {}
    BY DEF Range
  <2> QED BY <1>1, <1>2, <2>1
<1>4. ASSUME NEW k \in Nat, k \in P PROVE k + 1 \in P
  <2> SUFFICES ASSUME k + 1 <= n
               PROVE  Range(f[k + 1]) = UNION {Range(seqs[i]) : i \in 1 .. k + 1}
    OBVIOUS
  <2>1. k <= n /\ k \in 0 .. n /\ k + 1 \in 1 .. n /\ (k + 1) - 1 = k
    BY <1>2
  <2>2. f[k + 1] = f[k] \o seqs[k + 1] /\ f[k] \in Seq(S) /\ seqs[k + 1] \in Seq(S)
    BY <1>0, <1>1, <1>2, <2>1 DEF n
  <2>3. Range(f[k + 1]) = Range(f[k]) \cup Range(seqs[k + 1])
    BY <2>2, RangeConcatenation
  <2>4. Range(f[k]) = UNION {Range(seqs[i]) : i \in 1 .. k}
    BY <1>4, <2>1
  <2>5. 1 .. k + 1 = (1 .. k) \cup {k + 1}
    BY <1>4
  <2> QED BY <2>3, <2>4, <2>5, Zenon
<1> HIDE DEF P
<1>5. n \in P
  BY <1>2, <1>3, <1>4, SetInduction
<1> USE DEF P
<1>6. n \in 0 .. n /\ n <= n
  BY <1>2
<1> QED BY <1>0, <1>1, <1>5, <1>6 DEF n
=============================================================================
