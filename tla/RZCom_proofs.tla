---------------------------- MODULE RZCom_proofs ----------------------------
(***************************************************************************)
(* Proofs about RZCom, for any directors, factories, objects and wrappers: *)
(* the count of every object is the number of references to it, and an     *)
(* object is freed exactly when there is none; the COM is where the        *)
(* library's director leads, and a lookup finds whatever is there; and,    *)
(* for a game that counts what it holds before it unloads, a director's    *)
(* count is what the game holds.  They begin with what the recursions over *)
(* child directors reach, and in which order, for any nesting without a    *)
(* cycle: the directors below one are those its children lead to, each of  *)
(* them after all that are below it.                                       *)
(***************************************************************************)
EXTENDS RZCom, SequenceTheorems, FiniteSetTheorems, Induction

-----------------------------------------------------------------------------
(* Nestings without a cycle.                                               *)

Nestings == [Directors -> Seq(Directors)]

(* Nothing leads back to itself: every child is of a lower rank.           *)
Ranked(arr, n, rank) ==
  /\ rank \in [Directors -> 0 .. n]
  /\ \A d \in Directors : \A i \in DOMAIN arr[d] : rank[arr[d][i]] < rank[d]

Acyclic(arr) == \E n \in Nat : \E rank : Ranked(arr, n, rank)

(* The equation of Visits, of any nesting.                                 *)
ChildVisits(arr, v, d) == [i \in DOMAIN arr[d] |-> v[arr[d][i]]]

VisitsStep(arr, v) == [d \in Directors |-> FlattenSeq(ChildVisits(arr, v, d)) \o <<d>>]

VisitsIn(arr) == CHOOSE v : v = VisitsStep(arr, v)

BelowIn(arr, d) == Range(VisitsIn(arr)[d])

(* What a director has when all its children have it, every director has.  *)
LEMMA NestingInduction ==
  ASSUME NEW arr \in Nestings, Acyclic(arr), NEW Q,
         \A d \in Directors : (\A i \in DOMAIN arr[d] : arr[d][i] \in Q) => d \in Q
  PROVE  Directors \subseteq Q
<1>0. PICK n \in Nat : \E rank : Ranked(arr, n, rank)
  BY DEF Acyclic
<1>1. PICK rank : Ranked(arr, n, rank)
  BY <1>0
<1>2. /\ \A d \in Directors : rank[d] \in 0 .. n
      /\ \A d \in Directors : \A i \in DOMAIN arr[d] : arr[d][i] \in Directors /\ rank[arr[d][i]] < rank[d]
  BY <1>1 DEF Ranked, Nestings
<1> DEFINE P == {k \in Nat : \A d \in Directors : rank[d] < k => d \in Q}
<1>3. 0 \in P
  BY <1>2
<1>4. ASSUME NEW k \in Nat, k \in P PROVE k + 1 \in P
  <2>1. ASSUME NEW d \in Directors, rank[d] < k + 1 PROVE d \in Q
    <3>1. ASSUME NEW i \in DOMAIN arr[d] PROVE arr[d][i] \in Q
      <4>1. /\ arr[d][i] \in Directors /\ rank[arr[d][i]] < rank[d]
            /\ rank[arr[d][i]] \in 0 .. n /\ rank[d] \in 0 .. n
        BY <1>2
      <4>2. rank[arr[d][i]] < k
        BY <2>1, <4>1
      <4> QED BY <1>4, <4>1, <4>2
    <3> QED BY <3>1
  <2> QED BY <2>1
<1>5. n + 1 \in P
  <2> HIDE DEF P
  <2> QED BY <1>1, <1>3, <1>4, SetInduction
<1> QED BY <1>2, <1>5

LEMMA VisitsOfChildren == Visits = VisitsIn(mChildDirectorArray)
BY DEF Visits, VisitsIn, VisitsStep, ChildVisits

LEMMA ChildVisitsType ==
  ASSUME NEW arr \in Nestings, NEW v \in Nestings, NEW d \in Directors
  PROVE  /\ ChildVisits(arr, v, d) \in Seq(Seq(Directors))
         /\ Len(ChildVisits(arr, v, d)) = Len(arr[d])
         /\ \A i \in 1 .. Len(arr[d]) : /\ ChildVisits(arr, v, d)[i] = v[arr[d][i]]
                                        /\ arr[d][i] \in Directors
                                        /\ v[arr[d][i]] \in Seq(Directors)
<1>1. arr[d] \in Seq(Directors) /\ DOMAIN arr[d] = 1 .. Len(arr[d]) /\ Len(arr[d]) \in Nat
  BY DEF Nestings
<1>2. \A i \in 1 .. Len(arr[d]) : arr[d][i] \in Directors /\ v[arr[d][i]] \in Seq(Directors)
  BY <1>1 DEF Nestings
<1>3. ChildVisits(arr, v, d) = [i \in 1 .. Len(arr[d]) |-> v[arr[d][i]]]
  BY <1>1 DEF ChildVisits
<1> QED BY <1>1, <1>2, <1>3

LEMMA VisitsStepType ==
  ASSUME NEW arr \in Nestings, NEW v \in Nestings
  PROVE  /\ VisitsStep(arr, v) \in Nestings
         /\ \A d \in Directors :
              /\ FlattenSeq(ChildVisits(arr, v, d)) \in Seq(Directors)
              /\ VisitsStep(arr, v)[d] = FlattenSeq(ChildVisits(arr, v, d)) \o <<d>>
<1>1. \A d \in Directors : FlattenSeq(ChildVisits(arr, v, d)) \in Seq(Directors)
  BY ChildVisitsType, FlattenRange, Zenon
<1>2. \A d \in Directors : FlattenSeq(ChildVisits(arr, v, d)) \o <<d>> \in Seq(Directors)
  BY <1>1
<1> QED BY <1>1, <1>2 DEF VisitsStep, Nestings

LEMMA VisitsExist ==
  ASSUME NEW arr \in Nestings, Acyclic(arr)
  PROVE  /\ VisitsIn(arr) \in Nestings
         /\ VisitsIn(arr) = VisitsStep(arr, VisitsIn(arr))
<1>0. PICK n \in Nat : \E rank : Ranked(arr, n, rank)
  BY DEF Acyclic
<1>1. PICK rank : Ranked(arr, n, rank)
  BY <1>0
<1>2. /\ \A d \in Directors : rank[d] \in 0 .. n
      /\ \A d \in Directors : \A i \in DOMAIN arr[d] : arr[d][i] \in Directors /\ rank[arr[d][i]] < rank[d]
  BY <1>1 DEF Ranked, Nestings
<1> DEFINE Upto(k, v) == \A d \in Directors : rank[d] < k => v[d] = VisitsStep(arr, v)[d]
           P == {k \in Nat : \E v \in Nestings : Upto(k, v)}
<1>3. 0 \in P
  <2> DEFINE v == [d \in Directors |-> <<>>]
  <2>1. v \in Nestings
    BY DEF Nestings
  <2>2. Upto(0, v)
    BY <1>2
  <2> QED BY <2>1, <2>2
<1>4. ASSUME NEW k \in Nat, k \in P PROVE k + 1 \in P
  <2>1. PICK v \in Nestings : Upto(k, v)
    BY <1>4
  <2> DEFINE w == VisitsStep(arr, v)
  <2>2. w \in Nestings
    BY VisitsStepType
  <2>3. ASSUME NEW d \in Directors, rank[d] < k + 1 PROVE w[d] = VisitsStep(arr, w)[d]
    <3>1. \A i \in DOMAIN arr[d] : v[arr[d][i]] = w[arr[d][i]]
      <4> TAKE i \in DOMAIN arr[d]
      <4>1. arr[d][i] \in Directors /\ rank[arr[d][i]] < k
        <5>1. /\ arr[d][i] \in Directors /\ rank[arr[d][i]] < rank[d]
              /\ rank[arr[d][i]] \in 0 .. n /\ rank[d] \in 0 .. n
          BY <1>2
        <5> QED BY <2>3, <5>1
      <4> QED BY <2>1, <4>1
    <3> HIDE DEF w
    <3>2. VisitsStep(arr, v)[d] = VisitsStep(arr, w)[d]
      <4>1. ChildVisits(arr, v, d) = ChildVisits(arr, w, d)
        BY <3>1 DEF ChildVisits
      <4> QED BY <4>1 DEF VisitsStep
    <3> QED BY <3>2 DEF w
  <2> HIDE DEF w
  <2>4. Upto(k + 1, w)
    BY <2>3
  <2> HIDE DEF Upto
  <2> QED BY <2>2, <2>4
<1>5. n + 1 \in P
  <2> HIDE DEF P
  <2> QED BY <1>1, <1>3, <1>4, SetInduction
<1>6. PICK v \in Nestings : Upto(n + 1, v)
  BY <1>5
<1>7. v = VisitsStep(arr, v)
  <2>1. \A d \in Directors : v[d] = VisitsStep(arr, v)[d]
    <3> TAKE d \in Directors
    <3>1. rank[d] < n + 1
      BY <1>2
    <3> QED BY <1>6, <3>1
  <2>2. VisitsStep(arr, v) \in Nestings
    BY VisitsStepType
  <2> QED BY <2>1, <2>2 DEF Nestings
<1> DEFINE u == VisitsIn(arr)
<1>8. u = VisitsStep(arr, u)
  BY <1>7 DEF VisitsIn
<1> HIDE DEF u
<1> DEFINE Q == {d \in Directors : u[d] = v[d]}
<1>9. ASSUME NEW d \in Directors, \A i \in DOMAIN arr[d] : arr[d][i] \in Q PROVE d \in Q
  <2>1. ChildVisits(arr, u, d) = ChildVisits(arr, v, d)
    BY <1>9 DEF ChildVisits
  <2>2. VisitsStep(arr, u)[d] = VisitsStep(arr, v)[d]
    BY <2>1 DEF VisitsStep
  <2> QED BY <1>7, <1>8, <2>2, Zenon
<1>10. Directors \subseteq Q
  <2> HIDE DEF Q
  <2> QED BY <1>9, NestingInduction
<1>11. u = v
  <2>1. \A d \in Directors : u[d] = v[d]
    BY <1>10
  <2>2. u = [d \in Directors |-> u[d]]
    BY <1>8 DEF VisitsStep
  <2> QED BY <2>1, <2>2 DEF Nestings
<1> QED BY <1>8, <1>11 DEF u

-----------------------------------------------------------------------------
(* What is below a director.                                               *)

ClosedIn(arr, T) == \A e \in T : \A i \in DOMAIN arr[e] : arr[e][i] \in T

LEMMA BelowUnfolds ==
  ASSUME NEW arr \in Nestings, Acyclic(arr), NEW d \in Directors
  PROVE  /\ VisitsIn(arr)[d] \in Seq(Directors)
         /\ BelowIn(arr, d) \subseteq Directors
         /\ d \in BelowIn(arr, d)
         /\ \A i \in DOMAIN arr[d] : /\ arr[d][i] \in Directors
                                     /\ BelowIn(arr, arr[d][i]) \subseteq BelowIn(arr, d)
         /\ \A e \in BelowIn(arr, d) :
              e = d \/ \E i \in DOMAIN arr[d] : e \in BelowIn(arr, arr[d][i])
<1> DEFINE v == VisitsIn(arr)
           kids == ChildVisits(arr, v, d)
<1>1. v \in Nestings /\ v[d] = VisitsStep(arr, v)[d]
  BY VisitsExist
<1> HIDE DEF v
<1>2. /\ kids \in Seq(Seq(Directors)) /\ Len(kids) = Len(arr[d])
      /\ \A i \in 1 .. Len(arr[d]) : kids[i] = v[arr[d][i]] /\ arr[d][i] \in Directors
  BY <1>1, ChildVisitsType
<1>3. v[d] = FlattenSeq(kids) \o <<d>>
  BY <1>1 DEF VisitsStep
<1> HIDE DEF kids
<1>4. /\ FlattenSeq(kids) \in Seq(Directors)
      /\ Range(FlattenSeq(kids)) = UNION {Range(kids[i]) : i \in 1 .. Len(kids)}
  BY <1>2, FlattenRange
<1>5. <<d>> \in Seq(Directors) /\ Range(<<d>>) = {d}
  BY DEF Range
<1>6. Range(v[d]) = Range(FlattenSeq(kids)) \cup {d}
  <2>1. PICK s, t \in Seq(Directors) : s = FlattenSeq(kids) /\ t = <<d>>
    BY <1>4, <1>5
  <2>2. Range(s \o t) = Range(s) \cup Range(t)
    BY RangeConcatenation
  <2> QED BY <1>3, <1>5, <2>1, <2>2
<1>7. v[d] \in Seq(Directors) /\ Range(v[d]) \subseteq Directors
  BY <1>1, RangeOfSeq DEF Nestings
<1>8. DOMAIN arr[d] = 1 .. Len(arr[d])
  BY DEF Nestings
<1> QED BY <1>2, <1>4, <1>6, <1>7, <1>8 DEF v, BelowIn

LEMMA BelowLeast ==
  ASSUME NEW arr \in Nestings, Acyclic(arr), NEW d \in Directors
  PROVE  /\ ClosedIn(arr, BelowIn(arr, d))
         /\ \A T : d \in T /\ ClosedIn(arr, T) => BelowIn(arr, d) \subseteq T
<1>1. ASSUME NEW T, ClosedIn(arr, T) PROVE \A e \in Directors : e \in T => BelowIn(arr, e) \subseteq T
  <2> DEFINE Q == {e \in Directors : e \in T => BelowIn(arr, e) \subseteq T}
  <2>1. ASSUME NEW e \in Directors, \A i \in DOMAIN arr[e] : arr[e][i] \in Q PROVE e \in Q
    <3> SUFFICES ASSUME e \in T, NEW x \in BelowIn(arr, e) PROVE x \in T
      OBVIOUS
    <3>1. \A i \in DOMAIN arr[e] : arr[e][i] \in T
      BY <1>1 DEF ClosedIn
    <3>2. x = e \/ \E i \in DOMAIN arr[e] : x \in BelowIn(arr, arr[e][i])
      BY BelowUnfolds
    <3> QED BY <2>1, <3>1, <3>2
  <2>2. Directors \subseteq Q
    <3> HIDE DEF Q
    <3> QED BY <2>1, NestingInduction
  <2> QED BY <2>2
<1>2. \A e \in Directors : ClosedIn(arr, BelowIn(arr, e))
  <2> DEFINE Q == {e \in Directors : ClosedIn(arr, BelowIn(arr, e))}
  <2>1. ASSUME NEW e \in Directors, \A i \in DOMAIN arr[e] : arr[e][i] \in Q PROVE e \in Q
    <3> SUFFICES ASSUME NEW x \in BelowIn(arr, e), NEW j \in DOMAIN arr[x]
                 PROVE  arr[x][j] \in BelowIn(arr, e)
      BY DEF ClosedIn
    <3>1. CASE x = e
      <4>1. arr[e][j] \in Directors /\ BelowIn(arr, arr[e][j]) \subseteq BelowIn(arr, e)
        BY <3>1, BelowUnfolds
      <4>2. arr[e][j] \in BelowIn(arr, arr[e][j])
        BY <4>1, BelowUnfolds
      <4> QED BY <3>1, <4>1, <4>2
    <3>2. CASE x # e
      <4>1. PICK i \in DOMAIN arr[e] : x \in BelowIn(arr, arr[e][i])
        BY <3>2, BelowUnfolds
      <4>2. ClosedIn(arr, BelowIn(arr, arr[e][i]))
        BY <2>1
      <4>3. arr[x][j] \in BelowIn(arr, arr[e][i])
        BY <4>1, <4>2 DEF ClosedIn
      <4> QED BY <4>3, BelowUnfolds
    <3> QED BY <3>1, <3>2
  <2>2. Directors \subseteq Q
    <3> HIDE DEF Q
    <3> QED BY <2>1, NestingInduction
  <2> QED BY <2>2
<1> QED BY <1>1, <1>2

LEMMA BelowTransitive ==
  ASSUME NEW arr \in Nestings, Acyclic(arr), NEW d \in Directors, NEW e \in BelowIn(arr, d)
  PROVE  e \in Directors /\ BelowIn(arr, e) \subseteq BelowIn(arr, d)
<1>1. e \in Directors /\ ClosedIn(arr, BelowIn(arr, d))
  BY BelowUnfolds, BelowLeast
<1> QED BY <1>1, BelowLeast

-----------------------------------------------------------------------------
(* The order of the visits.                                                *)

(* Everything below a director of s comes before it in s.                  *)
OrderedIn(arr, s) ==
  \A i \in 1 .. Len(s) : \A e \in BelowIn(arr, s[i]) :
    e = s[i] \/ \E j \in 1 .. i - 1 : s[j] = e

LEMMA OrderedTogether ==
  ASSUME NEW arr, NEW s \in Seq(Directors), NEW t \in Seq(Directors),
         OrderedIn(arr, s), OrderedIn(arr, t)
  PROVE  s \o t \in Seq(Directors) /\ OrderedIn(arr, s \o t)
<1> DEFINE u == s \o t
<1>1. /\ u \in Seq(Directors) /\ Len(u) = Len(s) + Len(t) /\ Len(s) \in Nat /\ Len(t) \in Nat
      /\ \A i \in 1 .. Len(s) + Len(t) : u[i] = IF i <= Len(s) THEN s[i] ELSE t[i - Len(s)]
  BY ConcatProperties
<1> HIDE DEF u
<1>2. ASSUME NEW i \in 1 .. Len(u), NEW e \in BelowIn(arr, u[i]), e # u[i]
      PROVE  \E j \in 1 .. i - 1 : u[j] = e
  <2>1. CASE i <= Len(s)
    <3>1. i \in 1 .. Len(s) /\ u[i] = s[i]
      BY <1>1, <2>1
    <3>2. PICK j \in 1 .. i - 1 : s[j] = e
      BY <1>2, <3>1 DEF OrderedIn
    <3>3. u[j] = s[j]
      BY <1>1, <2>1, <3>1
    <3> QED BY <3>2, <3>3
  <2>2. CASE ~(i <= Len(s))
    <3> DEFINE k == i - Len(s)
    <3>1. k \in 1 .. Len(t) /\ u[i] = t[k]
      BY <1>1, <2>2
    <3> HIDE DEF k
    <3>2. PICK j \in 1 .. k - 1 : t[j] = e
      BY <1>2, <3>1 DEF OrderedIn
    <3>3. /\ j + Len(s) \in 1 .. i - 1 /\ j + Len(s) \in 1 .. Len(s) + Len(t)
          /\ ~(j + Len(s) <= Len(s)) /\ (j + Len(s)) - Len(s) = j
      BY <1>1, <2>2, <3>1 DEF k
    <3>4. u[j + Len(s)] = t[j]
      BY <1>1, <3>3
    <3> QED BY <3>2, <3>3, <3>4
  <2> QED BY <2>1, <2>2
<1>3. OrderedIn(arr, u)
  BY <1>2 DEF OrderedIn
<1> QED BY <1>1, <1>3 DEF u

LEMMA VisitsOrdered ==
  ASSUME NEW arr \in Nestings, Acyclic(arr)
  PROVE  \A d \in Directors : OrderedIn(arr, VisitsIn(arr)[d])
<1> DEFINE v == VisitsIn(arr)
           C == {s \in Seq(Directors) : OrderedIn(arr, s)}
           Q == {d \in Directors : v[d] \in C}
<1>1. v \in Nestings /\ v = VisitsStep(arr, v)
  BY VisitsExist
<1>2. <<>> \in C
  BY DEF OrderedIn
<1>3. \A s, t \in C : s \o t \in C
  BY OrderedTogether
<1>4. ASSUME NEW d \in Directors, \A i \in DOMAIN arr[d] : arr[d][i] \in Q PROVE d \in Q
  <2> DEFINE kids == ChildVisits(arr, v, d)
             f == FlattenSeq(kids)
  <2>1. /\ kids \in Seq(Seq(Directors)) /\ Len(kids) = Len(arr[d]) /\ DOMAIN arr[d] = 1 .. Len(arr[d])
        /\ \A i \in 1 .. Len(arr[d]) : kids[i] = v[arr[d][i]] /\ arr[d][i] \in Directors
    <3> HIDE DEF v
    <3>1. DOMAIN arr[d] = 1 .. Len(arr[d])
      BY DEF Nestings
    <3>2. v \in Nestings
      BY <1>1
    <3> QED BY <3>1, <3>2, ChildVisitsType
  <2>2. v[d] = f \o <<d>>
    BY <1>1 DEF VisitsStep
  <2> HIDE DEF kids, v, C
  <2>3. \A i \in 1 .. Len(kids) : kids[i] \in C
    BY <1>4, <2>1
  <2>4. f \in C
    BY <1>2, <1>3, <2>1, <2>3, FlattenClosed
  <2>5. f \in Seq(Directors) /\ Range(f) = UNION {Range(kids[i]) : i \in 1 .. Len(kids)}
    BY <2>1, FlattenRange
  <2>6. OrderedIn(arr, f)
    BY <2>4 DEF C
  <2> HIDE DEF f
  <2>7. /\ v[d] \in Seq(Directors) /\ Len(v[d]) = Len(f) + 1 /\ Len(f) \in Nat
        /\ v[d][Len(f) + 1] = d
        /\ \A i \in 1 .. Len(f) : v[d][i] = f[i]
    BY <2>2, <2>5
  <2>8. ASSUME NEW i \in 1 .. Len(v[d]), NEW e \in BelowIn(arr, v[d][i]), e # v[d][i]
        PROVE  \E j \in 1 .. i - 1 : v[d][j] = e
    <3>1. CASE i <= Len(f)
      <4>1. i \in 1 .. Len(f) /\ v[d][i] = f[i]
        BY <2>7, <3>1
      <4>2. PICK j \in 1 .. i - 1 : f[j] = e
        BY <2>6, <2>8, <4>1 DEF OrderedIn
      <4>3. v[d][j] = f[j]
        BY <2>7, <3>1, <4>1
      <4> QED BY <4>2, <4>3
    <3>2. CASE ~(i <= Len(f))
      <4>1. i = Len(f) + 1 /\ v[d][i] = d
        BY <2>7, <3>2
      <4>2. PICK k \in DOMAIN arr[d] : e \in BelowIn(arr, arr[d][k])
        BY <2>8, <4>1, BelowUnfolds
      <4>3. e \in Range(kids[k])
        BY <2>1, <4>2 DEF BelowIn, v
      <4>4. e \in Range(f)
        BY <2>1, <2>5, <4>3
      <4>5. PICK j \in 1 .. Len(f) : f[j] = e
        BY <2>5, <4>4 DEF Range
      <4> QED BY <2>7, <4>1, <4>5
    <3> QED BY <3>1, <3>2
  <2>9. OrderedIn(arr, v[d])
    BY <2>8 DEF OrderedIn
  <2> QED BY <2>7, <2>9 DEF C
<1>5. Directors \subseteq Q
  <2> HIDE DEF Q
  <2> QED BY <1>4, NestingInduction
<1> QED BY <1>5

-----------------------------------------------------------------------------
(* A director added with everything below it.                              *)

LEMMA ClosedByRange ==
  \A arr, T : ClosedIn(arr, T) <=> \A e \in T : Range(arr[e]) \subseteq T
BY DEF ClosedIn, Range

Added(arr, p, c) == [arr EXCEPT ![p] = arr[p] \o VisitsIn(arr)[c]]

(* With p not below c, p now leads to what is below c, and so does whatever *)
(* leads to p; a director that leads to p takes a rank above all of it.    *)
LEMMA AddedNesting ==
  ASSUME NEW arr \in Nestings, Acyclic(arr), NEW p \in Directors, NEW c \in Directors,
         p \notin BelowIn(arr, c)
  PROVE  /\ Added(arr, p, c) \in Nestings
         /\ Acyclic(Added(arr, p, c))
         /\ \A d \in Directors :
              BelowIn(Added(arr, p, c), d) =
                BelowIn(arr, d) \cup (IF p \in BelowIn(arr, d) THEN BelowIn(arr, c) ELSE {})
<1> DEFINE new == Added(arr, p, c)
<1>0. new = [arr EXCEPT ![p] = arr[p] \o VisitsIn(arr)[c]]
  BY DEF Added
<1> HIDE DEF new
<1>1. /\ new \in Nestings
      /\ \A d \in Directors :
           Range(new[d]) = Range(arr[d]) \cup (IF d = p THEN BelowIn(arr, c) ELSE {})
  <2>1. /\ arr[p] \in Seq(Directors) /\ VisitsIn(arr)[c] \in Seq(Directors)
        /\ Range(VisitsIn(arr)[c]) = BelowIn(arr, c)
    BY BelowUnfolds DEF BelowIn, Nestings
  <2>2. PICK s, t \in Seq(Directors) : s = arr[p] /\ t = VisitsIn(arr)[c]
    BY <2>1
  <2>3. s \o t \in Seq(Directors) /\ Range(s \o t) = Range(s) \cup Range(t)
    BY RangeConcatenation, ConcatProperties
  <2> DEFINE u == arr[p] \o VisitsIn(arr)[c]
  <2>4. u \in Seq(Directors) /\ Range(u) = Range(arr[p]) \cup BelowIn(arr, c)
    BY <2>1, <2>2, <2>3
  <2> HIDE DEF u
  <2>5. new = [arr EXCEPT ![p] = u]
    BY <1>0 DEF u
  <2>6. new \in Nestings /\ \A d \in Directors : new[d] = IF d = p THEN u ELSE arr[d]
    BY <2>4, <2>5 DEF Nestings
  <2>7. ASSUME NEW d \in Directors
        PROVE  Range(new[d]) = Range(arr[d]) \cup (IF d = p THEN BelowIn(arr, c) ELSE {})
    <3>1. CASE d = p
      BY <2>4, <2>6, <3>1
    <3>2. CASE d # p
      BY <2>6, <3>2
    <3> QED BY <3>1, <3>2
  <2> QED BY <2>6, <2>7, Zenon
<1>2. \A d \in Directors : /\ d \in BelowIn(arr, d) /\ BelowIn(arr, d) \subseteq Directors
                           /\ Range(arr[d]) \subseteq BelowIn(arr, d)
                           /\ Range(arr[d]) \subseteq Directors
  <2> TAKE d \in Directors
  <2>1. d \in BelowIn(arr, d) /\ BelowIn(arr, d) \subseteq Directors
    BY BelowUnfolds
  <2>2. Range(arr[d]) \subseteq BelowIn(arr, d)
    BY <2>1, BelowLeast, ClosedByRange
  <2> QED BY <2>1, <2>2
<1>3. \A d \in Directors : \A e \in BelowIn(arr, d) : BelowIn(arr, e) \subseteq BelowIn(arr, d)
  BY BelowTransitive
<1>3a. PICK n \in Nat : \E rank : Ranked(arr, n, rank)
  BY DEF Acyclic
<1>4. PICK rank : Ranked(arr, n, rank)
  BY <1>3a
<1>5. \A d \in Directors : \A e \in Range(arr[d]) : rank[e] < rank[d]
  BY <1>4 DEF Ranked, Range
<1>6. \A d \in Directors : rank[d] \in 0 .. n
  BY <1>4 DEF Ranked
<1>7. \A e \in BelowIn(arr, c) : e \in Directors /\ rank[e] <= rank[c]
  <2> DEFINE T == {e \in Directors : rank[e] <= rank[c]}
  <2>1. ASSUME NEW e \in T, NEW x \in Range(arr[e]) PROVE x \in T
    <3>1. x \in Directors /\ rank[x] < rank[e] /\ rank[e] <= rank[c]
      BY <1>2, <1>5, <2>1
    <3>2. rank[x] \in 0 .. n /\ rank[e] \in 0 .. n /\ rank[c] \in 0 .. n
      BY <1>6, <3>1
    <3> QED BY <3>1, <3>2
  <2>2. c \in T
    BY <1>6
  <2> HIDE DEF T
  <2>3. ClosedIn(arr, T)
    BY <2>1, ClosedByRange
  <2>4. BelowIn(arr, c) \subseteq T
    BY <2>2, <2>3, BelowLeast
  <2> QED BY <2>4 DEF T
<1>8. Acyclic(new)
  <2> DEFINE up(d) == IF p \in BelowIn(arr, d) THEN rank[c] + 1 ELSE 0
             r == [d \in Directors |-> rank[d] + up(d)]
             m == 2 * n + 1
  <2>1. r \in [Directors -> 0 .. m] /\ m \in Nat
    BY <1>6
  <2>2. ASSUME NEW d \in Directors, NEW e \in Range(new[d]) PROVE r[e] < r[d]
    <3>1. CASE e \in Range(arr[d])
      <4>1. e \in Directors /\ rank[e] < rank[d] /\ BelowIn(arr, e) \subseteq BelowIn(arr, d)
        BY <1>2, <1>3, <1>5, <3>1
      <4>2. p \in BelowIn(arr, e) => p \in BelowIn(arr, d)
        BY <4>1
      <4>3. rank[e] \in 0 .. n /\ rank[d] \in 0 .. n /\ rank[c] \in 0 .. n
        BY <1>6, <4>1
      <4> QED BY <4>1, <4>2, <4>3
    <3>2. CASE e \notin Range(arr[d])
      <4>1. d = p /\ e \in BelowIn(arr, c)
        BY <1>1, <2>2, <3>2
      <4>2. e \in Directors /\ rank[e] <= rank[c] /\ BelowIn(arr, e) \subseteq BelowIn(arr, c)
        BY <1>3, <1>7, <4>1
      <4>3. p \notin BelowIn(arr, e) /\ p \in BelowIn(arr, p)
        BY <1>2, <4>2
      <4>4. rank[e] \in 0 .. n /\ rank[p] \in 0 .. n /\ rank[c] \in 0 .. n
        BY <1>6, <4>2
      <4> QED BY <4>1, <4>2, <4>3, <4>4
    <3> QED BY <3>1, <3>2
  <2> HIDE DEF r, m
  <2>3. \A d \in Directors : \A i \in DOMAIN new[d] : r[new[d][i]] < r[d]
    BY <2>2 DEF Range
  <2> QED BY <2>1, <2>3 DEF Acyclic, Ranked
<1>9. ASSUME NEW d \in Directors
      PROVE  BelowIn(new, d) = BelowIn(arr, d)
                                 \cup (IF p \in BelowIn(arr, d) THEN BelowIn(arr, c) ELSE {})
  <2> DEFINE T == BelowIn(arr, d) \cup (IF p \in BelowIn(arr, d) THEN BelowIn(arr, c) ELSE {})
  <2>1. /\ \A x \in BelowIn(arr, d) : Range(arr[x]) \subseteq BelowIn(arr, d)
        /\ \A x \in BelowIn(arr, c) : Range(arr[x]) \subseteq BelowIn(arr, c)
    BY BelowLeast, ClosedByRange
  <2>2. BelowIn(new, d) \subseteq T
    <3>1. ASSUME NEW x \in T PROVE Range(new[x]) \subseteq T
      <4>1. x \in Directors
        BY <1>2, <3>1
      <4>2. Range(arr[x]) \subseteq T
        BY <2>1
      <4>3. x = p => p \in BelowIn(arr, d)
        OBVIOUS
      <4> QED BY <1>1, <4>1, <4>2, <4>3
    <3>2. d \in T
      BY <1>2
    <3> HIDE DEF T
    <3>3. ClosedIn(new, T)
      BY <3>1, ClosedByRange
    <3> QED BY <1>1, <1>8, <3>2, <3>3, BelowLeast
  <2>3. /\ d \in BelowIn(new, d) /\ BelowIn(new, d) \subseteq Directors
        /\ \A x \in BelowIn(new, d) : Range(new[x]) \subseteq BelowIn(new, d)
    <3>1. d \in BelowIn(new, d) /\ BelowIn(new, d) \subseteq Directors
      BY <1>1, <1>8, BelowUnfolds
    <3>2. ClosedIn(new, BelowIn(new, d))
      BY <1>1, <1>8, BelowLeast
    <3> QED BY <3>1, <3>2, ClosedByRange
  <2>4. \A x \in BelowIn(new, d) : Range(arr[x]) \subseteq BelowIn(new, d)
    BY <1>1, <2>3
  <2>5. BelowIn(arr, d) \subseteq BelowIn(new, d)
    <3>1. ClosedIn(arr, BelowIn(new, d))
      BY <2>4, ClosedByRange
    <3> QED BY <2>3, <3>1, BelowLeast
  <2>6. p \in BelowIn(arr, d) => BelowIn(arr, c) \subseteq BelowIn(new, d)
    BY <1>1, <2>3, <2>5
  <2> QED BY <2>2, <2>5, <2>6
<1> QED BY <1>1, <1>8, <1>9 DEF new

-----------------------------------------------------------------------------
(* Directors.                                                              *)

(* Nothing of a library that is not loaded is held.                        *)
DirInv ==
  /\ mnRefCount \in [Directors -> Nat]
  /\ dirHeld \in [Directors -> Nat]
  /\ IF loaded THEN mnRefCount = dirHeld ELSE \A d \in Directors : dirHeld[d] = 0

(* Only HoldDirector and DropDirector change a count or what is held, and  *)
(* both change both.                                                       *)
LEMMA NextDirInv == ASSUME GameCounts, DirInv, [Next]_vars PROVE DirInv'
<1>1. CASE Register
  BY <1>1 DEF Register, AddDirector, AddCls, InitializeCOM, OnStart, DirInv
<1>2. ASSUME NEW d \in Directors, HoldDirector(d) PROVE DirInv'
  <2>1. /\ loaded /\ loaded' = loaded
        /\ mnRefCount' = [mnRefCount EXCEPT ![d] = @ + 1]
        /\ dirHeld' = [dirHeld EXCEPT ![d] = @ + 1]
    BY <1>2 DEF HoldDirector, AddRef
  <2> QED BY <2>1, SMT DEF DirInv
<1>3. ASSUME NEW d \in Directors, DropDirector(d) PROVE DirInv'
  <2>1. /\ loaded /\ loaded' = loaded /\ dirHeld[d] > 0
        /\ mnRefCount' = [mnRefCount EXCEPT ![d] = IF @ > 0 THEN @ - 1 ELSE 0]
        /\ dirHeld' = [dirHeld EXCEPT ![d] = @ - 1]
    BY <1>3 DEF DropDirector, RemoveRef
  <2> QED BY <2>1, SMT DEF DirInv
<1>4. ASSUME NEW cls \in ClassIDs, NEW iid \in Interfaces, NEW o \in Objects, NEW w \in Objects,
             GetClassObject(cls, iid, o, w)
      PROVE  DirInv'
  BY <1>4 DEF GetClassObject, directorVars, DirInv
<1>5. CASE UseObjects
  BY <1>5 DEF UseObjects, directorVars, DirInv
<1>6. CASE Unload
  BY <1>6 DEF Unload, directorVars, DirInv
<1>7. CASE Load
  BY <1>7 DEF Load, DirInv
<1>8. CASE UNCHANGED vars
  BY <1>8 DEF vars, directorVars, DirInv
<1> QED BY <1>1, <1>2, <1>3, <1>4, <1>5, <1>6, <1>7, <1>8 DEF Next

(* Of a game that counts, whatever it registers and asks for, a director's *)
(* count is what the game holds, and a library that is unloaded is not     *)
(* referenced: AddRef and Release of rzcomdlldirector.cpp.                 *)
THEOREM DirectorCounts ==
  ASSUME GameCounts
  PROVE  Spec => [](DirectorsCounted /\ UnloadSafe)
<1>1. Init => DirInv
  BY SMT DEF Init, Unloaded, DirInv
<1>2. DirInv => DirectorsCounted /\ UnloadSafe
  BY DEF DirInv, DirectorsCounted, UnloadSafe
<1>3. DirInv /\ [Next]_vars => DirInv'
  BY NextDirInv
<1> QED BY <1>1, <1>2, <1>3, PTL DEF Spec

-----------------------------------------------------------------------------
(* Objects. The class of an object is whatever a factory makes: only       *)
(* strings count differently.                                              *)

IsObject(x) == x = [class |-> x.class, count |-> x.count]

Pointing(o) == {w \in Wrappers : ptr[w] = o}

ObjInv ==
  /\ objs = [o \in Objects |-> objs[o]]
  /\ \A o \in Objects : IsObject(objs[o])
  /\ owned \in [Objects -> 0 .. MaxOwned]
  /\ ptr \in [Wrappers -> Objects \cup {NoObject}]
  /\ CountsReferences
  /\ \A o \in Objects : References(o) > 0 => Alive(o)

(* The methods on one object.                                              *)
LEMMA AddedRefCounts ==
  ASSUME NEW x, IsObject(x), x.count \in 0 .. Width - 2
  PROVE  AddedRef(x) = [class |-> x.class, count |-> x.count + 1]
<1>1. (x.count + 1) % Width = x.count + 1
  BY ObjectAssumption, SMT
<1>2. AddedRef(x) = [x EXCEPT !.count = x.count + 1]
  BY <1>1 DEF AddedRef
<1> QED BY <1>2, SMT DEF IsObject

LEMMA ReleasedCounts ==
  ASSUME NEW x, IsObject(x), x.count \in 1 .. Width - 1
  PROVE  /\ IsObject(Released(x))
         /\ Released(x).count = x.count - 1
         /\ x.count > 1 => Released(x).class = x.class
<1>1. (x.count + Width - 1) % Width = x.count - 1
  <2>1. x.count - 1 \in 0 .. Width - 1 /\ x.count + Width - 1 = (x.count - 1) + Width
    BY ObjectAssumption, SMT
  <2> QED BY <2>1, ObjectAssumption, SMT
<1>2. CASE x.count = 1
  <2>1. Released(x) = Absent
    BY <1>1, <1>2, SMT DEF Released
  <2> QED BY <1>2, <2>1, SMT DEF Absent, IsObject
<1>3. CASE x.count # 1
  <2>1. x.count > 1 /\ ~(x.count <= 1) /\ x.count - 1 # 0
    BY <1>3, ObjectAssumption, SMT
  <2>2. Released(x) = [x EXCEPT !.count = x.count - 1]
    BY <1>1, <2>1 DEF Released
  <2>3. Released(x) = [class |-> x.class, count |-> x.count - 1]
    BY <2>2, SMT DEF IsObject
  <2> QED BY <2>1, <2>3 DEF IsObject
<1> QED BY <1>2, <1>3

(* An object made in vain is gone again, whatever its class.               *)
LEMMA RefusedGone == \A class : Refused(class) = Absent
<1> TAKE class
<1>1. IsObject(New(class)) /\ New(class).count = 0 /\ 0 \in 0 .. Width - 2
  BY ObjectAssumption, SMT DEF New, IsObject
<1>2. AddedRef(New(class)) = [class |-> New(class).class, count |-> 0 + 1]
  BY <1>1, AddedRefCounts
<1>3. AddedRef(New(class)).count = 1
  BY <1>2, SMT
<1>4. (1 + Width - 1) % Width = 0
  BY ObjectAssumption, SMT
<1> QED BY <1>3, <1>4, SMT DEF Refused, Released

-----------------------------------------------------------------------------
(* Wrappers are finitely many, so those that point to an object are.       *)
LEMMA PointingType ==
  \A o : /\ IsFiniteSet(Pointing(o))
         /\ Cardinality(Pointing(o)) \in 0 .. Cardinality(Wrappers)
         /\ Cardinality(Wrappers) \in Nat
<1> TAKE o
<1>1. IsFiniteSet(Wrappers) /\ Pointing(o) \in SUBSET Wrappers
  BY ReferenceAssumption DEF Pointing
<1>2. IsFiniteSet(Pointing(o)) /\ Cardinality(Pointing(o)) <= Cardinality(Wrappers)
  BY <1>1, FS_Subset
<1>3. Cardinality(Pointing(o)) \in Nat /\ Cardinality(Wrappers) \in Nat
  BY <1>1, <1>2, FS_CardinalityType
<1> QED BY <1>2, <1>3, SMT

(* A wrapper that points to an object counts for one.                      *)
LEMMA PointingPositive ==
  ASSUME NEW w \in Wrappers, NEW o, ptr[w] = o
  PROVE  Cardinality(Pointing(o)) > 0
<1>1. Pointing(o) # {}
  BY DEF Pointing
<1>2. Cardinality(Pointing(o)) # 0
  BY <1>1, PointingType, FS_EmptySet
<1> QED BY <1>2, PointingType, SMT

(* When a wrapper moves, its old object loses one and its new one gains it.*)
LEMMA PointerMoves ==
  ASSUME NEW w \in Wrappers, NEW p, ptr \in [Wrappers -> Objects \cup {NoObject}],
         ptr[w] # p, ptr' = [ptr EXCEPT ![w] = p], NEW o
  PROVE  Cardinality(Pointing(o)') =
           Cardinality(Pointing(o)) + (IF o = p THEN 1 ELSE 0) - (IF o = ptr[w] THEN 1 ELSE 0)
<1>0. /\ Cardinality(Pointing(o)) \in Int /\ IsFiniteSet(Pointing(o))
      /\ \A v \in Wrappers : ptr'[v] = IF v = w THEN p ELSE ptr[v]
  BY PointingType, SMT
<1>1. CASE o = p
  <2>1. Pointing(o)' = Pointing(o) \cup {w} /\ w \notin Pointing(o)
    BY <1>0, <1>1 DEF Pointing
  <2>2. Cardinality(Pointing(o) \cup {w}) = Cardinality(Pointing(o)) + 1
    BY <1>0, <2>1, FS_AddElement
  <2> QED BY <1>0, <1>1, <2>1, <2>2, SMT
<1>2. CASE o # p /\ o = ptr[w]
  <2>1. Pointing(o)' = Pointing(o) \ {w} /\ w \in Pointing(o)
    BY <1>0, <1>2 DEF Pointing
  <2>2. Cardinality(Pointing(o) \ {w}) = Cardinality(Pointing(o)) - 1
    BY <1>0, <2>1, FS_RemoveElement
  <2> QED BY <1>0, <1>2, <2>1, <2>2, SMT
<1>3. CASE o # p /\ o # ptr[w]
  <2>1. Pointing(o)' = Pointing(o)
    BY <1>0, <1>3 DEF Pointing
  <2> QED BY <1>0, <1>3, <2>1, SMT
<1> QED BY <1>1, <1>2, <1>3

(* What the invariant says of one object, its count within the width.      *)
LEMMA ObjectCounts ==
  ASSUME ObjInv, NEW o \in Objects
  PROVE  /\ IsObject(objs[o])
         /\ objs[o].count = owned[o] + Cardinality(Pointing(o))
         /\ owned[o] \in 0 .. MaxOwned
         /\ Cardinality(Pointing(o)) \in 0 .. Cardinality(Wrappers)
         /\ objs[o].count \in 0 .. Width - 1
         /\ objs[o].count > 0 => objs[o].class # "absent"
         /\ References(o) = objs[o].count
<1>1. /\ IsObject(objs[o]) /\ objs[o].count = References(o)
      /\ References(o) = owned[o] + Cardinality(Pointing(o))
      /\ owned[o] \in 0 .. MaxOwned
      /\ References(o) > 0 => objs[o].class # "absent"
  BY DEF ObjInv, CountsReferences, References, Pointing, Alive
<1>2. /\ Cardinality(Pointing(o)) \in 0 .. Cardinality(Wrappers)
      /\ Cardinality(Wrappers) \in Nat
  BY PointingType
<1>3. objs[o].count \in 0 .. Width - 1
  BY <1>1, <1>2, ReferenceAssumption, ObjectAssumption, SMT
<1> QED BY <1>1, <1>2, <1>3

(* The invariant again, from what it has to say of every object.           *)
LEMMA ObjInvOf ==
  ASSUME objs' = [o \in Objects |-> objs'[o]],
         owned' \in [Objects -> 0 .. MaxOwned],
         ptr' \in [Wrappers -> Objects \cup {NoObject}],
         \A o \in Objects :
           /\ IsObject(objs'[o])
           /\ objs'[o].count = owned'[o] + Cardinality(Pointing(o)')
           /\ objs'[o].count > 0 => objs'[o].class # "absent"
  PROVE  ObjInv'
<1>1. \A o \in Objects : References(o)' = owned'[o] + Cardinality(Pointing(o)')
  BY DEF References, Pointing
<1> QED BY <1>1 DEF ObjInv, CountsReferences, Alive, IsObject

-----------------------------------------------------------------------------
(* The steps of the clients.                                               *)
LEMMA AddRefObjectStep ==
  ASSUME ObjInv, NEW o \in Objects, AddRefObject(o) PROVE ObjInv'
<1>1. /\ objs' = [objs EXCEPT ![o] = AddedRef(objs[o])]
      /\ owned' = [owned EXCEPT ![o] = owned[o] + 1]
      /\ ptr' = ptr /\ owned[o] < MaxOwned /\ objs[o].class # "absent"
  BY DEF AddRefObject, Alive
<1>2. objs[o].count \in 0 .. Width - 2 /\ owned[o] + 1 \in 0 .. MaxOwned
  BY <1>1, ObjectCounts, PointingType, ReferenceAssumption, ObjectAssumption, SMT
<1>3. AddedRef(objs[o]) = [class |-> objs[o].class, count |-> objs[o].count + 1]
  BY <1>2, ObjectCounts, AddedRefCounts
<1>4. \A q : Pointing(q)' = Pointing(q)
  BY <1>1 DEF Pointing
<1>5. /\ objs' = [q \in Objects |-> objs'[q]] /\ owned' \in [Objects -> 0 .. MaxOwned]
      /\ ptr' \in [Wrappers -> Objects \cup {NoObject}]
      /\ \A q \in Objects : objs'[q] = IF q = o THEN AddedRef(objs[o]) ELSE objs[q]
      /\ \A q \in Objects : owned'[q] = IF q = o THEN owned[o] + 1 ELSE owned[q]
  BY <1>1, <1>2 DEF ObjInv
<1>6. ASSUME NEW q \in Objects
      PROVE  /\ IsObject(objs'[q])
             /\ objs'[q].count = owned'[q] + Cardinality(Pointing(q)')
             /\ objs'[q].count > 0 => objs'[q].class # "absent"
  <2>1. CASE q = o
    <3>1. IsObject(objs'[o]) /\ objs'[o].count = objs[o].count + 1
      BY <1>3, <1>5, SMT DEF IsObject
    <3>2. objs'[o].class # "absent"
      BY <1>1, <1>3, <1>5
    <3>3. objs[o].count + 1 = (owned[o] + 1) + Cardinality(Pointing(o))
      BY ObjectCounts, PointingType, SMT
    <3> QED BY <1>4, <1>5, <2>1, <3>1, <3>2, <3>3
  <2>2. CASE q # o
    BY <1>4, <1>5, <2>2, ObjectCounts
  <2> QED BY <2>1, <2>2
<1> QED BY <1>5, <1>6, ObjInvOf

(* A reference given to the client with the one its QueryInterface adds.   *)
LEMMA QueryInterfaceStep ==
  ASSUME ObjInv, NEW o \in Objects, QueryInterface(o) PROVE ObjInv'
<1>1. CASE objs[o].class = "string"
  <2>1. /\ objs' = [objs EXCEPT ![o] = AddedRef(objs[o])]
        /\ owned' = [owned EXCEPT ![o] = owned[o] + 1]
        /\ ptr' = ptr /\ owned[o] > 0 /\ owned[o] + 1 <= MaxOwned
    BY <1>1 DEF QueryInterface, QueryGives, Queried
  <2>2. AddRefObject(o)
    <3>1. owned[o] < MaxOwned
      BY <2>1, ObjectCounts, ReferenceAssumption, SMT
    <3> QED BY <1>1, <2>1, <3>1 DEF AddRefObject, Alive
  <2> QED BY <2>2, AddRefObjectStep
<1>2. CASE objs[o].class # "string"
  <2>1. /\ objs' = [objs EXCEPT ![o] = objs[o]]
        /\ owned' = [owned EXCEPT ![o] = owned[o] + 0] /\ ptr' = ptr
    BY <1>2 DEF QueryInterface, QueryGives, Queried
  <2>2. objs' = objs
    BY <2>1 DEF ObjInv
  <2>3. owned' = owned
    BY <2>1, ObjectCounts, ReferenceAssumption, SMT DEF ObjInv
  <2> QED BY <2>1, <2>2, <2>3 DEF ObjInv, CountsReferences, References, Alive
<1> QED BY <1>1, <1>2

(* Whoever gives one reference up, the count follows.                      *)
LEMMA ReleasedOf ==
  ASSUME ObjInv, NEW o \in Objects, References(o) > 0
  PROVE  /\ IsObject(Released(objs[o]))
         /\ Released(objs[o]).count = objs[o].count - 1
         /\ objs[o].count - 1 > 0 => Released(objs[o]).class # "absent"
<1>1. objs[o].count \in 1 .. Width - 1 /\ objs[o].class # "absent" /\ IsObject(objs[o])
  BY ObjectCounts, ObjectAssumption, SMT
<1>2. /\ IsObject(Released(objs[o])) /\ Released(objs[o]).count = objs[o].count - 1
      /\ objs[o].count > 1 => Released(objs[o]).class = objs[o].class
  BY <1>1, ReleasedCounts
<1>3. objs[o].count - 1 > 0 => objs[o].count > 1
  BY <1>1, ObjectAssumption, SMT
<1> QED BY <1>1, <1>2, <1>3

LEMMA ReleaseObjectStep ==
  ASSUME ObjInv, NEW o \in Objects, ReleaseObject(o) PROVE ObjInv'
<1>1. /\ objs' = [objs EXCEPT ![o] = Released(objs[o])]
      /\ owned' = [owned EXCEPT ![o] = owned[o] - 1] /\ ptr' = ptr /\ owned[o] > 0
  BY DEF ReleaseObject
<1>2. References(o) > 0 /\ owned[o] - 1 \in 0 .. MaxOwned
  BY <1>1, ObjectCounts, PointingType, ReferenceAssumption, SMT
<1>3. /\ IsObject(Released(objs[o])) /\ Released(objs[o]).count = objs[o].count - 1
      /\ objs[o].count - 1 > 0 => Released(objs[o]).class # "absent"
  BY <1>2, ReleasedOf
<1>4. \A q : Pointing(q)' = Pointing(q)
  BY <1>1 DEF Pointing
<1>5. /\ objs' = [q \in Objects |-> objs'[q]] /\ owned' \in [Objects -> 0 .. MaxOwned]
      /\ ptr' \in [Wrappers -> Objects \cup {NoObject}]
      /\ \A q \in Objects : objs'[q] = IF q = o THEN Released(objs[o]) ELSE objs[q]
      /\ \A q \in Objects : owned'[q] = IF q = o THEN owned[o] - 1 ELSE owned[q]
  BY <1>1, <1>2 DEF ObjInv
<1>6. ASSUME NEW q \in Objects
      PROVE  /\ IsObject(objs'[q])
             /\ objs'[q].count = owned'[q] + Cardinality(Pointing(q)')
             /\ objs'[q].count > 0 => objs'[q].class # "absent"
  <2>1. CASE q = o
    <3>1. objs[o].count - 1 = (owned[o] - 1) + Cardinality(Pointing(o))
      BY ObjectCounts, PointingType, SMT
    <3> QED BY <1>3, <1>4, <1>5, <2>1, <3>1
  <2>2. CASE q # o
    BY <1>4, <1>5, <2>2, ObjectCounts
  <2> QED BY <2>1, <2>2
<1> QED BY <1>5, <1>6, ObjInvOf

LEMMA WrapStep ==
  ASSUME ObjInv, NEW w \in Wrappers, NEW o \in Objects, Wrap(w, o) PROVE ObjInv'
<1>1. /\ owned' = [owned EXCEPT ![o] = owned[o] - 1] /\ ptr' = [ptr EXCEPT ![w] = o]
      /\ objs' = objs /\ ptr[w] = NoObject /\ owned[o] > 0 /\ ptr[w] # o
  BY ObjectAssumption DEF Wrap
<1>2. owned[o] - 1 \in 0 .. MaxOwned
  BY <1>1, ObjectCounts, ReferenceAssumption, SMT
<1>3. /\ objs' = [q \in Objects |-> objs'[q]] /\ owned' \in [Objects -> 0 .. MaxOwned]
      /\ ptr' \in [Wrappers -> Objects \cup {NoObject}]
      /\ \A q \in Objects : owned'[q] = IF q = o THEN owned[o] - 1 ELSE owned[q]
  BY <1>1, <1>2 DEF ObjInv
<1>4. ASSUME NEW q \in Objects
      PROVE  /\ IsObject(objs'[q])
             /\ objs'[q].count = owned'[q] + Cardinality(Pointing(q)')
             /\ objs'[q].count > 0 => objs'[q].class # "absent"
  <2>1. Cardinality(Pointing(q)') = Cardinality(Pointing(q)) + (IF q = o THEN 1 ELSE 0)
    <3>1. q # ptr[w] /\ ptr \in [Wrappers -> Objects \cup {NoObject}]
      BY <1>1, ObjectAssumption DEF ObjInv
    <3>2. Cardinality(Pointing(q)') = Cardinality(Pointing(q)) + (IF q = o THEN 1 ELSE 0)
                                        - (IF q = ptr[w] THEN 1 ELSE 0)
      BY <1>1, <3>1, PointerMoves
    <3> QED BY <3>1, <3>2, PointingType, SMT
  <2>2. owned'[q] + Cardinality(Pointing(q)') = owned[q] + Cardinality(Pointing(q))
    <3>1. owned[q] \in Int /\ Cardinality(Pointing(q)) \in Int
      BY ObjectCounts, PointingType, ReferenceAssumption, SMT
    <3> QED BY <1>3, <2>1, <3>1, SMT
  <2> QED BY <1>1, <2>2, ObjectCounts
<1> QED BY <1>3, <1>4, ObjInvOf

(* A wrapper that does not point to an object leaves room in its count.    *)
LEMMA RoomForOne ==
  ASSUME ObjInv, NEW p \in Objects, NEW w \in Wrappers, ptr[w] # p
  PROVE  objs[p].count \in 0 .. Width - 2
<1>1. w \notin Pointing(p) /\ Pointing(p) \cup {w} \in SUBSET Wrappers
  BY DEF Pointing
<1>2. Cardinality(Pointing(p) \cup {w}) = Cardinality(Pointing(p)) + 1
  BY <1>1, PointingType, FS_AddElement
<1>3. Cardinality(Pointing(p) \cup {w}) <= Cardinality(Wrappers)
  BY <1>1, ReferenceAssumption, FS_Subset
<1>4. Cardinality(Wrappers) \in Nat
  BY PointingType
<1> QED BY <1>2, <1>3, <1>4, ObjectCounts, ReferenceAssumption, ObjectAssumption, SMT

(* A wrapper moves to an object with a reference, or to none: what it      *)
(* pointed to is released, what it points to gets a reference.             *)
LEMMA MoveStep ==
  ASSUME ObjInv, NEW w \in Wrappers, NEW p \in Objects \cup {NoObject}, ptr[w] # p,
         p # NoObject => References(p) > 0,
         objs' = Swapped(ptr[w], p), ptr' = [ptr EXCEPT ![w] = p], owned' = owned
  PROVE  ObjInv'
<1> DEFINE old == ptr[w]
<1>1. /\ old \in Objects \cup {NoObject} /\ NoObject \notin Objects
      /\ ptr \in [Wrappers -> Objects \cup {NoObject}]
      /\ objs = [q \in Objects |-> objs[q]]
  BY ObjectAssumption DEF ObjInv
<1>2. /\ objs' = [q \in Objects |-> objs'[q]]
      /\ \A q \in Objects :
           objs'[q] = IF q = p THEN AddedRef(objs[q])
                      ELSE IF q = old THEN Released(objs[q]) ELSE objs[q]
  <2> DEFINE dropped == IF old = NoObject THEN objs ELSE [objs EXCEPT ![old] = Released(objs[old])]
  <2>1. objs' = IF p = NoObject THEN dropped ELSE [dropped EXCEPT ![p] = AddedRef(dropped[p])]
    BY DEF Swapped
  <2>2. /\ dropped = [q \in Objects |-> dropped[q]]
        /\ \A q \in Objects : dropped[q] = IF q = old THEN Released(objs[q]) ELSE objs[q]
    <3>1. CASE old = NoObject
      BY <1>1, <3>1
    <3>2. CASE old # NoObject
      BY <1>1, <3>2
    <3> QED BY <3>1, <3>2
  <2> HIDE DEF dropped
  <2>3. CASE p = NoObject
    BY <1>1, <2>1, <2>2, <2>3
  <2>4. CASE p # NoObject
    BY <1>1, <2>1, <2>2, <2>4
  <2> QED BY <2>3, <2>4
<1>3. owned' \in [Objects -> 0 .. MaxOwned] /\ ptr' \in [Wrappers -> Objects \cup {NoObject}]
  BY DEF ObjInv
<1>4. ASSUME NEW q \in Objects
      PROVE  /\ IsObject(objs'[q])
             /\ objs'[q].count = owned'[q] + Cardinality(Pointing(q)')
             /\ objs'[q].count > 0 => objs'[q].class # "absent"
  <2>1. Cardinality(Pointing(q)') =
          Cardinality(Pointing(q)) + (IF q = p THEN 1 ELSE 0) - (IF q = old THEN 1 ELSE 0)
    BY <1>1, PointerMoves
  <2>2. /\ owned[q] \in Int /\ Cardinality(Pointing(q)) \in Int
        /\ objs[q].count = owned[q] + Cardinality(Pointing(q)) /\ IsObject(objs[q])
        /\ objs[q].count > 0 => objs[q].class # "absent"
    BY ObjectCounts, PointingType, ReferenceAssumption, SMT
  <2>3. CASE q = p
    <3>1. objs[q].count \in 0 .. Width - 2
      BY <2>3, RoomForOne
    <3>2. objs'[q] = [class |-> objs[q].class, count |-> objs[q].count + 1]
      BY <1>2, <2>2, <2>3, <3>1, AddedRefCounts
    <3>3. objs[q].class # "absent"
      <4>1. q # NoObject /\ References(q) > 0
        BY <1>1, <2>3
      <4> QED BY <4>1, ObjectCounts
    <3>4. IsObject(objs'[q]) /\ objs'[q].count = objs[q].count + 1 /\ objs'[q].class # "absent"
      BY <3>2, <3>3, SMT DEF IsObject
    <3>5. Cardinality(Pointing(q)') = Cardinality(Pointing(q)) + 1
      BY <2>1, <2>2, <2>3, SMT
    <3>6. objs[q].count + 1 = owned'[q] + Cardinality(Pointing(q)')
      BY <2>2, <3>5, SMT
    <3> QED BY <3>4, <3>6
  <2>4. CASE q # p /\ q = old
    <3>1. References(q) > 0
      <4>1. Cardinality(Pointing(q)) > 0
        BY <2>4, PointingPositive
      <4> QED BY <2>2, <4>1, ObjectCounts, SMT
    <3>2. /\ objs'[q] = Released(objs[q]) /\ IsObject(Released(objs[q]))
          /\ Released(objs[q]).count = objs[q].count - 1
          /\ objs[q].count - 1 > 0 => Released(objs[q]).class # "absent"
      BY <1>2, <2>4, <3>1, ReleasedOf
    <3>3. Cardinality(Pointing(q)') = Cardinality(Pointing(q)) - 1
      BY <2>1, <2>2, <2>4, SMT
    <3>4. objs[q].count - 1 = owned'[q] + Cardinality(Pointing(q)')
      BY <2>2, <3>3, SMT
    <3> QED BY <3>2, <3>4
  <2>5. CASE q # p /\ q # old
    <3>1. Cardinality(Pointing(q)') = Cardinality(Pointing(q))
      BY <2>1, <2>2, <2>5, SMT
    <3> QED BY <1>2, <2>2, <2>5, <3>1
  <2> QED BY <2>3, <2>4, <2>5
<1> QED BY <1>2, <1>3, <1>4, ObjInvOf

LEMMA AssignStep ==
  ASSUME ObjInv, NEW w \in Wrappers, NEW p \in Pointers, Assign(w, p) PROVE ObjInv'
<1>1. CASE ptr[w] = p
  <2>1. objs' = objs /\ owned' = owned /\ ptr' = [ptr EXCEPT ![w] = ptr[w]]
    BY <1>1 DEF Assign
  <2>2. ptr' = ptr
    BY <2>1 DEF ObjInv
  <2> QED BY <2>1, <2>2 DEF ObjInv, CountsReferences, References, Alive
<1>2. CASE ptr[w] # p
  <2>1. objs' = Swapped(ptr[w], p) /\ owned' = owned /\ ptr' = [ptr EXCEPT ![w] = p]
    BY <1>2 DEF Assign
  <2>2. p \in Objects \cup {NoObject} /\ (p # NoObject => References(p) > 0)
    <3>1. CASE p = NoObject
      BY <3>1
    <3>2. CASE p # NoObject
      <4>1. p \in Objects /\ (owned[p] > 0 \/ p \in Range(ptr))
        BY <3>2 DEF Pointers
      <4>2. CASE owned[p] > 0
        BY <4>1, <4>2, ObjectCounts, PointingType, ReferenceAssumption, SMT
      <4>3. CASE p \in Range(ptr)
        <5>1. PICK v \in Wrappers : ptr[v] = p
          BY <4>3 DEF Range, ObjInv
        <5>2. Cardinality(Pointing(p)) > 0
          BY <5>1, PointingPositive
        <5> QED BY <4>1, <5>2, ObjectCounts, PointingType, ReferenceAssumption, SMT
      <4> QED BY <4>1, <4>2, <4>3
    <3> QED BY <3>1, <3>2
  <2> QED BY <1>2, <2>1, <2>2, MoveStep
<1> QED BY <1>1, <1>2

LEMMA DestroyWrapperStep ==
  ASSUME ObjInv, NEW w \in Wrappers, DestroyWrapper(w) PROVE ObjInv'
<1>1. /\ ptr[w] # NoObject /\ objs' = [objs EXCEPT ![ptr[w]] = Released(objs[ptr[w]])]
      /\ ptr' = [ptr EXCEPT ![w] = NoObject] /\ owned' = owned
  BY DEF DestroyWrapper
<1>2. objs' = Swapped(ptr[w], NoObject)
  BY <1>1 DEF Swapped
<1>3. NoObject \in Objects \cup {NoObject}
  OBVIOUS
<1> QED BY <1>1, <1>2, <1>3, MoveStep

-----------------------------------------------------------------------------
(* GetClassObject makes objects, and loses those made in vain.             *)

(* A block without an object has no reference either.                      *)
LEMMA AbsentUnreferenced ==
  ASSUME ObjInv, NEW o \in Objects, ~Alive(o)
  PROVE  owned[o] = 0 /\ Cardinality(Pointing(o)) = 0
<1>1. objs[o].class = "absent"
  BY DEF Alive
<1> QED BY <1>1, ObjectCounts, PointingType, ReferenceAssumption, SMT

LEMMA MadeCounts ==
  \A class : /\ IsObject(Queried(New(class)))
             /\ Queried(New(class)).count = QueryGives(class)
             /\ Queried(New(class)).count > 0 => Queried(New(class)).class # "absent"
             /\ QueryGives(class) \in 0 .. MaxOwned
<1> TAKE class
<1>1. QueryGives(class) \in 0 .. MaxOwned
  BY ReferenceAssumption, SMT DEF QueryGives
<1>2. IsObject(New(class)) /\ New(class).count = 0 /\ New(class).class = class
  BY SMT DEF New, IsObject
<1>3. CASE class = "string"
  <2>1. 0 \in 0 .. Width - 2
    BY ObjectAssumption, SMT
  <2>2. Queried(New(class)) = [class |-> class, count |-> 0 + 1]
    BY <1>2, <1>3, <2>1, AddedRefCounts DEF Queried
  <2>3. Queried(New(class)) = [class |-> class, count |-> 1]
    BY <2>2, SMT
  <2> QED BY <1>1, <1>3, <2>3, SMT DEF IsObject, QueryGives
<1>4. CASE class # "string"
  <2>1. Queried(New(class)) = New(class) /\ QueryGives(class) = 0
    BY <1>2, <1>4 DEF Queried, QueryGives
  <2>2. ~(0 > 0)
    BY SMT
  <2> QED BY <1>1, <1>2, <2>1, <2>2
<1> QED BY <1>3, <1>4

LEMMA GetClassObjectStep ==
  ASSUME ObjInv, NEW cls, NEW iid, NEW o \in Objects, NEW w \in Objects,
         GetClassObject(cls, iid, o, w)
  PROVE  ObjInv'
<1> DEFINE left == {Refused(f.class) : f \in InVain(Root, cls, iid)}
           made(class) == /\ objs' = [objs EXCEPT ![w] = Absent, ![o] = Queried(New(class))]
                          /\ owned' = [owned EXCEPT ![o] = QueryGives(class)]
<1>1. /\ ~Alive(o) /\ ~Alive(w) /\ ptr' = ptr
      /\ \/ objs' = [objs EXCEPT ![w] = Absent] /\ owned' = owned
         \/ \E class : made(class)
  <2>1. \A x \in IF left = {} THEN {Absent} ELSE left : x = Absent
    BY RefusedGone
  <2> HIDE DEF left
  <2>2. PICK x \in IF left = {} THEN {Absent} ELSE left :
          IF Provider(Root, cls, iid) = NoDirector
            THEN objs' = [objs EXCEPT ![w] = x] /\ UNCHANGED owned
            ELSE LET class == mClassObjectMap[Provider(Root, cls, iid)][cls].class
                 IN  /\ objs' = [objs EXCEPT ![w] = x, ![o] = Queried(New(class))]
                     /\ owned' = [owned EXCEPT ![o] = QueryGives(class)]
    BY DEF GetClassObject, left
  <2>3. x = Absent
    BY <2>1, <2>2
  <2>4. ~Alive(o) /\ ~Alive(w) /\ ptr' = ptr
    BY DEF GetClassObject
  <2> QED BY <2>2, <2>3, <2>4
<1>2. \A q : Pointing(q)' = Pointing(q)
  BY <1>1 DEF Pointing
<1>3. ptr' \in [Wrappers -> Objects \cup {NoObject}] /\ objs = [q \in Objects |-> objs[q]]
  BY <1>1 DEF ObjInv
<1>4. /\ IsObject(Absent) /\ Absent.count = 0 /\ ~(0 > 0)
      /\ owned[w] = 0 /\ Cardinality(Pointing(w)) = 0
      /\ owned[o] = 0 /\ Cardinality(Pointing(o)) = 0
  <2>1. IsObject(Absent) /\ Absent.count = 0 /\ ~(0 > 0)
    BY SMT DEF Absent, IsObject
  <2> QED BY <1>1, <2>1, AbsentUnreferenced
<1>5. CASE objs' = [objs EXCEPT ![w] = Absent] /\ owned' = owned
  <2>1. /\ objs' = [q \in Objects |-> objs'[q]]
        /\ \A q \in Objects : objs'[q] = IF q = w THEN Absent ELSE objs[q]
        /\ owned' \in [Objects -> 0 .. MaxOwned]
    BY <1>3, <1>5 DEF ObjInv
  <2>2. ASSUME NEW q \in Objects
        PROVE  /\ IsObject(objs'[q])
               /\ objs'[q].count = owned'[q] + Cardinality(Pointing(q)')
               /\ objs'[q].count > 0 => objs'[q].class # "absent"
    <3>1. CASE q = w
      BY <1>2, <1>4, <1>5, <2>1, <3>1, SMT
    <3>2. CASE q # w
      BY <1>2, <1>5, <2>1, <3>2, ObjectCounts
    <3> QED BY <3>1, <3>2
  <2> QED BY <1>3, <2>1, <2>2, ObjInvOf
<1>6. ASSUME NEW class, made(class) PROVE ObjInv'
  <2>1. /\ objs' = [q \in Objects |-> objs'[q]]
        /\ \A q \in Objects : objs'[q] = IF q = o THEN Queried(New(class))
                                         ELSE IF q = w THEN Absent ELSE objs[q]
    BY <1>3, <1>6
  <2>2. /\ owned' \in [Objects -> 0 .. MaxOwned]
        /\ \A q \in Objects : owned'[q] = IF q = o THEN QueryGives(class) ELSE owned[q]
    BY <1>6, MadeCounts DEF ObjInv
  <2>3. ASSUME NEW q \in Objects
        PROVE  /\ IsObject(objs'[q])
               /\ objs'[q].count = owned'[q] + Cardinality(Pointing(q)')
               /\ objs'[q].count > 0 => objs'[q].class # "absent"
    <3>1. CASE q = o
      <4>1. QueryGives(class) + 0 = QueryGives(class)
        BY SMT DEF QueryGives
      <4> QED BY <1>2, <1>4, <2>1, <2>2, <3>1, <4>1, MadeCounts
    <3>2. CASE q # o /\ q = w
      BY <1>2, <1>4, <2>1, <2>2, <3>2, SMT
    <3>3. CASE q # o /\ q # w
      BY <1>2, <2>1, <2>2, <3>3, ObjectCounts
    <3> QED BY <3>1, <3>2, <3>3
  <2> QED BY <1>3, <2>1, <2>2, <2>3, ObjInvOf
<1> QED BY <1>1, <1>5, <1>6

-----------------------------------------------------------------------------
LEMMA InitObjInv == Init => ObjInv
<1> SUFFICES ASSUME Init PROVE ObjInv
  OBVIOUS
<1>1. /\ objs = [o \in Objects |-> Absent] /\ owned = [o \in Objects |-> 0]
      /\ ptr = [w \in Wrappers |-> NoObject]
  BY DEF Init, ObjectInit
<1>2. \A o \in Objects : Cardinality(Pointing(o)) = 0
  <2> TAKE o \in Objects
  <2>1. Pointing(o) = {}
    BY <1>1, ObjectAssumption DEF Pointing
  <2> QED BY <2>1, FS_EmptySet
<1>3. \A o \in Objects : References(o) = 0
  <2>1. \A o \in Objects : References(o) = 0 + Cardinality(Pointing(o))
    BY <1>1 DEF References, Pointing
  <2> QED BY <1>2, <2>1, SMT
<1>4. IsObject(Absent) /\ Absent.count = 0 /\ 0 \in 0 .. MaxOwned /\ ~(0 > 0)
  BY ReferenceAssumption, SMT DEF Absent, IsObject
<1> QED BY <1>1, <1>3, <1>4 DEF ObjInv, CountsReferences

LEMMA NextObjInv == ASSUME ObjInv, [Next]_vars PROVE ObjInv'
<1>1. ASSUME UNCHANGED objectVars PROVE ObjInv'
  BY <1>1 DEF objectVars, ObjInv, CountsReferences, References, Alive
<1>2. CASE Register
  BY <1>1, <1>2 DEF Register
<1>3. ASSUME NEW d \in Directors, HoldDirector(d) \/ DropDirector(d) PROVE ObjInv'
  BY <1>1, <1>3 DEF HoldDirector, DropDirector
<1>4. ASSUME NEW cls \in ClassIDs, NEW iid \in Interfaces, NEW o \in Objects, NEW w \in Objects,
             GetClassObject(cls, iid, o, w)
      PROVE  ObjInv'
  BY <1>4, GetClassObjectStep
<1>5. CASE UseObjects
  <2>1. ClientNext
    BY <1>5 DEF UseObjects
  <2>2. ASSUME NEW o \in Objects, AddRefObject(o) PROVE ObjInv'
    BY <2>2, AddRefObjectStep
  <2>3. ASSUME NEW o \in Objects, QueryInterface(o) PROVE ObjInv'
    BY <2>3, QueryInterfaceStep
  <2>4. ASSUME NEW o \in Objects, ReleaseObject(o) PROVE ObjInv'
    BY <2>4, ReleaseObjectStep
  <2>5. ASSUME NEW w \in Wrappers, DestroyWrapper(w) PROVE ObjInv'
    BY <2>5, DestroyWrapperStep
  <2>6. ASSUME NEW w \in Wrappers, NEW o \in Objects, Wrap(w, o) PROVE ObjInv'
    BY <2>6, WrapStep
  <2>7. ASSUME NEW w \in Wrappers, NEW o \in Pointers, Assign(w, o) PROVE ObjInv'
    BY <2>7, AssignStep
  <2> QED BY <2>1, <2>2, <2>3, <2>4, <2>5, <2>6, <2>7 DEF ClientNext
<1>6. CASE Unload
  BY <1>1, <1>6 DEF Unload
<1>7. CASE Load
  BY <1>1, <1>7 DEF Load
<1>8. CASE UNCHANGED vars
  BY <1>1, <1>8 DEF vars
<1> QED BY <1>2, <1>3, <1>4, <1>5, <1>6, <1>7, <1>8 DEF Next

(* Over any mix of raw references and wrappers, whatever factories make,   *)
(* an object's count is the number of its references: rzstring.cpp,        *)
(* rzcmdline.cpp and rzautorefcount.h keep to one convention.              *)
THEOREM ObjectsCounted == Spec => []CountsReferences
<1>1. ObjInv => CountsReferences
  BY DEF ObjInv
<1>2. ObjInv /\ [Next]_vars => ObjInv'
  BY NextObjInv
<1> QED BY InitObjInv, <1>1, <1>2, PTL DEF Spec

-----------------------------------------------------------------------------
(* The nesting of the directors.                                           *)

(* AddDirector's caller does not nest a director in itself; then every     *)
(* recursion over the children ends, and the COM is where it leads.        *)
NestingInv ==
  /\ mChildDirectorArray \in Nestings
  /\ Acyclic(mChildDirectorArray)
  /\ mpCOM \in [Directors -> Coms \cup {NoCom}]
  /\ ComReachesChildren

LEMMA BelowIs ==
  ASSUME NEW d
  PROVE  /\ Below(d) = BelowIn(mChildDirectorArray, d)
         /\ Below(d)' = BelowIn(mChildDirectorArray', d)
BY DEF Below, BelowIn, Visits, VisitsIn, VisitsStep, ChildVisits

LEMMA EmptyNesting ==
  ASSUME NEW arr, arr = [d \in Directors |-> <<>>]
  PROVE  arr \in Nestings /\ Acyclic(arr)
<1> DEFINE rank == [d \in Directors |-> 0]
<1>1. arr \in Nestings /\ \A d \in Directors : DOMAIN arr[d] = {}
  BY DEF Nestings
<1>2. Ranked(arr, 0, rank)
  BY <1>1 DEF Ranked
<1> QED BY <1>1, <1>2 DEF Acyclic

LEMMA EmptyNestingInv ==
  ASSUME mpCOM = [d \in Directors |-> NoCom], mChildDirectorArray = [d \in Directors |-> <<>>]
  PROVE  NestingInv
<1>1. mChildDirectorArray \in Nestings /\ Acyclic(mChildDirectorArray)
  BY EmptyNesting
<1> QED BY <1>1, DirectorAssumption DEF NestingInv, ComReachesChildren

(* What initialises every director below one, and only those.              *)
LEMMA InitializedComs ==
  ASSUME mpCOM \in [Directors -> Coms \cup {NoCom}], NEW d \in Directors,
         NEW com \in Coms \cup {NoCom}
  PROVE  /\ Initialized(mpCOM, d, com) \in [Directors -> Coms \cup {NoCom}]
         /\ \A e \in Directors :
              Initialized(mpCOM, d, com)[e] =
                IF com # NoCom /\ e \in Below(d) THEN com ELSE mpCOM[e]
BY DEF Initialized

LEMMA InitializeStep ==
  ASSUME NestingInv, NEW com \in Coms, InitializeCOM(Root, com)
  PROVE  NestingInv'
<1>1. /\ mpCOM' = Initialized(mpCOM, Root, com) /\ mChildDirectorArray' = mChildDirectorArray
      /\ com # NoCom /\ Root \in Directors
  BY DirectorAssumption DEF InitializeCOM
<1>2. /\ mpCOM' \in [Directors -> Coms \cup {NoCom}]
      /\ \A e \in Directors : mpCOM'[e] = IF e \in Below(Root) THEN com ELSE mpCOM[e]
  BY <1>1, InitializedComs DEF NestingInv
<1>3. Root \in Below(Root) /\ Below(Root)' = Below(Root)
  BY <1>1, BelowIs, BelowUnfolds DEF NestingInv
<1>4. ComReachesChildren'
  BY <1>1, <1>2, <1>3 DEF NestingInv, ComReachesChildren
<1> QED BY <1>1, <1>2, <1>4 DEF NestingInv

(* A child under an initialised director is initialised with all below it; *)
(* under one that is not, nothing of the library is yet.                   *)
LEMMA AddDirectorStep ==
  ASSUME NestingInv, NEW p \in Directors, NEW c \in Directors, AddDirector(p, c)
  PROVE  NestingInv'
<1> DEFINE arr == mChildDirectorArray
           new == mChildDirectorArray'
<1>1. /\ arr \in Nestings /\ Acyclic(arr) /\ p \notin BelowIn(arr, c)
      /\ new = Added(arr, p, c)
      /\ mpCOM' = Initialized(mpCOM, c, mpCOM[p])
  BY BelowIs, VisitsOfChildren DEF NestingInv, AddDirector, Added
<1>2. /\ new \in Nestings /\ Acyclic(new)
      /\ \A d \in Directors :
           BelowIn(new, d) = BelowIn(arr, d)
                               \cup (IF p \in BelowIn(arr, d) THEN BelowIn(arr, c) ELSE {})
  <2> HIDE DEF arr, new
  <2> QED BY <1>1, AddedNesting
<1>3. /\ Root \in Directors /\ Root \in Below(Root)
      /\ Below(Root)' = Below(Root) \cup (IF p \in Below(Root) THEN Below(c) ELSE {})
  <2>1. Root \in Directors /\ Root \in BelowIn(arr, Root)
    BY <1>1, DirectorAssumption, BelowUnfolds
  <2>2. /\ Below(Root) = BelowIn(arr, Root) /\ Below(c) = BelowIn(arr, c)
        /\ Below(Root)' = BelowIn(new, Root)
    BY BelowIs
  <2> HIDE DEF arr, new
  <2> QED BY <1>2, <2>1, <2>2
<1> HIDE DEF arr, new
<1>4. /\ mpCOM[p] \in Coms \cup {NoCom}
      /\ mpCOM' \in [Directors -> Coms \cup {NoCom}]
      /\ \A e \in Directors :
           mpCOM'[e] = IF mpCOM[p] # NoCom /\ e \in Below(c) THEN mpCOM[p] ELSE mpCOM[e]
  BY <1>1, InitializedComs DEF NestingInv
<1>5. \A d \in Directors : mpCOM[d] = IF d \in Below(Root) THEN mpCOM[Root] ELSE NoCom
  BY DEF NestingInv, ComReachesChildren
<1>6. mpCOM'[Root] = mpCOM[Root]
  BY <1>3, <1>4, <1>5
<1>7. \A d \in Directors : mpCOM'[d] = IF d \in Below(Root)' THEN mpCOM'[Root] ELSE NoCom
  BY <1>3, <1>4, <1>5, <1>6
<1> QED BY <1>2, <1>4, <1>7 DEF NestingInv, ComReachesChildren, new

LEMMA NextNestingInv == ASSUME NestingInv, [Next]_vars PROVE NestingInv'
<1>1. ASSUME mpCOM' = mpCOM, mChildDirectorArray' = mChildDirectorArray PROVE NestingInv'
  <2>1. Below(Root)' = Below(Root)
    BY <1>1, BelowIs
  <2> QED BY <1>1, <2>1 DEF NestingInv, ComReachesChildren
<1>2. CASE Register
  <2>1. ASSUME NEW p \in Directors, NEW c \in Directors, AddDirector(p, c) PROVE NestingInv'
    BY <2>1, AddDirectorStep
  <2>2. ASSUME NEW d \in Directors, NEW cls \in ClassIDs, NEW f \in Factories, AddCls(d, cls, f)
        PROVE  NestingInv'
    BY <1>1, <2>2 DEF AddCls
  <2>3. ASSUME NEW com \in Coms, InitializeCOM(Root, com) PROVE NestingInv'
    BY <2>3, InitializeStep
  <2>4. CASE OnStart
    BY <1>1, <2>4 DEF OnStart
  <2> QED BY <1>2, <2>1, <2>2, <2>3, <2>4 DEF Register
<1>3. ASSUME NEW d \in Directors, HoldDirector(d) \/ DropDirector(d) PROVE NestingInv'
  BY <1>1, <1>3 DEF HoldDirector, DropDirector, AddRef, RemoveRef
<1>4. ASSUME NEW cls \in ClassIDs, NEW iid \in Interfaces, NEW o \in Objects, NEW w \in Objects,
             GetClassObject(cls, iid, o, w)
      PROVE  NestingInv'
  BY <1>1, <1>4 DEF GetClassObject, directorVars
<1>5. CASE UseObjects
  BY <1>1, <1>5 DEF UseObjects, directorVars
<1>6. CASE Unload
  BY <1>1, <1>6 DEF Unload, directorVars
<1>7. CASE Load
  <2>1. mpCOM' = [d \in Directors |-> NoCom] /\ mChildDirectorArray' = [d \in Directors |-> <<>>]
    BY <1>7 DEF Load
  <2>2. mChildDirectorArray' \in Nestings /\ Acyclic(mChildDirectorArray')
    BY <2>1, EmptyNesting
  <2> QED BY <2>1, <2>2, DirectorAssumption DEF NestingInv, ComReachesChildren
<1>8. CASE UNCHANGED vars
  BY <1>1, <1>8 DEF vars, directorVars
<1> QED BY <1>2, <1>3, <1>4, <1>5, <1>6, <1>7, <1>8 DEF Next

LEMMA InitNestingInv == Init => NestingInv
<1> SUFFICES ASSUME Init PROVE NestingInv
  OBVIOUS
<1>1. mpCOM = [d \in Directors |-> NoCom] /\ mChildDirectorArray = [d \in Directors |-> <<>>]
  BY DEF Init, Unloaded
<1> QED BY <1>1, EmptyNestingInv

(* Whatever the order of initialisations and registrations, the COM is     *)
(* where the library's director leads, for any directors and any nesting:  *)
(* InitializeCOM and AddDirector of rzcomdlldirector.cpp.                  *)
THEOREM ComReaches == Spec => []ComReachesChildren
<1>1. NestingInv => ComReachesChildren
  BY DEF NestingInv
<1>2. NestingInv /\ [Next]_vars => NestingInv'
  BY NextNestingInv
<1> QED BY InitNestingInv, <1>1, <1>2, PTL DEF Spec

-----------------------------------------------------------------------------
(* Lookup.                                                                 *)

LEMMA UnderIs ==
  ASSUME NestingInv, NEW d \in Directors
  PROVE  Under(d) = Below(d)
<1> DEFINE arr == mChildDirectorArray
           Least(S) == /\ d \in S
                       /\ \A e \in S : Children(e) \subseteq S
                       /\ \A T \in SUBSET S :
                            d \in T /\ (\A e \in T : Children(e) \subseteq T) => T = S
<1>1. \A T : ClosedIn(arr, T) <=> \A e \in T : Children(e) \subseteq T
  BY ClosedByRange DEF Children
<1>2. arr \in Nestings /\ Acyclic(arr) /\ Below(d) = BelowIn(arr, d)
  BY BelowIs DEF NestingInv
<1> HIDE DEF arr
<1>3. /\ d \in Below(d) /\ Below(d) \subseteq Directors /\ ClosedIn(arr, Below(d))
      /\ \A T : d \in T /\ ClosedIn(arr, T) => Below(d) \subseteq T
  BY <1>2, BelowUnfolds, BelowLeast
<1>4. Least(Below(d))
  BY <1>1, <1>3
<1>5. ASSUME NEW S \in SUBSET Directors, Least(S) PROVE S = Below(d)
  <2>1. Below(d) \subseteq S
    BY <1>1, <1>3, <1>5
  <2>2. d \in Below(d) /\ \A e \in Below(d) : Children(e) \subseteq Below(d)
    BY <1>1, <1>3
  <2> QED BY <1>5, <2>1, <2>2
<1>6. Under(d) = CHOOSE S \in SUBSET Directors : Least(S)
  BY DEF Under
<1> HIDE DEF Least
<1> QED BY <1>3, <1>4, <1>5, <1>6

(* The place of the provider: the first of those that serve.               *)
LEMMA FirstServing ==
  ASSUME NEW visits \in Seq(Directors), NEW found, found \subseteq DOMAIN visits, found # {},
         NEW first, first = CHOOSE i \in found : \A j \in found : i <= j
  PROVE  first \in found /\ first \in 1 .. Len(visits) /\ \A j \in found : first <= j
<1>1. DOMAIN visits = 1 .. Len(visits) /\ Len(visits) \in Nat
  OBVIOUS
<1>2. found \subseteq Nat
  BY <1>1
<1>3. \E i \in found : \A j \in found : i <= j
  BY <1>2, LeastExists
<1> QED BY <1>1, <1>3

LEMMA LookupOf ==
  ASSUME NestingInv, NEW d \in Directors, NEW cls, NEW iid
  PROVE  LET p    == Provider(d, cls, iid)
             able == {e \in Under(d) : Serves(e, cls, iid)}
         IN  IF able = {} THEN p = NoDirector
             ELSE p \in Directors /\ p \in able /\ able \cap Under(p) = {p}
<1> DEFINE arr == mChildDirectorArray
           visits == Visits[d]
           found == {i \in DOMAIN visits : Serves(visits[i], cls, iid)}
           p == Provider(d, cls, iid)
           able == {e \in Under(d) : Serves(e, cls, iid)}
<1>1. arr \in Nestings /\ Acyclic(arr) /\ visits = VisitsIn(arr)[d]
  BY VisitsOfChildren DEF NestingInv
<1>2. /\ visits \in Seq(Directors) /\ DOMAIN visits = 1 .. Len(visits) /\ Len(visits) \in Nat
      /\ Under(d) = Range(visits) /\ Range(visits) \subseteq Directors
      /\ OrderedIn(arr, visits)
  <2>1. visits \in Seq(Directors) /\ OrderedIn(arr, visits) /\ Range(visits) \subseteq Directors
    BY <1>1, BelowUnfolds, VisitsOrdered DEF BelowIn
  <2>2. Under(d) = Range(visits)
    BY UnderIs DEF Below
  <2> QED BY <2>1, <2>2
<1>3. ProviderIndex(d, cls, iid) =
        IF found = {} THEN 0 ELSE CHOOSE i \in found : \A j \in found : i <= j
  BY DEF ProviderIndex
<1>4. p = IF ProviderIndex(d, cls, iid) = 0 THEN NoDirector ELSE visits[ProviderIndex(d, cls, iid)]
  BY DEF Provider
<1> HIDE DEF visits
<1>5. able = {visits[i] : i \in found}
  BY <1>2 DEF Range
<1>6. CASE found = {}
  BY <1>3, <1>4, <1>5, <1>6
<1>7. CASE found # {}
  <2> DEFINE first == CHOOSE i \in found : \A j \in found : i <= j
  <2>1. first \in found /\ first \in 1 .. Len(visits) /\ \A j \in found : first <= j
    <3> HIDE DEF found
    <3>1. found \subseteq DOMAIN visits
      BY DEF found
    <3> QED BY <1>2, <1>7, <3>1, FirstServing
  <2>2. ProviderIndex(d, cls, iid) = first
    BY <1>3, <1>7
  <2> HIDE DEF first
  <2>3. first # 0 /\ p = visits[first]
    BY <1>2, <1>4, <2>1, <2>2
  <2>4. p \in able /\ able # {} /\ p \in Directors
    BY <1>2, <1>5, <2>1, <2>3
  <2> HIDE DEF p
  <2>5. Under(p) = BelowIn(arr, p) /\ p \in Under(p)
    BY <1>1, <2>4, UnderIs, BelowIs, BelowUnfolds
  <2>6. ASSUME NEW e \in able, e \in Under(p) PROVE e = p
    <3> SUFFICES ASSUME e # p PROVE FALSE
      OBVIOUS
    <3>1. PICK j \in 1 .. first - 1 : visits[j] = e
      BY <1>2, <2>1, <2>3, <2>5, <2>6 DEF OrderedIn
    <3>2. j \in 1 .. Len(visits) /\ ~(first <= j)
      BY <1>2, <2>1
    <3>3. j \in found
      BY <1>2, <2>6, <3>1, <3>2
    <3> QED BY <2>1, <3>2, <3>3
  <2>7. able \cap Under(p) = {p}
    BY <2>4, <2>5, <2>6
  <2> QED BY <2>4, <2>7 DEF p
<1> QED BY <1>6, <1>7

(* GetClassObject finds a class whenever a director under the one asked    *)
(* serves it, and prefers the directors under another to that one, in any  *)
(* nesting: the recursion of rzcomdlldirector.cpp, which AddDirector's     *)
(* copies of a child's descendants make visit a director more than once.   *)
THEOREM LookupCompletes == Spec => []LookupComplete
<1>1. NestingInv => LookupComplete
  <2> SUFFICES ASSUME NestingInv, NEW d \in Directors, NEW cls \in ClassIDs, NEW iid \in Interfaces
               PROVE  LET p    == Provider(d, cls, iid)
                          able == {e \in Under(d) : Serves(e, cls, iid)}
                      IN  IF able = {} THEN p = NoDirector
                          ELSE p \in able /\ able \cap Under(p) = {p}
    BY DEF LookupComplete
  <2> QED BY LookupOf
<1>2. NestingInv /\ [Next]_vars => NestingInv'
  BY NextNestingInv
<1> QED BY InitNestingInv, <1>1, <1>2, PTL DEF Spec

-----------------------------------------------------------------------------
(* What objects there are: only a cRZCmdLine can be there unreferenced.    *)

MapInv ==
  /\ mClassObjectMap = [d \in Directors |-> mClassObjectMap[d]]
  /\ \A d \in Directors :
       /\ DOMAIN mClassObjectMap[d] \subseteq ClassIDs
       /\ \A c \in DOMAIN mClassObjectMap[d] : mClassObjectMap[d][c] \in Factories

KindInv ==
  \A o \in Objects :
    /\ objs[o].class \in Classes \cup {"absent"}
    /\ objs[o].class = "string" => objs[o].count > 0

LEMMA NextMapInv == ASSUME MapInv, [Next]_vars PROVE MapInv'
<1>1. ASSUME mClassObjectMap' = mClassObjectMap PROVE MapInv'
  BY <1>1 DEF MapInv
<1>2. ASSUME NEW d \in Directors, NEW cls \in ClassIDs, NEW f \in Factories, AddCls(d, cls, f)
      PROVE  MapInv'
  <2> DEFINE old == mClassObjectMap[d]
             new == [c \in DOMAIN old \cup {cls} |-> IF c \in DOMAIN old THEN old[c] ELSE f]
  <2>1. mClassObjectMap' = [mClassObjectMap EXCEPT ![d] = new]
    BY <1>2 DEF AddCls
  <2>2. DOMAIN new \subseteq ClassIDs /\ \A c \in DOMAIN new : new[c] \in Factories
    BY DEF MapInv
  <2> HIDE DEF new
  <2>3. /\ mClassObjectMap' = [e \in Directors |-> mClassObjectMap'[e]]
        /\ \A e \in Directors : mClassObjectMap'[e] = IF e = d THEN new ELSE mClassObjectMap[e]
    BY <2>1 DEF MapInv
  <2> QED BY <2>2, <2>3 DEF MapInv
<1>3. CASE Load
  <2>1. mClassObjectMap' = [d \in Directors |-> <<>>] /\ DOMAIN <<>> = {}
    BY <1>3 DEF Load
  <2> QED BY <2>1 DEF MapInv
<1> QED BY <1>1, <1>2, <1>3 DEF Next, Register, AddDirector, InitializeCOM, OnStart, HoldDirector,
         DropDirector, AddRef, RemoveRef, GetClassObject, UseObjects, Unload, directorVars, vars

(* Released is gone, or one fewer and still referenced.                    *)
LEMMA ReleasedKind ==
  ASSUME NEW x, IsObject(x), x.count \in 0 .. Width - 1
  PROVE  /\ Released(x).class \in {x.class, "absent"}
         /\ Released(x).class = "string" => Released(x).count > 0
<1>1. (x.count + Width - 1) % Width \in 0 .. Width - 1
  BY ObjectAssumption, SMT
<1> DEFINE n == (x.count + Width - 1) % Width
<1>2. CASE x.class = "string"
  <2>1. Released(x) = IF n = 0 THEN Absent ELSE [x EXCEPT !.count = n]
    BY <1>2 DEF Released
  <2> HIDE DEF n
  <2>2. [x EXCEPT !.count = n] = [class |-> x.class, count |-> n]
    BY SMT DEF IsObject
  <2>3. n # 0 => n > 0
    BY <1>1, ObjectAssumption, SMT DEF n
  <2> QED BY <1>2, <2>1, <2>2, <2>3, SMT DEF Absent
<1>3. CASE x.class # "string"
  <2>1. Released(x) = IF x.count <= 1 THEN Absent ELSE [x EXCEPT !.count = x.count - 1]
    BY <1>3 DEF Released
  <2>2. [x EXCEPT !.count = x.count - 1] = [class |-> x.class, count |-> x.count - 1]
    BY SMT DEF IsObject
  <2> QED BY <1>3, <2>1, <2>2, SMT DEF Absent
<1> QED BY <1>2, <1>3

(* What a client does to the objects.                                      *)
LEMMA ClientEffects ==
  ASSUME ObjInv, ClientNext, NEW q \in Objects
  PROVE  \/ objs'[q] = objs[q]
         \/ objs'[q] = Released(objs[q])
         \/ /\ objs'[q] = AddedRef(objs[q])
            /\ owned'[q] > 0 \/ \E w \in Wrappers : ptr'[w] = q
<1>1. /\ objs = [o \in Objects |-> objs[o]] /\ owned \in [Objects -> Nat]
      /\ ptr \in [Wrappers -> Objects \cup {NoObject}] /\ NoObject \notin Objects
  BY ObjectAssumption, ReferenceAssumption DEF ObjInv
<1>2. ASSUME NEW o \in Objects, AddRefObject(o)
      PROVE  objs'[q] = objs[q] \/ (objs'[q] = AddedRef(objs[q]) /\ owned'[q] > 0)
  BY <1>1, <1>2 DEF AddRefObject
<1>3. ASSUME NEW o \in Objects, QueryInterface(o)
      PROVE  objs'[q] = objs[q] \/ (objs'[q] = AddedRef(objs[q]) /\ owned'[q] > 0)
  BY <1>1, <1>3 DEF QueryInterface, Queried, QueryGives
<1>4. ASSUME NEW o \in Objects, ReleaseObject(o)
      PROVE  objs'[q] = objs[q] \/ objs'[q] = Released(objs[q])
  BY <1>1, <1>4 DEF ReleaseObject
<1>5. ASSUME NEW w \in Wrappers, DestroyWrapper(w)
      PROVE  objs'[q] = objs[q] \/ objs'[q] = Released(objs[q])
  BY <1>1, <1>5 DEF DestroyWrapper
<1>6. ASSUME NEW w \in Wrappers, NEW p \in Pointers, Assign(w, p)
      PROVE  \/ objs'[q] = objs[q]
             \/ objs'[q] = Released(objs[q])
             \/ objs'[q] = AddedRef(objs[q]) /\ ptr'[w] = q
  <2>1. p \in Objects \cup {NoObject} /\ ptr' = [ptr EXCEPT ![w] = p]
    BY <1>6 DEF Pointers, Assign
  <2>2. CASE ptr[w] = p
    BY <1>6, <2>2 DEF Assign
  <2>3. CASE ptr[w] # p
    <3> DEFINE old == ptr[w]
               dropped == IF old = NoObject THEN objs ELSE [objs EXCEPT ![old] = Released(objs[old])]
    <3>1. objs' = IF p = NoObject THEN dropped ELSE [dropped EXCEPT ![p] = AddedRef(dropped[p])]
      BY <1>6, <2>3 DEF Assign, Swapped
    <3>2. /\ dropped = [o \in Objects |-> dropped[o]]
          /\ \A o \in Objects : dropped[o] = IF o = old THEN Released(objs[o]) ELSE objs[o]
      <4>1. CASE old = NoObject
        BY <1>1, <4>1
      <4>2. CASE old # NoObject
        BY <1>1, <4>2
      <4> QED BY <4>1, <4>2
    <3> HIDE DEF dropped
    <3>3. objs'[q] = IF q = p THEN AddedRef(dropped[q]) ELSE dropped[q]
      BY <1>1, <2>1, <3>1, <3>2
    <3>4. q = p => ptr'[w] = q
      BY <1>1, <2>1
    <3> QED BY <2>3, <3>2, <3>3, <3>4
  <2> QED BY <2>2, <2>3
<1>7. ASSUME NEW w \in Wrappers, NEW o \in Objects, Wrap(w, o) PROVE objs'[q] = objs[q]
  BY <1>7 DEF Wrap
<1> QED BY <1>2, <1>3, <1>4, <1>5, <1>6, <1>7 DEF ClientNext

LEMMA ClientKind == ASSUME ObjInv, ObjInv', KindInv, ClientNext PROVE KindInv'
<1> SUFFICES ASSUME NEW q \in Objects
             PROVE  /\ objs'[q].class \in Classes \cup {"absent"}
                    /\ objs'[q].class = "string" => objs'[q].count > 0
  BY DEF KindInv
<1>1. /\ objs[q].class \in Classes \cup {"absent"}
      /\ objs[q].class = "string" => objs[q].count > 0
  BY DEF KindInv
<1>2. IsObject(objs[q]) /\ objs[q].count \in 0 .. Width - 1
  BY ObjectCounts
<1>3. CASE objs'[q] = objs[q]
  BY <1>1, <1>3
<1>4. CASE objs'[q] = Released(objs[q])
  <2>1. /\ Released(objs[q]).class \in {objs[q].class, "absent"}
        /\ Released(objs[q]).class = "string" => Released(objs[q]).count > 0
    BY <1>2, ReleasedKind
  <2> QED BY <1>1, <1>4, <2>1
<1>5. CASE /\ objs'[q] = AddedRef(objs[q])
           /\ owned'[q] > 0 \/ \E w \in Wrappers : ptr'[w] = q
  <2>1. AddedRef(objs[q]).class = objs[q].class
    BY <1>2, SMT DEF AddedRef, IsObject
  <2>2. /\ objs'[q].count = owned'[q] + Cardinality(Pointing(q)') /\ owned'[q] \in Nat
        /\ ptr' \in [Wrappers -> Objects \cup {NoObject}]
    BY ReferenceAssumption DEF ObjInv, CountsReferences, References, Pointing
  <2>3. Pointing(q)' = {w \in Wrappers : ptr'[w] = q} /\ Pointing(q)' \in SUBSET Wrappers
    BY DEF Pointing
  <2>4. IsFiniteSet(Pointing(q)') /\ Cardinality(Pointing(q)') \in Nat
    BY <2>3, ReferenceAssumption, FS_Subset, FS_CardinalityType
  <2>5. objs'[q].count > 0
    <3>1. CASE owned'[q] > 0
      BY <2>2, <2>4, <3>1, SMT
    <3>2. CASE \E w \in Wrappers : ptr'[w] = q
      <4>1. Pointing(q)' # {}
        BY <2>3, <3>2
      <4>2. Cardinality(Pointing(q)') # 0
        BY <2>4, <4>1, FS_EmptySet
      <4> QED BY <2>2, <2>4, <4>2, SMT
    <3> QED BY <1>5, <3>1, <3>2
  <2> QED BY <1>1, <1>5, <2>1, <2>5
<1> QED BY <1>3, <1>4, <1>5, ClientEffects

(* The provider's factory is one of the library's.                         *)
LEMMA ProvidedClass ==
  ASSUME NestingInv, MapInv, NEW cls, NEW iid, Provider(Root, cls, iid) # NoDirector
  PROVE  mClassObjectMap[Provider(Root, cls, iid)][cls].class \in Classes
<1> DEFINE p == Provider(Root, cls, iid)
           able == {e \in Under(Root) : Serves(e, cls, iid)}
<1>1. Root \in Directors
  BY DirectorAssumption
<1>2. IF able = {} THEN p = NoDirector
      ELSE p \in Directors /\ p \in able /\ able \cap Under(p) = {p}
  BY <1>1, LookupOf
<1> HIDE DEF p
<1>3. p \in Directors /\ Serves(p, cls, iid)
  BY <1>2 DEF p
<1>4. mClassObjectMap[p][cls] \in Factories
  BY <1>3 DEF Serves, Registers, MapInv
<1> QED BY <1>4, FactoryAssumption DEF p

LEMMA GetClassObjectKind ==
  ASSUME ObjInv, NestingInv, MapInv, KindInv, NEW cls, NEW iid, NEW o \in Objects, NEW w \in Objects,
         GetClassObject(cls, iid, o, w)
  PROVE  KindInv'
<1> DEFINE left == {Refused(f.class) : f \in InVain(Root, cls, iid)}
           p == Provider(Root, cls, iid)
           class == mClassObjectMap[p][cls].class
<1>1. PICK x \in IF left = {} THEN {Absent} ELSE left :
        IF p = NoDirector
          THEN objs' = [objs EXCEPT ![w] = x]
          ELSE objs' = [objs EXCEPT ![w] = x, ![o] = Queried(New(class))]
  BY DEF GetClassObject
<1>2. x = Absent
  <2>1. \A y \in left : y = Absent
    BY RefusedGone
  <2> HIDE DEF left
  <2> QED BY <1>1, <2>1
<1>3. p # NoDirector => class \in Classes
  BY ProvidedClass
<1> HIDE DEF p, class
<1>4. Absent.class = "absent"
  BY DEF Absent
<1>5. class \in Classes => /\ Queried(New(class)).class \in Classes
                           /\ Queried(New(class)).class = "string" => Queried(New(class)).count > 0
  <2> SUFFICES ASSUME class \in Classes
               PROVE  /\ Queried(New(class)).class \in Classes
                      /\ Queried(New(class)).class = "string" => Queried(New(class)).count > 0
    OBVIOUS
  <2>1. Queried(New(class)).count = QueryGives(class)
    BY MadeCounts
  <2>2. Queried(New(class)).class = class
    BY SMT DEF Queried, New, AddedRef
  <2>3. class = "string" => QueryGives(class) > 0
    BY SMT DEF QueryGives
  <2> QED BY <2>1, <2>2, <2>3
<1>6. objs = [q \in Objects |-> objs[q]]
  BY DEF ObjInv
<1>7. ASSUME NEW q \in Objects
      PROVE  \/ objs'[q] = objs[q]
             \/ objs'[q] = Absent
             \/ objs'[q] = Queried(New(class)) /\ class \in Classes
  <2>1. CASE p = NoDirector
    BY <1>1, <1>2, <1>6, <2>1
  <2>2. CASE p # NoDirector
    BY <1>1, <1>2, <1>3, <1>6, <2>2
  <2> QED BY <2>1, <2>2
<1> QED BY <1>4, <1>5, <1>7 DEF KindInv

LibraryInv == ObjInv /\ NestingInv /\ MapInv /\ KindInv

LEMMA InitLibraryInv == Init => LibraryInv
<1> SUFFICES ASSUME Init PROVE LibraryInv
  OBVIOUS
<1>1. MapInv
  <2>1. mClassObjectMap = [d \in Directors |-> <<>>] /\ DOMAIN <<>> = {}
    BY DEF Init, Unloaded
  <2> QED BY <2>1 DEF MapInv
<1>2. KindInv
  BY DEF Init, ObjectInit, Absent, KindInv
<1> QED BY <1>1, <1>2, InitObjInv, InitNestingInv DEF LibraryInv

LEMMA NextLibraryInv == ASSUME LibraryInv, [Next]_vars PROVE LibraryInv'
<1>1. ObjInv' /\ NestingInv' /\ MapInv'
  BY NextObjInv, NextNestingInv, NextMapInv DEF LibraryInv
<1>2. KindInv'
  <2>1. ASSUME NEW cls \in ClassIDs, NEW iid \in Interfaces, NEW o \in Objects, NEW w \in Objects,
               GetClassObject(cls, iid, o, w)
        PROVE  KindInv'
    BY <2>1, GetClassObjectKind DEF LibraryInv
  <2>2. CASE UseObjects
    BY <1>1, <2>2, ClientKind DEF UseObjects, LibraryInv
  <2>3. ASSUME objs' = objs PROVE KindInv'
    BY <2>3 DEF LibraryInv, KindInv
  <2> QED BY <2>1, <2>2, <2>3 DEF Next, Register, HoldDirector, DropDirector, Unload, Load,
           objectVars, vars
<1> QED BY <1>1, <1>2 DEF LibraryInv

LEMMA KindFreed == LibraryInv => FreedExactly
<1> SUFFICES ASSUME LibraryInv, NEW o \in Objects
             PROVE  /\ References(o) > 0 => Alive(o)
                    /\ Alive(o) => References(o) > 0 \/ objs[o] = New("cmdline")
  BY DEF FreedExactly
<1>1. /\ References(o) > 0 => Alive(o)
      /\ IsObject(objs[o]) /\ References(o) = objs[o].count /\ objs[o].count \in 0 .. Width - 1
  BY ObjectCounts DEF LibraryInv, ObjInv
<1>2. ASSUME Alive(o), ~(References(o) > 0) PROVE objs[o] = New("cmdline")
  <2>1. objs[o].count = 0
    BY <1>1, <1>2, ObjectAssumption, SMT
  <2>2. objs[o].class = "cmdline"
    BY <1>1, <1>2 DEF LibraryInv, KindInv, Classes, Alive
  <2> QED BY <1>1, <2>1, <2>2 DEF IsObject, New
<1> QED BY <1>1, <1>2

(* No block is freed while something refers to it and none stays when      *)
(* nothing does, but for a cRZCmdLine that its client never counted: those *)
(* that GetClassObject makes in vain are gone too, whatever directors and  *)
(* factories there are.                                                    *)
THEOREM ObjectsFreed == Spec => []FreedExactly
<1>1. LibraryInv /\ [Next]_vars => LibraryInv'
  BY NextLibraryInv
<1> QED BY InitLibraryInv, KindFreed, <1>1, PTL DEF Spec

-----------------------------------------------------------------------------
(* Types.                                                                  *)

BoundsInv ==
  /\ \A d \in Directors : Len(mChildDirectorArray[d]) <= MaxChildren
  /\ mnRefCount \in [Directors -> 0 .. MaxRefs]
  /\ dirHeld \in [Directors -> 0 .. MaxRefs]
  /\ hooked \in BOOLEAN
  /\ loaded \in BOOLEAN

LEMMA AddedBounds ==
  ASSUME NestingInv, BoundsInv, NEW p \in Directors, NEW c \in Directors, AddDirector(p, c)
  PROVE  \A d \in Directors : Len(mChildDirectorArray'[d]) <= MaxChildren
<1> DEFINE arr == mChildDirectorArray
<1>1. /\ arr \in Nestings /\ Acyclic(arr) /\ Visits[c] = VisitsIn(arr)[c]
      /\ Len(arr[p]) + Len(Visits[c]) <= MaxChildren
      /\ mChildDirectorArray' = [arr EXCEPT ![p] = arr[p] \o Visits[c]]
  BY VisitsOfChildren DEF NestingInv, AddDirector
<1>2. PICK s, t \in Seq(Directors) : s = arr[p] /\ t = Visits[c]
  BY <1>1, BelowUnfolds DEF Nestings
<1>3. Len(s \o t) = Len(s) + Len(t)
  BY ConcatProperties
<1>4. \A d \in Directors : mChildDirectorArray'[d] = IF d = p THEN s \o t ELSE arr[d]
  BY <1>1, <1>2 DEF Nestings
<1>5. Len(s \o t) <= MaxChildren
  BY <1>1, <1>2, <1>3
<1>6. \A d \in Directors : Len(arr[d]) <= MaxChildren
  BY DEF BoundsInv
<1> HIDE DEF arr
<1> QED BY <1>4, <1>5, <1>6

LEMMA NextBoundsInv == ASSUME NestingInv, BoundsInv, [Next]_vars PROVE BoundsInv'
<1>1. CASE Register
  <2>1. ASSUME NEW p \in Directors, NEW c \in Directors, AddDirector(p, c) PROVE BoundsInv'
    <3>1. UNCHANGED <<mnRefCount, hooked, loaded, dirHeld>>
      BY <1>1, <2>1 DEF Register, AddDirector
    <3> QED BY <2>1, <3>1, AddedBounds DEF BoundsInv
  <2>2. ASSUME NEW d \in Directors, NEW cls \in ClassIDs, NEW f \in Factories, AddCls(d, cls, f)
        PROVE  BoundsInv'
    BY <1>1, <2>2 DEF Register, AddCls, BoundsInv
  <2>3. ASSUME NEW com \in Coms, InitializeCOM(Root, com) PROVE BoundsInv'
    BY <1>1, <2>3 DEF Register, InitializeCOM, BoundsInv
  <2>4. CASE OnStart
    BY <1>1, <2>4 DEF Register, OnStart, BoundsInv
  <2> QED BY <1>1, <2>1, <2>2, <2>3, <2>4 DEF Register
<1>2. ASSUME NEW d \in Directors, HoldDirector(d) PROVE BoundsInv'
  <2>1. /\ mnRefCount[d] < MaxRefs /\ dirHeld[d] < MaxRefs
        /\ mnRefCount' = [mnRefCount EXCEPT ![d] = @ + 1]
        /\ dirHeld' = [dirHeld EXCEPT ![d] = @ + 1]
        /\ UNCHANGED <<mChildDirectorArray, hooked, loaded>>
    BY <1>2 DEF HoldDirector, AddRef
  <2> QED BY <2>1, DirectorAssumption, SMT DEF BoundsInv
<1>3. ASSUME NEW d \in Directors, DropDirector(d) PROVE BoundsInv'
  <2>1. /\ dirHeld[d] > 0
        /\ mnRefCount' = [mnRefCount EXCEPT ![d] = IF @ > 0 THEN @ - 1 ELSE 0]
        /\ dirHeld' = [dirHeld EXCEPT ![d] = @ - 1]
        /\ UNCHANGED <<mChildDirectorArray, hooked, loaded>>
    BY <1>3 DEF DropDirector, RemoveRef
  <2> QED BY <2>1, DirectorAssumption, SMT DEF BoundsInv
<1>4. ASSUME NEW cls \in ClassIDs, NEW iid \in Interfaces, NEW o \in Objects, NEW w \in Objects,
             GetClassObject(cls, iid, o, w)
      PROVE  BoundsInv'
  BY <1>4 DEF GetClassObject, directorVars, BoundsInv
<1>5. CASE UseObjects
  BY <1>5 DEF UseObjects, directorVars, BoundsInv
<1>6. CASE Unload
  BY <1>6 DEF Unload, directorVars, BoundsInv
<1>7. CASE Load
  <2>1. \A d \in Directors : Len(mChildDirectorArray'[d]) = 0
    BY <1>7 DEF Load
  <2>2. mnRefCount' \in [Directors -> 0 .. MaxRefs]
    BY <1>7, DirectorAssumption DEF Load
  <2>3. UNCHANGED <<hooked, dirHeld>> /\ loaded' = TRUE
    BY <1>7 DEF Load
  <2> QED BY <2>1, <2>2, <2>3, DirectorAssumption DEF BoundsInv
<1>8. CASE UNCHANGED vars
  BY <1>8 DEF vars, directorVars, BoundsInv
<1> QED BY <1>1, <1>2, <1>3, <1>4, <1>5, <1>6, <1>7, <1>8 DEF Next

LEMMA TypesOf == LibraryInv /\ BoundsInv => TypeOK
<1> SUFFICES ASSUME LibraryInv, BoundsInv PROVE TypeOK
  OBVIOUS
<1>1. DirectorTypeOK
  BY DEF LibraryInv, BoundsInv, NestingInv, MapInv, Nestings, DirectorTypeOK
<1>2. objs \in [Objects -> [class : Classes \cup {"absent"}, count : 0 .. Width - 1]]
  <2>1. \A o \in Objects : objs[o] \in [class : Classes \cup {"absent"}, count : 0 .. Width - 1]
    <3> TAKE o \in Objects
    <3>1. IsObject(objs[o]) /\ objs[o].count \in 0 .. Width - 1
      BY ObjectCounts DEF LibraryInv
    <3>2. objs[o].class \in Classes \cup {"absent"}
      BY DEF LibraryInv, KindInv
    <3> QED BY <3>1, <3>2 DEF IsObject
  <2>2. objs = [o \in Objects |-> objs[o]]
    BY DEF LibraryInv, ObjInv
  <2> QED BY <2>1, <2>2
<1>3. ObjectTypeOK
  BY <1>2 DEF LibraryInv, ObjInv, ObjectTypeOK
<1> QED BY <1>1, <1>3 DEF BoundsInv, TypeOK

(* Every state of a library in use is of its types: no director or factory *)
(* comes from elsewhere, and counts stay within the counter's width.       *)
THEOREM LibraryTypes == Spec => []TypeOK
<1>1. Init => BoundsInv
  <2> SUFFICES ASSUME Init PROVE BoundsInv
    OBVIOUS
  <2>1. \A d \in Directors : Len(mChildDirectorArray[d]) = 0
    BY DEF Init, Unloaded
  <2>2. 0 \in 0 .. MaxRefs /\ 0 <= MaxChildren
    BY DirectorAssumption
  <2> QED BY <2>1, <2>2 DEF Init, Unloaded, BoundsInv
<1>2. LibraryInv /\ BoundsInv /\ [Next]_vars => LibraryInv' /\ BoundsInv'
  BY NextLibraryInv, NextBoundsInv DEF LibraryInv
<1> QED BY InitLibraryInv, TypesOf, <1>1, <1>2, PTL DEF Spec
=============================================================================
