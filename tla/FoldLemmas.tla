---------------------------- MODULE FoldLemmas ------------------------------
(***************************************************************************)
(* Facts about passes over a sequence: induction over its length, and what *)
(* the folds of the community modules come to, one element at a time.      *)
(* The provers cannot take a step of a fold as a parameter, so a module    *)
(* that uses these facts names its steps.                                  *)
(***************************************************************************)
EXTENDS SequencesExt, WellFoundedInduction, SequenceTheorems, TLAPS

\* Induction over the natural numbers, said of a set: a least element that is
\* not in it would not be 0 and would follow one that is.
LEMMA SetInduction ==
  ASSUME NEW T, 0 \in T, \A n \in Nat : n \in T => n + 1 \in T
  PROVE  Nat \subseteq T
<1> DEFINE R == OpToRel(<, Nat)
           B == Nat \ T
<1>1. IsWellFoundedOn(R, Nat)
  BY NatLessThanWellFounded
<1>2. \A x, y \in Nat : y < x => <<y, x>> \in R
  BY DEF OpToRel
<1> SUFFICES ASSUME B # {} PROVE FALSE
  OBVIOUS
<1> HIDE DEF R
<1>3. PICK x \in B : \A y \in B : <<y, x>> \notin R
  <2>1. B \subseteq Nat
    OBVIOUS
  <2> HIDE DEF B
  <2> QED BY <1>1, <2>1, WFMin
<1>4. x # 0 /\ x \in Nat /\ x - 1 \in Nat /\ x - 1 < x
  BY <1>3
<1>5. x - 1 \in T
  <2>1. <<x - 1, x>> \in R
    BY <1>2, <1>4
  <2> QED BY <2>1, <1>3, <1>4
<1>6. (x - 1) + 1 = x
  BY <1>4
<1> QED BY <1>3, <1>4, <1>5, <1>6

LEMMA MaxIsLast ==
  ASSUME NEW n \in Nat, n # 0
  PROVE  Max(1..n) = n
<1>1. n \in 1..n /\ \A y \in 1..n : n >= y
  OBVIOUS
<1>2. \A x \in 1..n : (\A y \in 1..n : x >= y) => x = n
  BY <1>1
<1> QED BY <1>1, <1>2 DEF Max

\* A set of indices has a largest one, and Max picks it.
LEMMA MaxIsMember ==
  ASSUME NEW n \in Nat, NEW s \in SUBSET (1..n), s # {}
  PROVE  Max(s) \in s
<1> DEFINE T == {k \in Nat : \A r \in SUBSET (1..k) : r # {} => \E x \in r : \A y \in r : x >= y}
<1>1. 0 \in T
  <2>1. 1..0 = {}
    OBVIOUS
  <2> QED BY <2>1
<1>2. \A k \in Nat : k \in T => k + 1 \in T
  <2> SUFFICES ASSUME NEW k \in Nat, k \in T, NEW r \in SUBSET (1..(k + 1)), r # {}
               PROVE  \E x \in r : \A y \in r : x >= y
    OBVIOUS
  <2>1. CASE k + 1 \in r
    BY <2>1
  <2>2. CASE k + 1 \notin r
    <3>1. r \in SUBSET (1..k)
      BY <2>2
    <3> QED BY <3>1
  <2> QED BY <2>1, <2>2
<1> HIDE DEF T
<1>3. n \in T
  BY <1>1, <1>2, SetInduction
<1>4. \E x \in s : \A y \in s : x >= y
  BY <1>3 DEF T
<1> QED BY <1>4 DEF Max

\* The values of a fold over the sets of indices up to n: F joins the largest
\* to what the others came to.
IsFold(iter, n, X, base, F) ==
  /\ iter = [s \in SUBSET (1..n) |-> IF s = {} THEN base ELSE F[<<iter[s \ {Max(s)}], Max(s)>>]]
  /\ \A s \in SUBSET (1..n) : s # {} => Max(s) \in 1..n /\ iter[s \ {Max(s)}] \in X

\* The function by which MapThenFoldSet folds exists: it is built up one index
\* at a time.
LEMMA FoldExists ==
  ASSUME NEW n \in Nat, NEW X, NEW base \in X, NEW F \in [X \X (1..n) -> X]
  PROVE  \E iter : IsFold(iter, n, X, base, F)
<1> DEFINE Good(iter, m) == \A s \in SUBSET (1..m) :
             iter[s] = IF s = {} THEN base ELSE F[<<iter[s \ {Max(s)}], Max(s)>>]
           T == {m \in Nat : m <= n => \E iter \in [SUBSET (1..n) -> X] : Good(iter, m)}
<1>1. 0 \in T
  <2> DEFINE it == [s \in SUBSET (1..n) |-> base]
  <2>1. it \in [SUBSET (1..n) -> X]
    OBVIOUS
  <2>2. Good(it, 0)
    <3>1. SUBSET (1..0) = {{}} /\ {} \in SUBSET (1..n)
      <4>1. 1..0 = {}
        OBVIOUS
      <4> QED BY <4>1
    <3> QED BY <3>1
  <2> HIDE DEF Good, it
  <2> QED BY <2>1, <2>2
<1>2. ASSUME NEW m \in Nat, m \in T PROVE m + 1 \in T
  <2>1. ASSUME m + 1 <= n
        PROVE  \E iter \in [SUBSET (1..n) -> X] : Good(iter, m + 1)
    <3>0. m <= n
      BY <2>1
    <3>1. PICK it \in [SUBSET (1..n) -> X] : Good(it, m)
      <4> HIDE DEF Good
      <4> QED BY <1>2, <3>0, Zenon
    <3> DEFINE new == [s \in SUBSET (1..n) |->
                         IF m + 1 \in s THEN F[<<it[s \ {m + 1}], m + 1>>] ELSE it[s]]
    <3>2. new \in [SUBSET (1..n) -> X]
      <4>1. m + 1 \in 1..n
        BY <2>1
      <4>2. ASSUME NEW s \in SUBSET (1..n)
            PROVE  s \ {m + 1} \in SUBSET (1..n) /\ it[s \ {m + 1}] \in X /\ it[s] \in X
        OBVIOUS
      <4>3. ASSUME NEW s \in SUBSET (1..n) PROVE new[s] \in X
        <5>1. F[<<it[s \ {m + 1}], m + 1>>] \in X
          BY <4>1, <4>2
        <5> QED BY <5>1, <4>2
      <4> QED BY <4>3
    <3>3. Good(new, m + 1)
      <4> SUFFICES ASSUME NEW s \in SUBSET (1..(m + 1))
                   PROVE  new[s] = IF s = {} THEN base ELSE F[<<new[s \ {Max(s)}], Max(s)>>]
        OBVIOUS
      <4>0. SUBSET (1..(m + 1)) \subseteq SUBSET (1..n)
        BY <2>1
      <4>1. CASE m + 1 \in s
        <5>1. Max(s) = m + 1
          <6>1. \A y \in s : m + 1 >= y
            OBVIOUS
          <6>2. \A x \in s : (\A y \in s : x >= y) => x = m + 1
            BY <4>1, <6>1
          <6> QED BY <4>1, <6>1, <6>2 DEF Max
        <5>2. s \ {m + 1} \in SUBSET (1..n) /\ m + 1 \notin s \ {m + 1}
          BY <4>0
        <5>3. new[s \ {m + 1}] = it[s \ {m + 1}]
          BY <5>2
        <5>4. new[s] = F[<<it[s \ {m + 1}], m + 1>>]
          BY <4>0, <4>1
        <5> HIDE DEF new
        <5> QED BY <4>1, <5>1, <5>3, <5>4
      <4>2. CASE m + 1 \notin s
        <5>1. s \in SUBSET (1..m)
          BY <4>2
        <5>2. new[s] = it[s]
          BY <4>0, <4>2
        <5>3. new[s \ {Max(s)}] = it[s \ {Max(s)}]
          <6>1. s \ {Max(s)} \in SUBSET (1..n) /\ m + 1 \notin s \ {Max(s)}
            BY <4>0, <4>2
          <6> QED BY <6>1
        <5>4. it[s] = IF s = {} THEN base ELSE F[<<it[s \ {Max(s)}], Max(s)>>]
          BY <3>1, <5>1
        <5> HIDE DEF new
        <5> QED BY <5>2, <5>3, <5>4
      <4> QED BY <4>1, <4>2
    <3> HIDE DEF Good, new
    <3> QED BY <3>2, <3>3, Zenon
  <2>2. m + 1 \in Nat
    OBVIOUS
  <2> HIDE DEF Good
  <2> QED BY <2>1, <2>2, Zenon
<1>3. n \in T
  <2> HIDE DEF T
  <2> QED BY <1>1, <1>2, SetInduction
<1>4. n <= n
  OBVIOUS
<1>5. \E iter \in [SUBSET (1..n) -> X] : Good(iter, n)
  <2> HIDE DEF Good
  <2> QED BY <1>3, <1>4, Zenon
<1>6. PICK iter \in [SUBSET (1..n) -> X] : Good(iter, n)
  BY <1>5
<1>7. iter = [s \in SUBSET (1..n) |->
                IF s = {} THEN base ELSE F[<<iter[s \ {Max(s)}], Max(s)>>]]
  BY <1>6
<1>8. ASSUME NEW s \in SUBSET (1..n), s # {}
      PROVE  Max(s) \in 1..n /\ iter[s \ {Max(s)}] \in X
  <2>1. Max(s) \in s
    BY <1>8, MaxIsMember
  <2> QED BY <2>1
<1> HIDE DEF T
<1> QED BY <1>7, <1>8 DEF IsFold

\* The sets of indices that a fold from the left passes.
LEMMA UpTo ==
  ASSUME NEW n \in Nat
  PROVE  /\ 1..0 = {} /\ {} \in SUBSET (1..n)
         /\ 0 \in 0..n /\ n \in 0..n /\ 1..n \in SUBSET (1..n)
         /\ \A i \in 1..n : /\ 1..i \in SUBSET (1..n) /\ 1..i # {} /\ Max(1..i) = i
                            /\ (1..i) \ {i} = 1..(i - 1) /\ i \in 0..n /\ i - 1 \in 0..n
<1>1. 1..0 = {} /\ {} \in SUBSET (1..n) /\ 0 \in 0..n /\ n \in 0..n /\ 1..n \in SUBSET (1..n)
  OBVIOUS
<1>2. ASSUME NEW i \in 1..n
      PROVE  /\ 1..i \in SUBSET (1..n) /\ 1..i # {} /\ Max(1..i) = i
             /\ (1..i) \ {i} = 1..(i - 1) /\ i \in 0..n /\ i - 1 \in 0..n
  <2>1. i \in 1..i
    OBVIOUS
  <2>2. Max(1..i) = i
    BY MaxIsLast
  <2>3. (1..i) \ {i} = 1..(i - 1)
    OBVIOUS
  <2>4. 1..i \in SUBSET (1..n) /\ i \in 0..n /\ i - 1 \in 0..n
    OBVIOUS
  <2> QED BY <2>1, <2>2, <2>3, <2>4
<1> QED BY <1>1, <1>2, Zenon

\* Two runs from the same start by the same steps end the same.
LEMMA SameTrace ==
  ASSUME NEW n \in Nat, NEW p, NEW q, p[0] = q[0],
         \A i \in 1..n : p[i - 1] = q[i - 1] => p[i] = q[i]
  PROVE  p[n] = q[n]
<1> DEFINE T == {i \in Nat : i <= n => p[i] = q[i]}
<1>1. 0 \in T
  OBVIOUS
<1>2. ASSUME NEW i \in Nat, i \in T PROVE i + 1 \in T
  <2>1. ASSUME i + 1 <= n PROVE p[i + 1] = q[i + 1]
    <3>1. i + 1 \in 1..n /\ (i + 1) - 1 = i /\ i <= n
      BY <2>1
    <3>2. p[i] = q[i]
      BY <1>2, <3>1
    <3> QED BY <3>1, <3>2
  <2> QED BY <2>1
<1>3. n \in T
  <2> HIDE DEF T
  <2> QED BY <1>1, <1>2, SetInduction
<1> QED BY <1>3

\* Induction over sequences, said of a set: what holds of the empty sequence
\* and is kept by Append holds of all.
LEMMA SeqInduction ==
  ASSUME NEW W, NEW T, << >> \in T, \A s \in Seq(W), w \in W : s \in T => Append(s, w) \in T
  PROVE  Seq(W) \subseteq T
<1> DEFINE Upto == {n \in Nat : \A s \in Seq(W) : Len(s) = n => s \in T}
<1>1. 0 \in Upto
  <2>1. \A s \in Seq(W) : Len(s) = 0 => s = << >>
    OBVIOUS
  <2> QED BY <2>1
<1>2. ASSUME NEW n \in Nat, n \in Upto PROVE n + 1 \in Upto
  <2> SUFFICES ASSUME NEW s \in Seq(W), Len(s) = n + 1 PROVE s \in T
    OBVIOUS
  <2> DEFINE front == [i \in 1..n |-> s[i]]
  <2>1. front \in Seq(W) /\ Len(front) = n
    OBVIOUS
  <2>2. s[n + 1] \in W
    OBVIOUS
  <2>3. Append(front, s[n + 1]) = s
    <3>1. Append(front, s[n + 1]) \in Seq(W) /\ Len(Append(front, s[n + 1])) = n + 1
      BY <2>1, <2>2
    <3>2. \A i \in 1..(n + 1) : Append(front, s[n + 1])[i] = s[i]
      BY <2>1
    <3> HIDE DEF front
    <3> QED BY <3>1, <3>2, SeqEqual
  <2>4. front \in T
    BY <1>2, <2>1
  <2> HIDE DEF front
  <2> QED BY <2>1, <2>2, <2>3, <2>4
<1>3. Nat \subseteq Upto
  <2> HIDE DEF Upto
  <2> QED BY <1>1, <1>2, SetInduction
<1> QED BY <1>3

LEMMA ConcatAppend ==
  ASSUME NEW W, NEW p \in Seq(W), NEW q \in Seq(W), NEW w \in W
  PROVE  p \o q \in Seq(W) /\ p \o Append(q, w) = Append(p \o q, w)
<1> DEFINE one == <<w>>
           pq == p \o q
<1>1. one \in Seq(W) /\ Append(q, w) = q \o one
  BY AppendIsConcat
<1>2. pq \in Seq(W)
  BY ConcatProperties
<1> HIDE DEF one
<1>3. p \o (q \o one) = pq \o one
  BY <1>1, ConcatAssociative
<1>4. pq \o one = Append(pq, w)
  <2> HIDE DEF pq
  <2> QED BY <1>2, AppendIsConcat DEF one
<1> QED BY <1>1, <1>2, <1>3, <1>4
=============================================================================
