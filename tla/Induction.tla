------------------------------ MODULE Induction -----------------------------
(***************************************************************************)
(* Induction over the natural numbers, stated of sets and not of a         *)
(* predicate, so that a proof can cite it: the set of the numbers a claim  *)
(* holds of is given when the lemma is used.  With it, what the folds of   *)
(* the community modules compute: they are recursive functions, which      *)
(* equal their equation only if some function does.                        *)
(***************************************************************************)
EXTENDS Integers, FiniteSetsExt, WellFoundedInduction, TLAPS

Smaller == {p \in Nat \X Nat : p[1] < p[2]}

LEMMA SmallerIsWellFounded == IsWellFoundedOn(Smaller, Nat)
BY NatLessThanWellFounded DEF OpToRel, Smaller

\* A set of natural numbers that is not empty has a least element.
LEMMA LeastElement ==
  ASSUME NEW S, S \subseteq Nat, S # {}
  PROVE  \E m \in S : \A x \in S : m =< x
<1>1. PICK m \in S : \A x \in S : ~(<<x, m>> \in Smaller)
  BY SmallerIsWellFounded, WFMin
<1>2. ASSUME NEW x \in S PROVE m =< x
  <2>1. x \in Nat /\ m \in Nat /\ ~(<<x, m>> \in Smaller)
    BY <1>1
  <2> QED
    BY <2>1 DEF Smaller
<1> QED
  BY <1>2

\* Induction: what holds of 0, and with n of n + 1, holds of all.
LEMMA CountUp ==
  ASSUME NEW S, 0 \in S, \A n \in Nat : n \in S => n + 1 \in S
  PROVE  \A n \in Nat : n \in S
<1> DEFINE T == Nat \ S
<1> SUFFICES ASSUME T # {} PROVE FALSE
  OBVIOUS
<1>1. PICK m \in T : \A x \in T : m =< x
  BY LeastElement
<1>2. m - 1 \in Nat /\ m - 1 \notin T
  BY <1>1
<1> QED
  BY <1>2

-----------------------------------------------------------------------------
\* What Max chooses from a set of indices.
LEMMA MaxIsGreatest ==
  ASSUME NEW n \in Nat, NEW S, S \subseteq 1..n, S # {}
  PROVE  Max(S) \in S /\ \A x \in S : x =< Max(S)
<1> DEFINE bounds == {b \in Nat : \A x \in S : x =< b}
<1>1. n \in bounds
  OBVIOUS
<1>2. PICK m \in bounds : \A b \in bounds : m =< b
  <2> HIDE DEF bounds
  <2>1. bounds \subseteq Nat
    BY DEF bounds
  <2> QED
    BY <1>1, <2>1, LeastElement
<1>3. m \in S
  <2> SUFFICES ASSUME m \notin S PROVE FALSE
    OBVIOUS
  <2>1. \A x \in S : x \in Nat /\ x =< m - 1
    BY <1>2
  <2>2. m - 1 \in Nat
    <3>1. PICK x \in S : x \in 1..n
      OBVIOUS
    <3> QED
      BY <2>1, <3>1
  <2>3. m - 1 \in bounds
    BY <2>1, <2>2
  <2> QED
    BY <1>2, <2>3
<1>4. \A x \in S : m >= x
  BY <1>2
<1> QED
  BY <1>3, <1>4 DEF Max

LEMMA MaxOfInterval ==
  ASSUME NEW n \in Nat \ {0} PROVE Max(1..n) = n /\ (1..n) \ {n} = 1..(n - 1)
<1>1. n \in 1..n /\ 1..n # {} /\ 1..n \subseteq 1..n
  OBVIOUS
<1>2. Max(1..n) \in 1..n /\ n =< Max(1..n)
  BY <1>1, MaxIsGreatest
<1> QED
  BY <1>2

LEMMA FirstIndices ==
  ASSUME NEW N \in Nat, NEW n \in 1..N
  PROVE  n \in Nat \ {0} /\ 1..n \in SUBSET (1..N) /\ 1..n # {}
<1>1. n \in Nat \ {0} /\ n =< N
  OBVIOUS
<1>2. 1 \in 1..n /\ \A k \in 1..n : k \in 1..N
  BY <1>1
<1> QED
  BY <1>1, <1>2

\* The equation of a fold over 1..n that takes the greatest index first.
FoldEq(it, n, base, F) ==
  it = [s \in SUBSET (1..n) |->
          IF s = {} THEN base ELSE F[<<Max(s), it[s \ {Max(s)}]>>]]

LEMMA FoldExists ==
  ASSUME NEW N \in Nat, NEW V, NEW base \in V, NEW F \in [(1..N) \X V -> V]
  PROVE  \E it \in [SUBSET (1..N) -> V] : FoldEq(it, N, base, F)
<1> DEFINE Good ==
      {n \in Nat : n =< N => \E it \in [SUBSET (1..n) -> V] :
                                FoldEq(it, n, base, F)}
<1>1. 0 \in Good
  <2> DEFINE it == [s \in SUBSET (1..0) |-> base]
  <2>1. \A s \in SUBSET (1..0) : s = {}
    OBVIOUS
  <2>2. FoldEq(it, 0, base, F) /\ it \in [SUBSET (1..0) -> V]
    BY <2>1 DEF FoldEq
  <2> QED
    BY <2>2
<1>2. ASSUME NEW n \in Nat, n \in Good, n + 1 =< N
      PROVE  \E it \in [SUBSET (1..(n + 1)) -> V] : FoldEq(it, n + 1, base, F)
  <2>0. n =< N
    BY <1>2
  <2>1. PICK g \in [SUBSET (1..n) -> V] : FoldEq(g, n, base, F)
    BY <1>2, <2>0
  <2> DEFINE it == [s \in SUBSET (1..(n + 1)) |->
                      IF n + 1 \in s THEN F[<<n + 1, g[s \ {n + 1}]>>]
                                     ELSE g[s]]
  <2>2. ASSUME NEW s \in SUBSET (1..(n + 1)), n + 1 \in s
        PROVE  /\ it[s] \in V
               /\ it[s] = F[<<Max(s), it[s \ {Max(s)}]>>]
    <3>1. Max(s) = n + 1
      <4>1. n + 1 \in Nat /\ s \subseteq 1..(n + 1) /\ s # {}
        BY <2>2
      <4>2. Max(s) \in s /\ n + 1 =< Max(s)
        BY <2>2, <4>1, MaxIsGreatest
      <4>3. Max(s) \in 1..(n + 1)
        BY <4>1, <4>2
      <4> QED
        BY <4>2, <4>3
    <3>2. s \ {n + 1} \in SUBSET (1..n)
      OBVIOUS
    <3>3. it[s \ {n + 1}] = g[s \ {n + 1}] /\ g[s \ {n + 1}] \in V
      BY <3>2
    <3> QED
      BY <1>2, <2>2, <3>1, <3>3
  <2>3. ASSUME NEW s \in SUBSET (1..(n + 1)), n + 1 \notin s
        PROVE  /\ it[s] \in V /\ s \in SUBSET (1..n)
               /\ it[s] = IF s = {} THEN base
                          ELSE F[<<Max(s), it[s \ {Max(s)}]>>]
    <3>1. s \in SUBSET (1..n) /\ it[s] = g[s]
      BY <2>3
    <3>2. it[s \ {Max(s)}] = g[s \ {Max(s)}]
      <4>1. s \ {Max(s)} \in SUBSET (1..(n + 1)) /\ n + 1 \notin s \ {Max(s)}
        BY <2>3
      <4> QED
        BY <4>1
    <3> HIDE DEF it
    <3> QED
      BY <2>1, <3>1, <3>2 DEF FoldEq
  <2>4. it \in [SUBSET (1..(n + 1)) -> V]
    BY <2>2, <2>3
  <2>5. \A s \in SUBSET (1..(n + 1)) :
          it[s] = IF s = {} THEN base ELSE F[<<Max(s), it[s \ {Max(s)}]>>]
    BY <2>2, <2>3
  <2> HIDE DEF it
  <2>6. FoldEq(it, n + 1, base, F)
    BY <2>4, <2>5 DEF FoldEq
  <2> QED
    BY <2>4, <2>6
<1>3. ASSUME NEW n \in Nat, n \in Good PROVE n + 1 \in Good
  <2>1. CASE n + 1 =< N
    <3>1. \E it \in [SUBSET (1..(n + 1)) -> V] : FoldEq(it, n + 1, base, F)
      BY <1>2, <1>3, <2>1
    <3> QED
      BY <3>1
  <2>2. CASE ~(n + 1 =< N)
    BY <2>2
  <2> QED
    BY <2>1, <2>2
<1>4. N \in Good
  <2> HIDE DEF Good
  <2> QED
    BY <1>1, <1>3, CountUp
<1>5. N =< N
  OBVIOUS
<1> QED
  BY <1>4, <1>5
=============================================================================
