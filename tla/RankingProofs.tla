--------------------------- MODULE RankingProofs ----------------------------
(***************************************************************************)
(* What Compute returns.  Its loops are folds, so each comes with a lemma  *)
(* that gives the states the loop goes through, and one that says what     *)
(* they have in common.                                                    *)
(***************************************************************************)
EXTENDS Ranking, Induction, SequenceTheorems, FiniteSetTheorems

\* Check-ins are filed under Mondays (Calendar).
MondayDates == {d \in Int : d % 7 = 0}
Checkins == [user : Int, day : MondayDates]

DaysIn(rows, u) == {r.day : r \in {x \in Range(rows) : x.user = u}}

Ascending(s) == \A i, j \in 1..Len(s) : i < j => s[i] =< s[j]
Increasing(s) == \A i, j \in 1..Len(s) : i < j => s[i] < s[j]

LEMMA RowsHaveDays ==
  ASSUME NEW rows \in Seq(Checkins), NEW i \in 1..Len(rows)
  PROVE  rows[i] \in Checkins /\ rows[i].user \in Int
         /\ rows[i].day \in MondayDates
<1>1. rows[i] \in Checkins
  OBVIOUS
<1> QED
  BY <1>1 DEF Checkins

-----------------------------------------------------------------------------
(***************************************************************************)
(* The weeks of a user: those of his rows, and no other.                   *)
(***************************************************************************)
AddWeek(weeks, r, u) == IF r.user = u THEN Append(weeks, r.day) ELSE weeks

WeeksEq(it, rows, u) ==
  it = [x \in SUBSET DOMAIN rows |->
          IF x = {} THEN <<>>
                    ELSE AddWeek(it[x \ {Max(x)}], rows[Max(x)], u)]

LEMMA WeeksUnfold ==
  ASSUME NEW rows \in Seq(Checkins), NEW u
  PROVE  \E it : WeeksEq(it, rows, u) /\ WeeksOf(rows, u) = it[DOMAIN rows]
<1> DEFINE N == Len(rows)
           V == Seq(MondayDates)
           F == [p \in (1..N) \X V |-> AddWeek(p[2], rows[p[1]], u)]
<1>1. N \in Nat /\ DOMAIN rows = 1..N
  OBVIOUS
<1>2. ASSUME NEW p \in (1..N) \X V PROVE AddWeek(p[2], rows[p[1]], u) \in V
  <2>1. rows[p[1]].day \in MondayDates
    BY RowsHaveDays
  <2> QED
    BY <2>1 DEF AddWeek
<1>3. F \in [(1..N) \X V -> V] /\ <<>> \in V
  BY <1>2
<1>4. PICK g \in [SUBSET (1..N) -> V] : FoldEq(g, N, <<>>, F)
  <2> HIDE DEF F, V, N
  <2> QED
    BY <1>1, <1>3, FoldExists
<1>5. ASSUME NEW x \in SUBSET DOMAIN rows, x # {}
      PROVE  F[<<Max(x), g[x \ {Max(x)}]>>]
               = AddWeek(g[x \ {Max(x)}], rows[Max(x)], u)
  <2>1. Max(x) \in 1..N
    BY <1>1, <1>5, MaxIsGreatest
  <2>2. g[x \ {Max(x)}] \in V
    BY <1>1
  <2> HIDE DEF V, N
  <2> QED
    BY <2>1, <2>2
<1>6. WeeksEq(g, rows, u)
  <2> HIDE DEF F, V, N
  <2> QED
    BY <1>1, <1>4, <1>5 DEF FoldEq, WeeksEq
<1> DEFINE it == CHOOSE f : WeeksEq(f, rows, u)
<1>7. WeeksEq(it, rows, u)
  BY <1>6
<1>8. WeeksOf(rows, u) = it[DOMAIN rows]
  BY DEF WeeksOf, FoldLeft, MapThenFoldSet, WeeksEq, AddWeek
<1> QED
  BY <1>7, <1>8

\* The steps of a fold that is given by such an equation.
LEMMA WeeksSteps ==
  ASSUME NEW rows \in Seq(Checkins), NEW u, NEW it, WeeksEq(it, rows, u)
  PROVE  /\ it[1..0] = <<>>
         /\ \A n \in 1..Len(rows) :
              it[1..n] = AddWeek(it[1..(n - 1)], rows[n], u)
<1>1. 1..0 \in SUBSET DOMAIN rows /\ 1..0 = {}
  OBVIOUS
<1>2. ASSUME NEW n \in 1..Len(rows)
      PROVE  it[1..n] = AddWeek(it[1..(n - 1)], rows[n], u)
  <2>1. 1..n \in SUBSET DOMAIN rows /\ 1..n # {} /\ n \in Nat \ {0}
    OBVIOUS
  <2> QED
    BY <2>1, MaxOfInterval DEF WeeksEq
<1> QED
  BY <1>1, <1>2 DEF WeeksEq

LEMMA WeeksAreTheUsers ==
  ASSUME NEW rows \in Seq(Checkins), NEW u
  PROVE  /\ WeeksOf(rows, u) \in Seq(MondayDates)
         /\ Range(WeeksOf(rows, u)) = DaysIn(rows, u)
<1>1. PICK it : WeeksEq(it, rows, u) /\ WeeksOf(rows, u) = it[1..Len(rows)]
  <2>1. DOMAIN rows = 1..Len(rows)
    OBVIOUS
  <2> QED
    BY <2>1, WeeksUnfold
<1>2. it[1..0] = <<>>
      /\ \A n \in 1..Len(rows) :
           it[1..n] = AddWeek(it[1..(n - 1)], rows[n], u)
  BY <1>1, WeeksSteps
<1> DEFINE Has(n) == {d \in MondayDates : \E i \in 1..n : rows[i].user = u
                                                  /\ rows[i].day = d}
           Good(n) == it[1..n] \in Seq(MondayDates) /\ Range(it[1..n]) = Has(n)
           G == {n \in Nat : n =< Len(rows) => Good(n)}
<1>3. 0 \in G
  <2>1. it[1..0] = <<>> /\ Has(0) = {}
    BY <1>2
  <2>2. <<>> \in Seq(MondayDates) /\ Range(<<>>) = {}
    BY DEF Range
  <2>3. Good(0)
    BY <2>1, <2>2
  <2> QED
    BY <2>3
<1>4. ASSUME NEW n \in Nat, n \in G PROVE n + 1 \in G
  <2> SUFFICES ASSUME n + 1 =< Len(rows) PROVE Good(n + 1)
    OBVIOUS
  <2> DEFINE a == it[1..n]
             b == it[1..(n + 1)]
             r == rows[n + 1]
  <2>1. a \in Seq(MondayDates) /\ Range(a) = Has(n)
    BY <1>4
  <2>2. b = AddWeek(a, r, u)
    BY <1>2
  <2>3. r.day \in MondayDates
    <3>1. n + 1 \in 1..Len(rows)
      OBVIOUS
    <3> QED
      BY <3>1, RowsHaveDays
  <2>4. Has(n + 1) = IF r.user = u THEN Has(n) \cup {r.day} ELSE Has(n)
    <3>1. \A i \in 1..(n + 1) : i \in 1..n \/ i = n + 1
      OBVIOUS
    <3>2. \A i \in 1..n : i \in 1..(n + 1)
      OBVIOUS
    <3>3. n + 1 \in 1..(n + 1)
      OBVIOUS
    <3> QED
      BY <2>3, <3>1, <3>2, <3>3
  <2> HIDE DEF a, b, r, Has
  <2>5. CASE r.user = u
    <3>1. b = Append(a, r.day)
      BY <2>2, <2>5 DEF AddWeek
    <3>2. /\ b \in Seq(MondayDates)
          /\ Len(b) = Len(a) + 1 /\ b[Len(a) + 1] = r.day
          /\ \A i \in 1..Len(a) : b[i] = a[i]
      BY <2>1, <2>3, <3>1
    <3>3. Range(b) = Range(a) \cup {r.day}
      <4>1. DOMAIN a = 1..Len(a) /\ DOMAIN b = 1..(Len(a) + 1)
            /\ Len(a) \in Nat
        BY <2>1, <3>2
      <4>2. \A i \in 1..(Len(a) + 1) : i \in 1..Len(a) \/ i = Len(a) + 1
        BY <4>1
      <4>3. \A i \in 1..Len(a) : i \in 1..(Len(a) + 1)
        BY <4>1
      <4>4. Len(a) + 1 \in 1..(Len(a) + 1)
        BY <4>1
      <4> QED
        BY <3>2, <4>1, <4>2, <4>3, <4>4 DEF Range
    <3> QED
      BY <2>1, <2>4, <2>5, <3>2, <3>3 DEF b
  <2>6. CASE r.user # u
    BY <2>1, <2>2, <2>4, <2>6 DEF AddWeek, b
  <2> QED
    BY <2>5, <2>6
<1>5. Len(rows) \in G
  <2> HIDE DEF G
  <2>1. Len(rows) \in Nat
    OBVIOUS
  <2> QED
    BY <1>3, <1>4, <2>1, CountUp
<1>6. Has(Len(rows)) = DaysIn(rows, u)
  <2>1. /\ DOMAIN rows = 1..Len(rows)
        /\ \A i \in DOMAIN rows : rows[i].day \in MondayDates
    BY RowsHaveDays
  <2> QED
    BY <2>1 DEF DaysIn, Range
<1>7. Len(rows) \in Nat /\ Len(rows) =< Len(rows)
  OBVIOUS
<1>8. Good(Len(rows))
  BY <1>5, <1>7
<1> QED
  BY <1>1, <1>6, <1>8
\* Who filed all the check-ins has as many weeks.
LEMMA WeeksOfOne ==
  ASSUME NEW rows \in Seq(Checkins), NEW u,
         \A i \in 1..Len(rows) : rows[i].user = u
  PROVE  Len(WeeksOf(rows, u)) = Len(rows)
<1>1. PICK it : WeeksEq(it, rows, u) /\ WeeksOf(rows, u) = it[1..Len(rows)]
  <2>1. DOMAIN rows = 1..Len(rows)
    OBVIOUS
  <2> QED
    BY <2>1, WeeksUnfold
<1>2. it[1..0] = <<>>
      /\ \A n \in 1..Len(rows) :
           it[1..n] = AddWeek(it[1..(n - 1)], rows[n], u)
  BY <1>1, WeeksSteps
<1> DEFINE Good(n) == it[1..n] \in Seq(MondayDates) /\ Len(it[1..n]) = n
           G == {n \in Nat : n =< Len(rows) => Good(n)}
<1>3. 0 \in G
  <2>1. <<>> \in Seq(MondayDates) /\ Len(<<>>) = 0
    OBVIOUS
  <2>2. Good(0)
    BY <1>2, <2>1
  <2> QED
    BY <2>2
<1>4. ASSUME NEW n \in Nat, n \in G PROVE n + 1 \in G
  <2> SUFFICES ASSUME n + 1 =< Len(rows) PROVE Good(n + 1)
    OBVIOUS
  <2>1. n + 1 \in 1..Len(rows) /\ (n + 1) - 1 = n /\ n =< Len(rows)
    OBVIOUS
  <2>2. Good(n)
    BY <1>4, <2>1
  <2>3. rows[n + 1].user = u /\ rows[n + 1].day \in MondayDates
    BY <2>1, RowsHaveDays
  <2>4. it[1..(n + 1)] = Append(it[1..n], rows[n + 1].day)
    BY <1>2, <2>1, <2>3 DEF AddWeek
  <2> QED
    BY <2>2, <2>3, <2>4
<1>5. Len(rows) \in G
  <2> HIDE DEF G
  <2>1. Len(rows) \in Nat
    OBVIOUS
  <2> QED
    BY <1>3, <1>4, <2>1, CountUp
<1>6. Len(rows) \in Nat /\ Len(rows) =< Len(rows)
  OBVIOUS
<1>7. Good(Len(rows))
  BY <1>5, <1>6
<1> QED
  BY <1>1, <1>7

-----------------------------------------------------------------------------
(***************************************************************************)
(* Sorting.                                                                *)
(***************************************************************************)
IsInserted(t, s, i, e) ==
  /\ t \in Seq(Int) /\ Len(t) = Len(s) + 1
  /\ t[i] = e
  /\ \A k \in 1..(i - 1) : t[k] = s[k]
  /\ \A k \in i..Len(s) : t[k + 1] = s[k]

LEMMA Inserted ==
  ASSUME NEW s \in Seq(Int), NEW i \in 1..Len(s), NEW e \in Int
  PROVE  IsInserted(InsertAt(s, i, e), s, i, e)
<1> DEFINE x == SubSeq(s, 1, i - 1)
           y == x \o <<e>>
           z == SubSeq(s, i, Len(s))
           t == y \o z
<1>1. Len(s) \in Nat /\ i \in Nat /\ 1 =< i /\ i =< Len(s)
  OBVIOUS
<1>2. /\ x \in Seq(Int) /\ Len(x) = i - 1
      /\ \A k \in 1..(i - 1) : x[k] = s[k]
  BY <1>1
<1>3. /\ z \in Seq(Int) /\ Len(z) = Len(s) - i + 1
      /\ \A k \in 1..(Len(s) - i + 1) : z[k] = s[i + k - 1]
  BY <1>1, SubSeqProperties
<1> HIDE DEF x, z
<1>4. /\ y \in Seq(Int) /\ Len(y) = i /\ y[i] = e
      /\ \A k \in 1..(i - 1) : y[k] = s[k]
  <2> DEFINE v == <<e>>
  <2>1. v \in Seq(Int) /\ Len(v) = 1 /\ v[1] = e
    OBVIOUS
  <2> HIDE DEF v
  <2>2. /\ x \o v \in Seq(Int) /\ Len(x \o v) = i
        /\ (x \o v)[i] = e
        /\ \A k \in 1..(i - 1) : (x \o v)[k] = x[k]
    <3> DEFINE w == x \o v
    <3>1. w = x \o v /\ x \in Seq(Int) /\ v \in Seq(Int)
      BY <1>2, <2>1
    <3> HIDE DEF w
    <3>2. /\ w \in Seq(Int) /\ Len(w) = Len(x) + Len(v)
          /\ \A k \in 1..Len(x) : w[k] = x[k]
          /\ \A k \in 1..Len(v) : w[Len(x) + k] = v[k]
      BY <3>1
    <3>3. w \in Seq(Int) /\ Len(w) = i
      BY <1>1, <1>2, <2>1, <3>2
    <3>4. w[i] = e
      <4>1. 1 \in 1..Len(v) /\ Len(x) + 1 = i
        BY <1>1, <1>2, <2>1
      <4> QED
        BY <2>1, <3>2, <4>1
    <3>5. \A k \in 1..(i - 1) : w[k] = x[k]
      BY <1>2, <3>2
    <3> QED
      BY <3>3, <3>4, <3>5 DEF w
  <2> QED
    BY <1>2, <2>2 DEF v
<1> HIDE DEF y
<1>5. /\ t \in Seq(Int) /\ Len(t) = Len(y) + Len(z)
      /\ \A k \in 1..Len(y) : t[k] = y[k]
      /\ \A k \in 1..Len(z) : t[Len(y) + k] = z[k]
  <2>1. t = y \o z /\ y \in Seq(Int) /\ z \in Seq(Int)
    BY <1>3, <1>4
  <2> HIDE DEF t, z
  <2> QED
    BY <2>1
<1>6. InsertAt(s, i, e) = t
  BY DEF InsertAt, x, y, z
<1> HIDE DEF t
<1>7. t \in Seq(Int) /\ Len(t) = Len(s) + 1
  BY <1>1, <1>3, <1>4, <1>5
<1>8. t[i] = e /\ \A k \in 1..(i - 1) : t[k] = s[k]
  BY <1>1, <1>4, <1>5
<1>9. ASSUME NEW k \in i..Len(s) PROVE t[k + 1] = s[k]
  <2> DEFINE j == k - i + 1
  <2>1. /\ j \in 1..Len(z) /\ j \in 1..(Len(s) - i + 1)
        /\ Len(y) + j = k + 1 /\ i + j - 1 = k
    BY <1>1, <1>3, <1>4
  <2> HIDE DEF j
  <2>2. t[Len(y) + j] = z[j] /\ z[j] = s[i + j - 1]
    BY <1>3, <1>5, <2>1
  <2> QED
    BY <2>1, <2>2
<1> QED
  BY <1>6, <1>7, <1>8, <1>9 DEF IsInserted

\* Sequences of days that are sorted.
SortedSeqs == {s \in Seq(Int) : Ascending(s)}

LEMMA PutKeepsOrder ==
  ASSUME NEW s \in SortedSeqs, NEW d \in Int
  PROVE  Put(s, d) \in SortedSeqs /\ Range(Put(s, d)) = Range(s) \cup {d}
<1> DEFINE I == {i \in 1..Len(s) : d < s[i]}
           t == Put(s, d)
<1>1. s \in Seq(Int) /\ Ascending(s) /\ Len(s) \in Nat
      /\ DOMAIN s = 1..Len(s) /\ \A k \in 1..Len(s) : s[k] \in Int
  BY DEF SortedSeqs
<1>2. t = IF (IF I # {} THEN Min(I) ELSE 0) = 0 THEN Append(s, d)
          ELSE InsertAt(s, IF I # {} THEN Min(I) ELSE 0, d)
  BY DEF Put, SelectInSeq
<1>3. CASE I = {}
  <2>1. t = Append(s, d)
    BY <1>2, <1>3
  <2>2. /\ t \in Seq(Int) /\ Len(t) = Len(s) + 1 /\ t[Len(s) + 1] = d
        /\ \A k \in 1..Len(s) : t[k] = s[k]
    BY <1>1, <2>1
  <2>3. \A k \in 1..Len(s) : s[k] =< d
    BY <1>1, <1>3
  <2> HIDE DEF t
  <2>4. /\ DOMAIN t = 1..(Len(s) + 1)
        /\ \A k \in 1..(Len(s) + 1) : k \in 1..Len(s) \/ k = Len(s) + 1
        /\ \A k \in 1..Len(s) : k \in 1..(Len(s) + 1) /\ k < Len(s) + 1
        /\ Len(s) + 1 \in 1..(Len(s) + 1)
    BY <1>1, <2>2
  <2>5. Ascending(t)
    <3> SUFFICES ASSUME NEW j \in 1..Len(t), NEW k \in 1..Len(t), j < k
                 PROVE  t[j] =< t[k]
      BY DEF Ascending
    <3>0. Len(t) = Len(s) + 1 /\ Len(s) \in Nat
      BY <1>1, <2>2
    <3>1. j \in 1..Len(s) /\ (k \in 1..Len(s) \/ k = Len(s) + 1)
      BY <3>0
    <3>2. CASE k \in 1..Len(s)
      BY <1>1, <2>2, <3>1, <3>2 DEF Ascending
    <3>3. CASE k = Len(s) + 1
      BY <2>2, <2>3, <3>1, <3>3
    <3> QED
      BY <3>1, <3>2, <3>3
  <2>6. Range(t) = Range(s) \cup {d}
    BY <1>1, <2>2, <2>4 DEF Range
  <2> QED
    BY <2>2, <2>5, <2>6 DEF SortedSeqs, t
<1>4. CASE I # {}
  <2> DEFINE i == Min(I)
  <2>1. i \in I /\ \A k \in I : i =< k
    <3>1. I \subseteq Nat
      OBVIOUS
    <3> HIDE DEF I
    <3>2. \E m \in I : \A k \in I : m =< k
      BY <1>4, <3>1, LeastElement
    <3> QED
      BY <3>2 DEF Min
  <2>2. i \in 1..Len(s) /\ d < s[i] /\ i # 0
    BY <2>1
  <2>3. t = InsertAt(s, i, d)
    BY <1>2, <1>4, <2>2
  <2>4. \A k \in 1..(i - 1) : s[k] =< d
    <3> SUFFICES ASSUME NEW k \in 1..(i - 1) PROVE s[k] =< d
      OBVIOUS
    <3>1. k \in 1..Len(s) /\ k < i
      BY <1>1, <2>2
    <3>2. k \notin I
      BY <2>1, <2>2, <3>1
    <3> QED
      BY <1>1, <3>1, <3>2
  <2> HIDE DEF t, i, I
  <2>5. \A k \in i..Len(s) : d < s[k]
    <3> SUFFICES ASSUME NEW k \in i..Len(s) PROVE d < s[k]
      OBVIOUS
    <3>1. k \in 1..Len(s) /\ (i < k \/ i = k)
      BY <1>1, <2>2
    <3>2. s[i] =< s[k]
      BY <1>1, <2>2, <3>1 DEF Ascending
    <3> QED
      BY <1>1, <2>2, <3>1, <3>2
  <2>6. IsInserted(t, s, i, d)
    BY <1>1, <2>2, <2>3, Inserted
  <2>7. /\ t \in Seq(Int) /\ Len(t) = Len(s) + 1 /\ t[i] = d
        /\ \A k \in 1..(i - 1) : t[k] = s[k]
        /\ \A k \in i..Len(s) : t[k + 1] = s[k]
    BY <2>6 DEF IsInserted
  <2>8. ASSUME NEW k \in 1..Len(t)
        PROVE  \/ k \in 1..(i - 1) /\ t[k] = s[k] /\ k \in 1..Len(s)
               \/ k = i /\ t[k] = d
               \/ k - 1 \in i..Len(s) /\ t[k] = s[k - 1] /\ k - 1 \in 1..Len(s)
    <3>1. CASE k < i
      BY <1>1, <2>2, <2>7, <3>1
    <3>2. CASE k = i
      BY <2>7, <3>2
    <3>3. CASE k > i
      <4>1. k - 1 \in i..Len(s) /\ (k - 1) + 1 = k
        BY <1>1, <2>2, <2>7, <3>3
      <4>2. t[(k - 1) + 1] = s[k - 1]
        BY <2>7, <4>1
      <4> QED
        BY <1>1, <2>2, <4>1, <4>2
    <3> QED
      BY <2>2, <3>1, <3>2, <3>3
  <2>9. Ascending(t)
    <3> SUFFICES ASSUME NEW j \in 1..Len(t), NEW k \in 1..Len(t), j < k
                 PROVE  t[j] =< t[k]
      BY DEF Ascending
    <3>1. CASE j \in 1..(i - 1)
      <4>1. t[j] = s[j] /\ s[j] =< d /\ j \in 1..Len(s)
        BY <2>2, <2>4, <2>8, <3>1
      <4>2. CASE k \in 1..(i - 1) /\ t[k] = s[k] /\ k \in 1..Len(s)
        BY <1>1, <4>1, <4>2 DEF Ascending
      <4>3. CASE k = i /\ t[k] = d
        BY <4>1, <4>3
      <4>4. CASE k - 1 \in i..Len(s) /\ t[k] = s[k - 1] /\ k - 1 \in 1..Len(s)
        <5>1. d < s[k - 1] /\ s[k - 1] \in Int /\ s[j] \in Int
          BY <1>1, <2>5, <4>1, <4>4
        <5> QED
          BY <4>1, <4>4, <5>1
      <4> QED
        BY <2>8, <4>2, <4>3, <4>4
    <3>2. CASE j = i
      <4>1. k - 1 \in i..Len(s) /\ t[k] = s[k - 1] /\ k - 1 \in 1..Len(s)
        BY <2>2, <2>8, <3>2
      <4>2. d < s[k - 1] /\ s[k - 1] \in Int
        BY <1>1, <2>5, <4>1
      <4> QED
        BY <2>7, <3>2, <4>1, <4>2
    <3>3. CASE j > i
      <4>1. /\ t[j] = s[j - 1] /\ j - 1 \in 1..Len(s)
            /\ t[k] = s[k - 1] /\ k - 1 \in 1..Len(s)
            /\ j - 1 < k - 1
        BY <2>2, <2>8, <3>3
      <4> QED
        BY <1>1, <4>1 DEF Ascending
    <3> QED
      BY <2>2, <3>1, <3>2, <3>3
  <2>10. Range(t) = Range(s) \cup {d}
    <3>1. DOMAIN t = 1..Len(t)
      BY <2>7
    <3>2. \A k \in 1..Len(t) : t[k] \in Range(s) \cup {d}
      BY <1>1, <2>8 DEF Range
    <3>3. i \in 1..Len(t) /\ t[i] = d
      BY <1>1, <2>2, <2>7
    <3>4. ASSUME NEW k \in 1..Len(s) PROVE \E j \in 1..Len(t) : t[j] = s[k]
      <4>1. CASE k < i
        <5>1. k \in 1..(i - 1) /\ k \in 1..Len(t)
          BY <1>1, <2>2, <2>7, <4>1
        <5> QED
          BY <2>7, <5>1
      <4>2. CASE k >= i
        <5>1. k \in i..Len(s) /\ k + 1 \in 1..Len(t)
          BY <1>1, <2>2, <2>7, <4>2
        <5> QED
          BY <2>7, <5>1
      <4> QED
        BY <2>2, <4>1, <4>2
    <3>5. DOMAIN s = 1..Len(s)
      BY <1>1
    <3> QED
      BY <3>1, <3>2, <3>3, <3>4, <3>5 DEF Range
  <2> QED
    BY <2>7, <2>9, <2>10 DEF SortedSeqs, t
<1> QED
  BY <1>3, <1>4

PutEq(it, s) ==
  it = [x \in SUBSET DOMAIN s |->
          IF x = {} THEN <<>> ELSE Put(it[x \ {Max(x)}], s[Max(x)])]

LEMMA SortedUnfolds ==
  ASSUME NEW s \in Seq(Int)
  PROVE  \E it : PutEq(it, s) /\ Sorted(s) = it[DOMAIN s]
<1> DEFINE N == Len(s)
           V == SortedSeqs
           F == [p \in (1..N) \X V |-> Put(p[2], s[p[1]])]
<1>1. N \in Nat /\ DOMAIN s = 1..N
  OBVIOUS
<1>2. ASSUME NEW p \in (1..N) \X V PROVE Put(p[2], s[p[1]]) \in V
  <2>1. p[2] \in SortedSeqs /\ s[p[1]] \in Int
    OBVIOUS
  <2> QED
    BY <2>1, PutKeepsOrder
<1>3. F \in [(1..N) \X V -> V] /\ <<>> \in V
  <2>1. <<>> \in V
    BY DEF SortedSeqs, Ascending
  <2> QED
    BY <1>2, <2>1
<1>4. PICK g \in [SUBSET (1..N) -> V] : FoldEq(g, N, <<>>, F)
  <2> HIDE DEF F, V, N
  <2> QED
    BY <1>1, <1>3, FoldExists
<1>5. ASSUME NEW x \in SUBSET DOMAIN s, x # {}
      PROVE  F[<<Max(x), g[x \ {Max(x)}]>>] = Put(g[x \ {Max(x)}], s[Max(x)])
  <2>1. Max(x) \in 1..N
    BY <1>1, <1>5, MaxIsGreatest
  <2>2. g[x \ {Max(x)}] \in V
    BY <1>1
  <2> HIDE DEF V, N
  <2> QED
    BY <2>1, <2>2
<1>6. PutEq(g, s)
  <2> HIDE DEF F, V, N
  <2> QED
    BY <1>1, <1>4, <1>5 DEF FoldEq, PutEq
<1> DEFINE it == CHOOSE f : PutEq(f, s)
<1>7. PutEq(it, s)
  BY <1>6
<1>8. Sorted(s) = it[DOMAIN s]
  BY DEF Sorted, FoldLeft, MapThenFoldSet, PutEq
<1> QED
  BY <1>7, <1>8

LEMMA PutSteps ==
  ASSUME NEW s \in Seq(Int), NEW it, PutEq(it, s)
  PROVE  /\ it[1..0] = <<>>
         /\ \A n \in 1..Len(s) : it[1..n] = Put(it[1..(n - 1)], s[n])
<1>1. 1..0 \in SUBSET DOMAIN s /\ 1..0 = {}
  OBVIOUS
<1>2. ASSUME NEW n \in 1..Len(s) PROVE it[1..n] = Put(it[1..(n - 1)], s[n])
  <2>1. 1..n \in SUBSET DOMAIN s /\ 1..n # {} /\ n \in Nat \ {0}
    <3>1. DOMAIN s = 1..Len(s) /\ Len(s) \in Nat
      OBVIOUS
    <3> QED
      BY <3>1, FirstIndices
  <2> QED
    BY <2>1, MaxOfInterval DEF PutEq
<1> QED
  BY <1>1, <1>2 DEF PutEq

LEMMA SortedSorts ==
  ASSUME NEW s \in Seq(Int)
  PROVE  Sorted(s) \in SortedSeqs /\ Range(Sorted(s)) = Range(s)
<1>1. PICK it : PutEq(it, s) /\ Sorted(s) = it[1..Len(s)]
  <2>1. DOMAIN s = 1..Len(s)
    OBVIOUS
  <2> QED
    BY <2>1, SortedUnfolds
<1>2. /\ it[1..0] = <<>>
      /\ \A n \in 1..Len(s) : it[1..n] = Put(it[1..(n - 1)], s[n])
  BY <1>1, PutSteps
<1> DEFINE Seen(n) == {s[i] : i \in 1..n}
           Good(n) == it[1..n] \in SortedSeqs /\ Range(it[1..n]) = Seen(n)
           G == {n \in Nat : n =< Len(s) => Good(n)}
<1>3. 0 \in G
  <2>1. it[1..0] = <<>> /\ Seen(0) = {}
    BY <1>2
  <2>2. <<>> \in SortedSeqs /\ Range(<<>>) = {}
    BY DEF Range, SortedSeqs, Ascending
  <2>3. Good(0)
    BY <2>1, <2>2
  <2> QED
    BY <2>3
<1>4. ASSUME NEW n \in Nat, n \in G PROVE n + 1 \in G
  <2> SUFFICES ASSUME n + 1 =< Len(s) PROVE Good(n + 1)
    OBVIOUS
  <2>1. it[1..n] \in SortedSeqs /\ Range(it[1..n]) = Seen(n)
    BY <1>4
  <2>2. it[1..(n + 1)] = Put(it[1..n], s[n + 1])
    BY <1>2
  <2>3. s[n + 1] \in Int
    OBVIOUS
  <2>4. Seen(n + 1) = Seen(n) \cup {s[n + 1]}
    <3>1. \A i \in 1..(n + 1) : i \in 1..n \/ i = n + 1
      OBVIOUS
    <3>2. \A i \in 1..n : i \in 1..(n + 1)
      OBVIOUS
    <3>3. n + 1 \in 1..(n + 1)
      OBVIOUS
    <3> QED
      BY <3>1, <3>2, <3>3
  <2> HIDE DEF Seen
  <2> QED
    BY <2>1, <2>2, <2>3, <2>4, PutKeepsOrder
<1>5. Len(s) \in G
  <2> HIDE DEF G
  <2>1. Len(s) \in Nat
    OBVIOUS
  <2> QED
    BY <1>3, <1>4, <2>1, CountUp
<1>6. Len(s) \in Nat /\ Len(s) =< Len(s)
  OBVIOUS
<1>7. Good(Len(s))
  BY <1>5, <1>6
<1>8. Seen(Len(s)) = Range(s)
  BY DEF Range
<1> QED
  BY <1>1, <1>7, <1>8

-----------------------------------------------------------------------------
(***************************************************************************)
(* Dropping duplicates.  What is written to the front of the array never   *)
(* reaches the days that are still to be read.                             *)
(***************************************************************************)
Slices(N) == [array : [1..N -> Int], len : 1..N]

\* One pass through the loop of Dedup.
KeepNew(acc, i) ==
  IF i > 1 /\ acc.array[i] # acc.array[i - 1]
  THEN [array |-> [acc.array EXCEPT ![acc.len + 1] = acc.array[i]],
        len |-> acc.len + 1]
  ELSE acc

Indices(w) == [i \in DOMAIN w |-> i]

DedupEq(it, w) ==
  it = [x \in SUBSET DOMAIN Indices(w) |->
          IF x = {} THEN [array |-> w, len |-> 1]
                    ELSE KeepNew(it[x \ {Max(x)}], Indices(w)[Max(x)])]

\* The slice after n passes: all days up to there, each once, and the rest of
\* the array as it was.
DedupOK(acc, w, n) ==
  /\ acc \in Slices(Len(w))
  /\ acc.len =< n \/ (n = 0 /\ acc.len = 1)
  /\ \A k \in 1..Len(w) : k >= n => acc.array[k] = w[k]
  /\ \A i, j \in 1..acc.len : i < j => acc.array[i] < acc.array[j]
  /\ n > 0 => /\ {acc.array[k] : k \in 1..acc.len} = {w[k] : k \in 1..n}
              /\ acc.array[acc.len] = w[n]

LEMMA KeepNewStep ==
  ASSUME NEW w \in SortedSeqs, NEW n \in Nat, n + 1 =< Len(w),
         NEW acc, DedupOK(acc, w, n)
  PROVE  DedupOK(KeepNew(acc, n + 1), w, n + 1)
<1> DEFINE N == Len(w)
           a == acc.array
           l == acc.len
           new == KeepNew(acc, n + 1)
<1>1. /\ N \in Nat /\ w \in [1..N -> Int] /\ Ascending(w)
      /\ a \in [1..N -> Int] /\ l \in 1..N
      /\ l =< n \/ (n = 0 /\ l = 1)
      /\ \A k \in 1..N : k >= n => a[k] = w[k]
      /\ \A i, j \in 1..l : i < j => a[i] < a[j]
      /\ n > 0 => {a[k] : k \in 1..l} = {w[k] : k \in 1..n} /\ a[l] = w[n]
  <2>1. N \in Nat /\ w \in [1..N -> Int] /\ Ascending(w)
    BY DEF SortedSeqs
  <2>2. a \in [1..N -> Int] /\ l \in 1..N
    BY DEF DedupOK, Slices
  <2> QED
    BY <2>1, <2>2 DEF DedupOK
<1>2. n + 1 \in 1..N /\ a[n + 1] = w[n + 1]
  BY <1>1
<1>3. CASE n = 0
  <2>1. new = acc
    BY <1>3 DEF KeepNew
  <2>2. l = 1
    BY <1>1, <1>3
  <2>3. {a[k] : k \in 1..l} = {w[k] : k \in 1..(n + 1)}
    BY <1>2, <1>3, <2>2
  <2>4. a[l] = w[n + 1]
    BY <1>2, <1>3, <2>2
  <2> QED
    BY <1>1, <1>2, <1>3, <2>1, <2>2, <2>3, <2>4 DEF DedupOK
<1>4. CASE n > 0 /\ w[n + 1] = w[n]
  <2>1. n \in 1..N /\ a[n] = w[n]
    BY <1>1, <1>4
  <2>2. new = acc
    BY <1>2, <1>4, <2>1 DEF KeepNew
  <2>3. {w[k] : k \in 1..(n + 1)} = {w[k] : k \in 1..n}
    <3>1. \A k \in 1..(n + 1) : k \in 1..n \/ k = n + 1
      OBVIOUS
    <3>2. n \in 1..n /\ \A k \in 1..n : k \in 1..(n + 1)
      BY <1>4
    <3> QED
      BY <1>4, <3>1, <3>2
  <2>4. \A k \in 1..N : k >= n + 1 => a[k] = w[k]
    BY <1>1
  <2>5. l =< n + 1
    BY <1>1, <1>4
  <2>6. a[l] = w[n + 1] /\ {a[k] : k \in 1..l} = {w[k] : k \in 1..(n + 1)}
    BY <1>1, <1>4, <2>3
  <2>7. acc \in Slices(N) /\ \A i, j \in 1..l : i < j => a[i] < a[j]
    BY DEF DedupOK
  <2>8. DedupOK(acc, w, n + 1)
    BY <2>4, <2>5, <2>6, <2>7 DEF DedupOK
  <2> QED
    BY <2>2, <2>8
<1>5. CASE n > 0 /\ w[n + 1] # w[n]
  <2>1. n \in 1..N /\ a[n] = w[n] /\ l =< n
    BY <1>1, <1>5
  <2> DEFINE b == [a EXCEPT ![l + 1] = a[n + 1]]
  <2>2. new = [array |-> b, len |-> l + 1]
    BY <1>2, <1>5, <2>1 DEF KeepNew
  <2>3. l + 1 \in 1..N /\ w[n + 1] \in Int /\ w[n] \in Int
    <3> HIDE DEF b, a, l, new, N
    <3>1. N \in Nat /\ l \in 1..N /\ n + 1 \in 1..N
      BY <1>1, <1>2
    <3>2. l + 1 \in 1..N
      BY <2>1, <3>1
    <3> QED
      BY <1>1, <2>1, <3>1, <3>2
  <2>4. /\ b \in [1..N -> Int] /\ b[l + 1] = w[n + 1]
        /\ \A k \in 1..N : k # l + 1 => b[k] = a[k]
    BY <1>1, <1>2, <2>3
  <2>5. w[n] < w[n + 1]
    <3>1. w[n] =< w[n + 1]
      BY <1>1, <1>2, <2>1 DEF Ascending
    <3> QED
      BY <1>5, <2>3, <3>1
  <2> HIDE DEF b
  <2>6. /\ new \in Slices(N) /\ new.array = b /\ new.len = l + 1
    BY <2>2, <2>3, <2>4 DEF Slices
  <2> HIDE DEF new, a, l
  <2>7. \A k \in 1..N : k >= n + 1 => b[k] = w[k]
    BY <1>1, <1>2, <2>1, <2>4
  <2>8. ASSUME NEW k \in 1..l
        PROVE  k \in 1..N /\ b[k] = a[k] /\ a[k] \in Int
    <3>1. k \in 1..N /\ k # l + 1
      BY <1>1
    <3> QED
      BY <1>1, <2>4, <3>1
  <2>9. \A k \in 1..l : a[k] =< a[l]
    BY <1>1, <2>8
  <2>10. \A i, j \in 1..(l + 1) : i < j => b[i] < b[j]
    <3> SUFFICES ASSUME NEW i \in 1..(l + 1), NEW j \in 1..(l + 1), i < j
                 PROVE  b[i] < b[j]
      OBVIOUS
    <3>1. i \in 1..l /\ (j \in 1..l \/ j = l + 1)
      BY <1>1
    <3>2. CASE j \in 1..l
      BY <1>1, <2>8, <3>1, <3>2
    <3>3. CASE j = l + 1
      <4>1. b[i] = a[i] /\ a[i] =< w[n] /\ a[i] \in Int /\ b[j] = w[n + 1]
        BY <1>1, <1>5, <2>4, <2>8, <2>9, <3>1, <3>3
      <4> QED
        BY <2>3, <2>5, <4>1
    <3> QED
      BY <3>1, <3>2, <3>3
  <2>11. {b[k] : k \in 1..(l + 1)} = {w[k] : k \in 1..(n + 1)}
    <3>1. \A k \in 1..(l + 1) : k \in 1..l \/ k = l + 1
      BY <1>1
    <3>2. l + 1 \in 1..(l + 1) /\ \A k \in 1..l : k \in 1..(l + 1)
      BY <1>1
    <3>3. {b[k] : k \in 1..(l + 1)} = {a[k] : k \in 1..l} \cup {w[n + 1]}
      BY <2>4, <2>8, <3>1, <3>2
    <3>4. \A k \in 1..(n + 1) : k \in 1..n \/ k = n + 1
      OBVIOUS
    <3>5. n + 1 \in 1..(n + 1) /\ \A k \in 1..n : k \in 1..(n + 1)
      OBVIOUS
    <3>6. {w[k] : k \in 1..(n + 1)} = {w[k] : k \in 1..n} \cup {w[n + 1]}
      BY <3>4, <3>5
    <3> QED
      BY <1>1, <1>5, <3>3, <3>6
  <2>12. l + 1 =< n + 1
    BY <1>1, <2>1
  <2> QED
    BY <2>4, <2>6, <2>7, <2>10, <2>11, <2>12 DEF DedupOK, new
<1> QED
  BY <1>3, <1>4, <1>5

LEMMA DedupUnfolds ==
  ASSUME NEW w \in Seq(Int)
  PROVE  \E it : /\ DedupEq(it, w)
                 /\ LET final == it[DOMAIN w]
                    IN  Dedup(w) = SubSeq(final.array, 1, final.len)
<1> DEFINE N == Len(w)
           V == [array : [1..N -> Int], len : Nat]
           base == [array |-> w, len |-> 1]
           F == [p \in (1..N) \X V |-> KeepNew(p[2], p[1])]
<1>1. /\ N \in Nat /\ DOMAIN w = 1..N /\ w \in [1..N -> Int]
      /\ DOMAIN Indices(w) = 1..N /\ \A i \in 1..N : Indices(w)[i] = i
  BY DEF Indices
<1>2. ASSUME NEW acc \in V, NEW i \in 1..N PROVE KeepNew(acc, i) \in V
  <2>1. acc.array \in [1..N -> Int] /\ acc.len \in Nat
    OBVIOUS
  <2>2. [acc.array EXCEPT ![acc.len + 1] = acc.array[i]] \in [1..N -> Int]
    BY <2>1
  <2> QED
    BY <2>1, <2>2 DEF KeepNew
<1>3. F \in [(1..N) \X V -> V] /\ base \in V
  <2>1. base \in V
    BY <1>1
  <2>2. \A p \in (1..N) \X V : KeepNew(p[2], p[1]) \in V
    <3> HIDE DEF V, N
    <3> QED
      BY <1>2
  <2> HIDE DEF V, N, base
  <2> QED
    BY <2>1, <2>2
<1>4. PICK g \in [SUBSET (1..N) -> V] : FoldEq(g, N, base, F)
  <2> HIDE DEF F, V, N, base
  <2> QED
    BY <1>1, <1>3, FoldExists
<1>5. ASSUME NEW x \in SUBSET (1..N), x # {}
      PROVE  F[<<Max(x), g[x \ {Max(x)}]>>]
               = KeepNew(g[x \ {Max(x)}], Indices(w)[Max(x)])
  <2>1. Max(x) \in 1..N
    BY <1>1, <1>5, MaxIsGreatest
  <2>2. g[x \ {Max(x)}] \in V
    OBVIOUS
  <2> HIDE DEF V, N
  <2> QED
    BY <1>1, <2>1, <2>2
<1>6. DedupEq(g, w)
  <2> HIDE DEF F, V, N
  <2> QED
    BY <1>1, <1>4, <1>5 DEF FoldEq, DedupEq, base
<1> DEFINE it == CHOOSE f : DedupEq(f, w)
<1>7. DedupEq(it, w)
  BY <1>6
<1>8. Dedup(w) = LET final == it[DOMAIN Indices(w)]
                 IN  SubSeq(final.array, 1, final.len)
  BY DEF Dedup, FoldLeftDomain, FoldLeft, MapThenFoldSet, DedupEq, KeepNew,
         Indices
<1>9. DOMAIN Indices(w) = DOMAIN w
  BY DEF Indices
<1> HIDE DEF it
<1>10. LET final == it[DOMAIN w]
       IN  Dedup(w) = SubSeq(final.array, 1, final.len)
  BY <1>8, <1>9
<1> QED
  BY <1>7, <1>10

LEMMA DedupSteps ==
  ASSUME NEW w \in Seq(Int), NEW it, DedupEq(it, w)
  PROVE  /\ it[1..0] = [array |-> w, len |-> 1]
         /\ \A n \in 1..Len(w) : it[1..n] = KeepNew(it[1..(n - 1)], n)
<1>1. DOMAIN Indices(w) = 1..Len(w) /\ \A n \in 1..Len(w) : Indices(w)[n] = n
  BY DEF Indices
<1>2. 1..0 \in SUBSET (1..Len(w)) /\ 1..0 = {}
  OBVIOUS
<1>3. ASSUME NEW n \in 1..Len(w) PROVE it[1..n] = KeepNew(it[1..(n - 1)], n)
  <2>1. 1..n \in SUBSET (1..Len(w)) /\ 1..n # {} /\ n \in Nat \ {0}
    BY FirstIndices
  <2>2. it[1..n] = KeepNew(it[(1..n) \ {Max(1..n)}], Indices(w)[Max(1..n)])
    BY <1>1, <2>1 DEF DedupEq
  <2>3. Max(1..n) = n /\ (1..n) \ {n} = 1..(n - 1)
    BY <2>1, MaxOfInterval
  <2> QED
    BY <1>1, <2>2, <2>3
<1> QED
  BY <1>1, <1>2, <1>3 DEF DedupEq

\* What remains are the days of the sorted sequence, each once, in order.
LEMMA DedupKeepsDays ==
  ASSUME NEW w \in SortedSeqs, w # <<>>
  PROVE  /\ Dedup(w) \in Seq(Int) /\ Dedup(w) # <<>>
         /\ Increasing(Dedup(w))
         /\ Range(Dedup(w)) = Range(w)
<1>1. w \in Seq(Int) /\ Len(w) \in Nat \ {0} /\ DOMAIN w = 1..Len(w)
  BY DEF SortedSeqs
<1>2. PICK it : /\ DedupEq(it, w)
                /\ LET final == it[1..Len(w)]
                   IN  Dedup(w) = SubSeq(final.array, 1, final.len)
  BY <1>1, DedupUnfolds
<1>3. /\ it[1..0] = [array |-> w, len |-> 1]
      /\ \A n \in 1..Len(w) : it[1..n] = KeepNew(it[1..(n - 1)], n)
  BY <1>1, <1>2, DedupSteps
<1> DEFINE G == {n \in Nat : n =< Len(w) => DedupOK(it[1..n], w, n)}
<1>4. 0 \in G
  <2> DEFINE acc == it[1..0]
  <2>1. acc = [array |-> w, len |-> 1] /\ w \in [1..Len(w) -> Int]
    BY <1>1, <1>3
  <2>2. acc \in Slices(Len(w)) /\ acc.array = w /\ acc.len = 1
    BY <1>1, <2>1 DEF Slices
  <2> HIDE DEF acc
  <2>3. DedupOK(acc, w, 0)
    BY <2>2 DEF DedupOK
  <2> QED
    BY <2>3 DEF acc
<1>5. ASSUME NEW n \in Nat, n \in G PROVE n + 1 \in G
  <2> SUFFICES ASSUME n + 1 =< Len(w) PROVE DedupOK(it[1..(n + 1)], w, n + 1)
    OBVIOUS
  <2>1. DedupOK(it[1..n], w, n)
    BY <1>1, <1>5
  <2>2. it[1..(n + 1)] = KeepNew(it[1..n], n + 1)
    <3>1. n + 1 \in 1..Len(w) /\ (n + 1) - 1 = n
      BY <1>1
    <3> QED
      BY <1>3, <3>1
  <2> QED
    BY <2>1, <2>2, KeepNewStep
<1>6. Len(w) \in G
  <2> HIDE DEF G
  <2> QED
    BY <1>1, <1>4, <1>5, CountUp
<1>7. DedupOK(it[1..Len(w)], w, Len(w))
  BY <1>1, <1>6
<1> DEFINE N == Len(w)
           final == it[1..N]
           a == final.array
           l == final.len
           d == Dedup(w)
<1>8. /\ a \in [1..N -> Int] /\ l \in 1..N /\ d = SubSeq(a, 1, l)
      /\ \A i, j \in 1..l : i < j => a[i] < a[j]
      /\ {a[k] : k \in 1..l} = {w[k] : k \in 1..N}
  <2>1. final \in Slices(N) /\ N > 0
    BY <1>1, <1>7 DEF DedupOK
  <2>2. /\ \A i, j \in 1..l : i < j => a[i] < a[j]
        /\ {a[k] : k \in 1..l} = {w[k] : k \in 1..N}
    BY <1>1, <1>7, <2>1 DEF DedupOK
  <2>3. d = SubSeq(a, 1, l)
    BY <1>2
  <2> HIDE DEF N
  <2>4. a \in [1..N -> Int] /\ l \in 1..N
    BY <2>1 DEF Slices
  <2> QED
    BY <2>2, <2>3, <2>4
<1> HIDE DEF a, l, final, d
<1>9. /\ d \in Seq(Int) /\ Len(d) = l /\ \A i \in 1..l : d[i] = a[i]
  <2>0. N \in Nat
    BY <1>1
  <2> HIDE DEF N
  <2>1. a \in Seq(Int) /\ Len(a) = N /\ l \in 1..Len(a)
    BY <1>8, <2>0
  <2> QED
    BY <1>8, <2>1
<1>10. d # <<>> /\ DOMAIN d = 1..l
  BY <1>8, <1>9
<1>11. Increasing(d)
  BY <1>8, <1>9 DEF Increasing
<1>12. Range(d) = Range(w)
  <2>1. Range(d) = {a[k] : k \in 1..l}
    BY <1>9, <1>10 DEF Range
  <2>2. Range(w) = {w[k] : k \in 1..N}
    BY <1>1 DEF Range
  <2> QED
    BY <1>8, <2>1, <2>2
<1> QED
  BY <1>9, <1>10, <1>11, <1>12 DEF d

-----------------------------------------------------------------------------
(***************************************************************************)
(* The longest streak, over the days seen so far.                          *)
(***************************************************************************)
RunIn(S, start, n) == \A k \in 0..(n - 1) : start + 7 * k \in S

Streaks == [current : Nat \ {0}, currentStart : Int,
            best : Nat \ {0}, bestStart : Int]

\* acc is the current streak, which ends on the last day of S, and the first of
\* the longest in S.
StreakOK(acc, S, last) ==
  /\ acc \in Streaks
  /\ acc.currentStart + 7 * (acc.current - 1) = last
  /\ RunIn(S, acc.currentStart, acc.current)
  /\ acc.currentStart - 7 \notin S
  /\ acc.current =< acc.best
  /\ RunIn(S, acc.bestStart, acc.best)
  /\ \A x \in S : /\ ~RunIn(S, x, acc.best + 1)
                  /\ RunIn(S, x, acc.best) => acc.bestStart =< x

\* A run up to a new last day was there before or ends on that day, and then it
\* is no longer than the current one.
LEMMA RunsToLastDay ==
  ASSUME NEW S \in SUBSET Int, NEW e \in Int, \A y \in S : y < e,
         NEW c \in Nat \ {0}, e - 7 * c \notin S \cup {e},
         NEW x \in Int, NEW L \in Nat \ {0}, RunIn(S \cup {e}, x, L)
  PROVE  RunIn(S, x, L) \/ (x = e - 7 * (L - 1) /\ L =< c)
<1> SUFFICES ASSUME ~RunIn(S, x, L) PROVE x = e - 7 * (L - 1) /\ L =< c
  OBVIOUS
<1>1. PICK k \in 0..(L - 1) : x + 7 * k = e
  BY DEF RunIn
<1>2. k = L - 1
  <2> SUFFICES ASSUME k < L - 1 PROVE FALSE
    OBVIOUS
  <2>1. L - 1 \in 0..(L - 1)
    OBVIOUS
  <2>2. x + 7 * (L - 1) \in S \cup {e}
    BY <2>1 DEF RunIn
  <2> QED
    BY <1>1, <2>2
<1>3. L =< c
  <2> SUFFICES ASSUME c < L PROVE FALSE
    OBVIOUS
  <2>1. L - 1 - c \in 0..(L - 1)
    OBVIOUS
  <2>2. x + 7 * (L - 1 - c) \in S \cup {e}
    BY <2>1 DEF RunIn
  <2>3. x + 7 * (L - 1 - c) = e - 7 * c
    BY <1>1, <1>2
  <2> QED
    BY <2>2, <2>3
<1> QED
  BY <1>1, <1>2, <1>3

LEMMA ShorterRuns ==
  ASSUME NEW S, NEW x \in Int, NEW m \in Nat, NEW n \in Nat, m =< n,
         RunIn(S, x, n)
  PROVE  RunIn(S, x, m)
<1>1. \A k \in 0..(m - 1) : k \in 0..(n - 1)
  OBVIOUS
<1> QED
  BY <1>1 DEF RunIn

LEMMA ExtendStep ==
  ASSUME NEW S \in SUBSET Int, NEW last \in S, \A y \in S : y =< last,
         NEW e \in Int, last < e, e - last >= 7,
         NEW acc, StreakOK(acc, S, last)
  PROVE  StreakOK(Extend(acc, last, e), S \cup {e}, e)
<1> DEFINE T == S \cup {e}
           new == Extend(acc, last, e)
           goesOn == e - last = 7
           c == IF goesOn THEN acc.current + 1 ELSE 1
           start == IF goesOn THEN acc.currentStart ELSE e
           better == c > acc.best
           b == IF better THEN c ELSE acc.best
           bs == IF better THEN start ELSE acc.bestStart
<1>1. /\ acc.current \in Nat \ {0} /\ acc.currentStart \in Int
      /\ acc.best \in Nat \ {0} /\ acc.bestStart \in Int
      /\ acc.currentStart + 7 * (acc.current - 1) = last
      /\ acc.current =< acc.best
  BY DEF StreakOK, Streaks
<1>2. new = [current |-> c, currentStart |-> start,
             best |-> b, bestStart |-> bs]
  BY DEF Extend
<1>3. c \in Nat \ {0} /\ start \in Int /\ start + 7 * (c - 1) = e
  BY <1>1
<1>4. b \in Nat \ {0} /\ bs \in Int /\ c =< b /\ acc.best =< b
  BY <1>1, <1>3
<1>5. last \in Int /\ \A y \in S : y \in Int /\ y < e
  OBVIOUS
<1>6. RunIn(T, start, c)
  <2>1. CASE goesOn
    <3>1. RunIn(S, acc.currentStart, acc.current)
      BY DEF StreakOK
    <3>2. ASSUME NEW k \in 0..(c - 1) PROVE start + 7 * k \in T
      <4>1. CASE k \in 0..(acc.current - 1)
        BY <2>1, <3>1, <4>1 DEF RunIn
      <4>2. CASE k = acc.current
        BY <1>1, <1>3, <2>1, <4>2
      <4> QED
        BY <1>1, <2>1, <4>1, <4>2
    <3> QED
      BY <3>2 DEF RunIn
  <2>2. CASE ~goesOn
    BY <2>2 DEF RunIn
  <2> QED
    BY <2>1, <2>2
<1>7. start - 7 \notin T
  <2>1. CASE goesOn
    <3>1. acc.currentStart - 7 \notin S
      BY DEF StreakOK
    <3>2. acc.currentStart - 7 < e
      BY <1>1, <2>1
    <3> QED
      BY <1>1, <2>1, <3>1, <3>2
  <2>2. CASE ~goesOn
    BY <1>5, <2>2
  <2> QED
    BY <2>1, <2>2
<1>8. ASSUME NEW y \in Int, NEW n \in Nat, RunIn(S, y, n) PROVE RunIn(T, y, n)
  BY <1>8 DEF RunIn
<1>9. RunIn(T, bs, b)
  <2>1. RunIn(S, acc.bestStart, acc.best)
    BY DEF StreakOK
  <2>2. acc.best \in Nat
    BY <1>1
  <2> QED
    BY <1>1, <1>6, <1>8, <2>1, <2>2
<1>10. ASSUME NEW x \in Int, NEW n \in Nat \ {0}, RunIn(T, x, n)
       PROVE  RunIn(S, x, n) \/ (x = e - 7 * (n - 1) /\ n =< c)
  <2>1. e - 7 * c \notin T
    BY <1>3, <1>7
  <2> HIDE DEF c
  <2> QED
    BY <1>3, <1>5, <1>10, <2>1, RunsToLastDay
<1>11. ASSUME NEW x \in Int, NEW n \in Nat, n > acc.best
       PROVE  ~RunIn(S, x, n)
  <2> SUFFICES ASSUME RunIn(S, x, n) PROVE FALSE
    OBVIOUS
  <2>1. acc.best + 1 \in Nat /\ acc.best + 1 =< n
    BY <1>1, <1>11
  <2>2. RunIn(S, x, acc.best + 1)
    BY <2>1, ShorterRuns
  <2>3. x \in S
    <3>1. 0 \in 0..(n - 1) /\ x + 7 * 0 = x
      BY <1>1, <1>11
    <3> QED
      BY <3>1 DEF RunIn
  <2> QED
    BY <2>2, <2>3 DEF StreakOK
<1> HIDE DEF c, start, new, T
<1>12. ASSUME NEW x \in T PROVE ~RunIn(T, x, b + 1)
  <2> SUFFICES ASSUME RunIn(T, x, b + 1) PROVE FALSE
    OBVIOUS
  <2>1. x \in Int
    BY <1>5 DEF T
  <2>2. b + 1 \in Nat \ {0} /\ b + 1 > acc.best /\ ~(b + 1 =< c)
    BY <1>1, <1>3, <1>4
  <2> HIDE DEF b
  <2>3. ~RunIn(S, x, b + 1)
    BY <1>11, <2>1, <2>2
  <2> QED
    BY <1>10, <2>1, <2>2, <2>3
<1>13. ASSUME NEW x \in T, RunIn(T, x, b) PROVE bs =< x
  <2>1. x \in Int
    BY <1>5 DEF T
  <2>2. RunIn(S, x, b) \/ (x = e - 7 * (b - 1) /\ b =< c)
    <3> HIDE DEF b
    <3> QED
      BY <1>4, <1>10, <1>13, <2>1
  <2>3. CASE better
    <3>1. b = c /\ bs = start /\ b \in Nat /\ b > acc.best
      BY <1>3, <2>3
    <3>2. ~RunIn(S, x, b)
      BY <1>11, <2>1, <3>1
    <3> QED
      BY <1>3, <2>2, <3>1, <3>2
  <2>4. CASE ~better
    <3>1. b = acc.best /\ bs = acc.bestStart
      BY <2>4
    <3>2. CASE RunIn(S, x, b)
      <4>1. x \in S
        <5>1. 0 \in 0..(b - 1) /\ x + 7 * 0 = x
          BY <1>4, <2>1
        <5> QED
          BY <3>2, <5>1 DEF RunIn
      <4> QED
        BY <3>1, <3>2, <4>1 DEF StreakOK
    <3>3. CASE x = e - 7 * (b - 1)
      <4>1. bs + 7 * (b - 1) \in S
        <5>1. /\ RunIn(S, acc.bestStart, acc.best)
              /\ acc.best - 1 \in 0..(acc.best - 1)
          BY <1>1 DEF StreakOK
        <5> QED
          BY <3>1, <5>1 DEF RunIn
      <4>2. bs + 7 * (b - 1) < e
        BY <1>5, <4>1
      <4> QED
        BY <1>4, <3>3, <4>2
    <3> QED
      BY <2>2, <3>2, <3>3
  <2> QED
    BY <2>3, <2>4
<1>14. /\ new \in Streaks
       /\ new.current = c /\ new.currentStart = start
       /\ new.best = b /\ new.bestStart = bs
  <2> HIDE DEF b, bs
  <2> QED
    BY <1>2, <1>3, <1>4 DEF Streaks
<1> HIDE DEF b, bs
<1>15. StreakOK(new, T, e)
  BY <1>3, <1>4, <1>6, <1>7, <1>9, <1>12, <1>13, <1>14 DEF StreakOK
<1> QED
  BY <1>15 DEF new, T

NextStreak(acc, i, days) ==
  IF i = 1 THEN acc ELSE Extend(acc, days[i - 1], days[i])

FirstStreak(days) ==
  [current |-> 1, currentStart |-> days[1], best |-> 1, bestStart |-> days[1]]

StreakEq(it, days) ==
  it = [x \in SUBSET DOMAIN Indices(days) |->
          IF x = {} THEN FirstStreak(days)
                    ELSE NextStreak(it[x \ {Max(x)}], Indices(days)[Max(x)],
                                    days)]

LEMMA StreakUnfolds ==
  ASSUME NEW weeks, NEW days \in Seq(Int), days # <<>>,
         days = Dedup(Sorted(weeks))
  PROVE  \E it : /\ StreakEq(it, days)
                 /\ longestMondayStreak(weeks) = it[DOMAIN days]
<1> DEFINE N == Len(days)
           V == [current : Int, currentStart : Int, best : Int, bestStart : Int]
           base == FirstStreak(days)
           F == [p \in (1..N) \X V |-> NextStreak(p[2], p[1], days)]
<1>1. /\ N \in Nat \ {0} /\ DOMAIN days = 1..N
      /\ \A i \in 1..N : days[i] \in Int
      /\ DOMAIN Indices(days) = 1..N /\ \A i \in 1..N : Indices(days)[i] = i
  BY DEF Indices
<1>2. ASSUME NEW acc \in V, NEW i \in 1..N PROVE NextStreak(acc, i, days) \in V
  <2>1. CASE i = 1
    BY <2>1 DEF NextStreak
  <2>2. CASE i # 1
    <3>1. days[i] \in Int /\ days[i - 1] \in Int
      BY <1>1, <2>2
    <3>2. /\ acc.current \in Int /\ acc.currentStart \in Int
          /\ acc.best \in Int /\ acc.bestStart \in Int
      OBVIOUS
    <3>3. Extend(acc, days[i - 1], days[i]) \in V
      BY <3>1, <3>2 DEF Extend
    <3> HIDE DEF V
    <3> QED
      BY <2>2, <3>3 DEF NextStreak
  <2> QED
    BY <2>1, <2>2
<1>3. F \in [(1..N) \X V -> V] /\ base \in V
  <2>1. base \in V
    BY <1>1 DEF FirstStreak
  <2>2. \A p \in (1..N) \X V : NextStreak(p[2], p[1], days) \in V
    <3> HIDE DEF V, N
    <3> QED
      BY <1>2
  <2> HIDE DEF V, N, base
  <2> QED
    BY <2>1, <2>2
<1>4. PICK g \in [SUBSET (1..N) -> V] : FoldEq(g, N, base, F)
  <2> HIDE DEF F, V, N, base
  <2> QED
    BY <1>1, <1>3, FoldExists
<1>5. ASSUME NEW x \in SUBSET (1..N), x # {}
      PROVE  F[<<Max(x), g[x \ {Max(x)}]>>]
               = NextStreak(g[x \ {Max(x)}], Indices(days)[Max(x)], days)
  <2>1. Max(x) \in 1..N
    BY <1>1, <1>5, MaxIsGreatest
  <2>2. g[x \ {Max(x)}] \in V
    OBVIOUS
  <2> HIDE DEF V, N
  <2> QED
    BY <1>1, <2>1, <2>2
<1>6. StreakEq(g, days)
  <2> HIDE DEF F, V, N
  <2> QED
    BY <1>1, <1>4, <1>5 DEF FoldEq, StreakEq, base
<1> DEFINE it == CHOOSE f : StreakEq(f, days)
<1>7. StreakEq(it, days)
  BY <1>6
<1>8. longestMondayStreak(weeks) = it[DOMAIN Indices(days)]
  BY DEF longestMondayStreak, FoldLeftDomain, FoldLeft, MapThenFoldSet,
         StreakEq, NextStreak, FirstStreak, Indices
<1>9. DOMAIN Indices(days) = DOMAIN days
  BY DEF Indices
<1> HIDE DEF it
<1> QED
  BY <1>7, <1>8, <1>9

LEMMA StreakSteps ==
  ASSUME NEW days \in Seq(Int), NEW it, StreakEq(it, days)
  PROVE  /\ it[1..0] = FirstStreak(days)
         /\ \A n \in 1..Len(days) :
              it[1..n] = NextStreak(it[1..(n - 1)], n, days)
<1>1. /\ DOMAIN Indices(days) = 1..Len(days)
      /\ \A n \in 1..Len(days) : Indices(days)[n] = n
  BY DEF Indices
<1>2. 1..0 \in SUBSET (1..Len(days)) /\ 1..0 = {}
  OBVIOUS
<1>3. ASSUME NEW n \in 1..Len(days)
      PROVE  it[1..n] = NextStreak(it[1..(n - 1)], n, days)
  <2>1. 1..n \in SUBSET (1..Len(days)) /\ 1..n # {} /\ n \in Nat \ {0}
    BY FirstIndices
  <2>2. it[1..n] = NextStreak(it[(1..n) \ {Max(1..n)}],
                              Indices(days)[Max(1..n)], days)
    BY <1>1, <2>1 DEF StreakEq
  <2>3. Max(1..n) = n /\ (1..n) \ {n} = 1..(n - 1)
    BY <2>1, MaxOfInterval
  <2> QED
    BY <1>1, <2>2, <2>3
<1> QED
  BY <1>1, <1>2, <1>3 DEF StreakEq

\* Over days that are Mondays, in order.
LEMMA StreakOfDays ==
  ASSUME NEW weeks, NEW days \in Seq(Int), days # <<>>, Increasing(days),
         \A i \in 1..Len(days) : days[i] % 7 = 0,
         days = Dedup(Sorted(weeks))
  PROVE  StreakOK(longestMondayStreak(weeks), Range(days), days[Len(days)])
<1> DEFINE N == Len(days)
           Seen(n) == {days[i] : i \in 1..n}
<1>1. /\ N \in Nat \ {0} /\ DOMAIN days = 1..N
      /\ \A i \in 1..N : days[i] \in Int /\ days[i] % 7 = 0
      /\ \A i, j \in 1..N : i < j => days[i] < days[j]
  BY DEF Increasing
<1>2. PICK it : StreakEq(it, days) /\ longestMondayStreak(weeks) = it[1..N]
  <2> HIDE DEF N
  <2> QED
    BY <1>1, StreakUnfolds
<1>3. /\ it[1..0] = FirstStreak(days)
      /\ \A n \in 1..N : it[1..n] = NextStreak(it[1..(n - 1)], n, days)
  BY <1>2, StreakSteps
<1> DEFINE G == {n \in Nat : 0 < n /\ n =< N
                               => StreakOK(it[1..n], Seen(n), days[n])}
<1> HIDE DEF N
<1>4. StreakOK(it[1..1], Seen(1), days[1])
  <2> DEFINE acc == it[1..1]
             d == days[1]
  <2>1. acc = FirstStreak(days)
    <3>1. 1 \in 1..N /\ 1 - 1 = 0
      BY <1>1
    <3> QED
      BY <1>3, <3>1 DEF NextStreak
  <2>2. d \in Int
    BY <1>1
  <2>3. /\ acc \in Streaks /\ acc.current = 1 /\ acc.currentStart = d
        /\ acc.best = 1 /\ acc.bestStart = d
    BY <2>1, <2>2 DEF FirstStreak, Streaks
  <2>4. Seen(1) = {d}
    OBVIOUS
  <2> HIDE DEF acc, d, Seen
  <2>5. RunIn({d}, d, 1)
    BY <2>2 DEF RunIn
  <2>6. ~RunIn({d}, d, 2)
    <3>1. 1 \in 0..(2 - 1)
      OBVIOUS
    <3>2. d + 7 * 1 \notin {d}
      BY <2>2
    <3> QED
      BY <3>1, <3>2 DEF RunIn
  <2>7. d + 7 * (1 - 1) = d /\ d - 7 \notin {d}
    BY <2>2
  <2>8. StreakOK(acc, {d}, d)
    BY <2>2, <2>3, <2>5, <2>6, <2>7 DEF StreakOK
  <2> QED
    BY <2>4, <2>8 DEF acc, d
<1>5. ASSUME NEW n \in Nat, n \in G PROVE n + 1 \in G
  <2> SUFFICES ASSUME n + 1 =< N
               PROVE  StreakOK(it[1..(n + 1)], Seen(n + 1), days[n + 1])
    OBVIOUS
  <2>1. CASE n = 0
    BY <1>4, <2>1
  <2>2. CASE n > 0
    <3> DEFINE S == Seen(n)
               last == days[n]
               e == days[n + 1]
               acc == it[1..n]
    <3>1. n \in 1..N /\ n + 1 \in 1..N /\ n \in 1..n /\ (n + 1) - 1 = n
      BY <1>1, <2>2
    <3>2. StreakOK(acc, S, last)
      BY <1>1, <1>5, <2>2
    <3>3. it[1..(n + 1)] = Extend(acc, last, e)
      <4>1. it[1..(n + 1)] = NextStreak(it[1..((n + 1) - 1)], n + 1, days)
        BY <1>3, <3>1
      <4>2. n + 1 # 1
        BY <2>2
      <4> QED
        BY <3>1, <4>1, <4>2 DEF NextStreak
    <3>4. /\ last \in Int /\ e \in Int /\ last % 7 = 0 /\ e % 7 = 0 /\ last < e
      BY <1>1, <3>1
    <3>5. ASSUME NEW i \in 1..n PROVE days[i] \in Int /\ days[i] =< last
      <4>1. n \in Nat /\ N \in Nat /\ n =< N
        BY <1>1, <3>1
      <4>2. i \in 1..N /\ (i < n \/ i = n)
        BY <4>1
      <4> QED
        BY <1>1, <3>1, <3>4, <4>2
    <3>6. Seen(n + 1) = S \cup {e}
      <4>1. \A i \in 1..(n + 1) : i \in 1..n \/ i = n + 1
        OBVIOUS
      <4>2. n + 1 \in 1..(n + 1) /\ \A i \in 1..n : i \in 1..(n + 1)
        OBVIOUS
      <4> QED
        BY <4>1, <4>2
    <3>7. S \in SUBSET Int /\ last \in S /\ \A y \in S : y =< last
      BY <3>1, <3>5
    <3> HIDE DEF S, last, e, acc, Seen
    <3>8. e - last >= 7
      BY <3>4
    <3>9. StreakOK(Extend(acc, last, e), S \cup {e}, e)
      BY <3>2, <3>4, <3>7, <3>8, ExtendStep
    <3> QED
      BY <3>3, <3>6, <3>9 DEF e
  <2> QED
    BY <2>1, <2>2
<1>6. N \in G
  <2>1. 0 \in G
    OBVIOUS
  <2> HIDE DEF G
  <2> QED
    BY <1>1, <1>5, <2>1, CountUp
<1>7. StreakOK(it[1..N], Seen(N), days[N])
  BY <1>1, <1>6
<1>8. Seen(N) = Range(days)
  BY <1>1 DEF Range
<1> QED
  BY <1>2, <1>7, <1>8 DEF N

\* An entry shows the longest run of weeks of its user, and its first day.
LEMMA EntryOfUser ==
  ASSUME NEW rows \in Seq(Checkins), NEW u, DaysIn(rows, u) # {}
  PROVE  /\ Entry(rows, u).user = u
         /\ Entry(rows, u).total \in Nat
         /\ Entry(rows, u).total = Len(WeeksOf(rows, u))
         /\ Entry(rows, u).streak \in Nat \ {0}
         /\ Entry(rows, u).streakStart \in Int
         /\ RunIn(DaysIn(rows, u), Entry(rows, u).streakStart,
                  Entry(rows, u).streak)
         /\ \A d \in DaysIn(rows, u) :
              /\ ~RunIn(DaysIn(rows, u), d, Entry(rows, u).streak + 1)
              /\ RunIn(DaysIn(rows, u), d, Entry(rows, u).streak)
                   => Entry(rows, u).streakStart =< d
<1> DEFINE weeks == WeeksOf(rows, u)
           days == Dedup(Sorted(weeks))
           streak == longestMondayStreak(weeks)
<1>1. weeks \in Seq(Int) /\ Range(weeks) = DaysIn(rows, u)
  <2>1. weeks \in Seq(MondayDates) /\ MondayDates \subseteq Int
    BY WeeksAreTheUsers DEF MondayDates
  <2>2. weeks \in Seq(Int)
    <3> HIDE DEF weeks
    <3> QED
      BY <2>1, SeqMonotonic
  <2> QED
    BY <2>2, WeeksAreTheUsers
<1> HIDE DEF weeks
<1>2. Sorted(weeks) \in SortedSeqs /\ Range(Sorted(weeks)) = DaysIn(rows, u)
  BY <1>1, SortedSorts
<1>3. Sorted(weeks) # <<>>
  <2>1. Range(<<>>) = {}
    BY DEF Range
  <2> QED
    BY <1>2, <2>1
<1>4. /\ days \in Seq(Int) /\ days # <<>> /\ Increasing(days)
      /\ Range(days) = DaysIn(rows, u)
  BY <1>2, <1>3, DedupKeepsDays
<1>5. \A i \in 1..Len(days) : days[i] % 7 = 0
  <2>1. \A d \in DaysIn(rows, u) : d \in MondayDates
    BY RowsHaveDays DEF DaysIn, Range
  <2>2. \A i \in 1..Len(days) : days[i] \in DaysIn(rows, u)
    BY <1>4 DEF Range
  <2> QED
    BY <2>1, <2>2 DEF MondayDates
<1>6. StreakOK(streak, DaysIn(rows, u), days[Len(days)])
  BY <1>4, <1>5, StreakOfDays
<1>7. /\ Entry(rows, u).user = u /\ Entry(rows, u).total = Len(weeks)
      /\ Entry(rows, u).streak = streak.best
      /\ Entry(rows, u).streakStart = streak.bestStart
  BY DEF Entry, weeks
<1>8. Len(weeks) \in Nat
  BY <1>1
<1> HIDE DEF streak
<1>9. streak.best \in Nat \ {0} /\ streak.bestStart \in Int
  BY <1>6 DEF StreakOK, Streaks
<1> QED
  BY <1>6, <1>7, <1>8, <1>9 DEF StreakOK, weeks

LEMMA UsersHaveDays ==
  ASSUME NEW rows \in Seq(Checkins), NEW u \in {r.user : r \in Range(rows)}
  PROVE  DaysIn(rows, u) # {}
BY DEF DaysIn

-----------------------------------------------------------------------------
(***************************************************************************)
(* A finite set that an order ranks has one sorted arrangement.            *)
(***************************************************************************)
\* R ranks S: of two elements one comes before the other, never both.
Ranks(R, S) ==
  /\ \A x, y \in S : <<x, y>> \in R => <<y, x>> \notin R
  /\ \A x, y, z \in S : <<x, y>> \in R /\ <<y, z>> \in R => <<x, z>> \in R
  /\ \A x, y \in S : x # y => <<x, y>> \in R \/ <<y, x>> \in R

IsLast(R, T, m) == m \in T /\ \A x \in T \ {m} : <<x, m>> \in R

LEMMA LastElement ==
  ASSUME NEW S, IsFiniteSet(S), NEW R, Ranks(R, S)
  PROVE  \A T \in SUBSET S : T # {} => \E m : IsLast(R, T, m)
<1> DEFINE Good == {n \in Nat : \A T \in SUBSET S :
                      Cardinality(T) = n /\ T # {} => \E m : IsLast(R, T, m)}
<1>1. \A T \in SUBSET S : IsFiniteSet(T) /\ Cardinality(T) \in Nat
  BY FS_Subset, FS_CardinalityType
<1>2. 0 \in Good
  BY <1>1, FS_EmptySet
<1>3. ASSUME NEW n \in Nat, n \in Good PROVE n + 1 \in Good
  <2> SUFFICES ASSUME NEW T \in SUBSET S, Cardinality(T) = n + 1, T # {}
               PROVE  \E m : IsLast(R, T, m)
    OBVIOUS
  <2>1. PICK x \in T : TRUE
    OBVIOUS
  <2> DEFINE U == T \ {x}
  <2>2. CASE U = {}
    BY <2>1, <2>2 DEF IsLast
  <2>3. CASE U # {}
    <3>1. U \in SUBSET S /\ Cardinality(U) = n
      <4>1. Cardinality(U) = Cardinality(T) - 1
        BY <1>1, <2>1, FS_RemoveElement
      <4> QED
        BY <4>1
    <3>2. PICK m : IsLast(R, U, m)
      BY <1>3, <2>3, <3>1
    <3>3. m \in S /\ x \in S /\ m # x /\ m \in T
      BY <2>1, <3>2 DEF IsLast
    <3>4. CASE <<x, m>> \in R
      BY <3>2, <3>3, <3>4 DEF IsLast
    <3>5. CASE <<m, x>> \in R
      <4>1. ASSUME NEW y \in T \ {x} PROVE <<y, x>> \in R
        BY <3>2, <3>3, <3>5 DEF IsLast, Ranks
      <4> QED
        BY <2>1, <4>1 DEF IsLast
    <3> QED
      BY <3>3, <3>4, <3>5 DEF Ranks
  <2> QED
    BY <2>2, <2>3
<1>4. \A n \in Nat : n \in Good
  <2> HIDE DEF Good
  <2> QED
    BY <1>2, <1>3, CountUp
<1> QED
  BY <1>1, <1>4

InOrder(R, T, n, s) ==
  s \in [1..n -> T] /\ \A i, j \in 1..n : i < j => <<s[i], s[j]>> \in R

LEMMA OrderExists ==
  ASSUME NEW S, IsFiniteSet(S), NEW R, Ranks(R, S)
  PROVE  \E s : InOrder(R, S, Cardinality(S), s)
<1> DEFINE Good == {n \in Nat : \A T \in SUBSET S :
                      Cardinality(T) = n => \E s : InOrder(R, T, n, s)}
<1>1. \A T \in SUBSET S : IsFiniteSet(T) /\ Cardinality(T) \in Nat
  BY FS_Subset, FS_CardinalityType
<1>2. 0 \in Good
  <2> SUFFICES ASSUME NEW T \in SUBSET S PROVE \E s : InOrder(R, T, 0, s)
    OBVIOUS
  <2> DEFINE s == [i \in 1..0 |-> i]
  <2>1. \A i \in 1..0 : FALSE
    OBVIOUS
  <2>2. s \in [1..0 -> T]
    BY <2>1
  <2> HIDE DEF s
  <2>3. InOrder(R, T, 0, s)
    BY <2>1, <2>2 DEF InOrder
  <2> QED
    BY <2>3
<1>3. ASSUME NEW n \in Nat, n \in Good PROVE n + 1 \in Good
  <2> SUFFICES ASSUME NEW T \in SUBSET S, Cardinality(T) = n + 1
               PROVE  \E s : InOrder(R, T, n + 1, s)
    OBVIOUS
  <2>1. T # {}
    <3>1. Cardinality(T) # 0
      OBVIOUS
    <3> QED
      BY <1>1, <3>1, FS_EmptySet
  <2>2. PICK m : IsLast(R, T, m)
    BY <2>1, LastElement
  <2> DEFINE U == T \ {m}
  <2>3. U \in SUBSET S /\ Cardinality(U) = n
    <3>1. Cardinality(U) = Cardinality(T) - 1
      BY <1>1, <2>2, FS_RemoveElement DEF IsLast
    <3> QED
      BY <3>1
  <2>4. PICK s : InOrder(R, U, n, s)
    BY <1>3, <2>3
  <2> DEFINE t == [i \in 1..(n + 1) |-> IF i = n + 1 THEN m ELSE s[i]]
  <2>5. \A i \in 1..(n + 1) : i = n + 1 \/ i \in 1..n
    OBVIOUS
  <2>6. t \in [1..(n + 1) -> T]
    BY <2>2, <2>4, <2>5 DEF IsLast, InOrder
  <2>7. ASSUME NEW i \in 1..(n + 1), NEW j \in 1..(n + 1), i < j
        PROVE  <<t[i], t[j]>> \in R
    <3>1. i \in 1..n /\ i # n + 1
      BY <2>7
    <3>2. s[i] \in U /\ t[i] = s[i]
      BY <2>4, <3>1 DEF InOrder
    <3>3. CASE j = n + 1
      BY <2>2, <3>2, <3>3 DEF IsLast
    <3>4. CASE j # n + 1
      <4>1. j \in 1..n /\ t[j] = s[j]
        BY <3>4
      <4> QED
        BY <2>4, <2>7, <3>1, <3>2, <4>1 DEF InOrder
    <3> QED
      BY <3>3, <3>4
  <2> HIDE DEF t
  <2>8. InOrder(R, T, n + 1, t)
    BY <2>6, <2>7 DEF InOrder
  <2> QED
    BY <2>8
<1>4. Cardinality(S) \in Good
  <2> HIDE DEF Good
  <2>1. \A n \in Nat : n \in Good
    BY <1>2, <1>3, CountUp
  <2> QED
    BY <1>1, <2>1
<1> QED
  BY <1>4

\* The arrangements sort.Slice may return: none of a pair the wrong way round.
Arranged(R, S) ==
  {s \in SetToSeqs(S) :
     \A i, j \in DOMAIN s : i < j => <<s[j], s[i]>> \notin R}

LEMMA AllOccur ==
  ASSUME NEW S, IsFiniteSet(S), NEW s \in SetToSeqs(S)
  PROVE  \A x \in S : \E i \in 1..Cardinality(S) : s[i] = x
<1> DEFINE n == Cardinality(S)
<1>1. n \in Nat
  BY FS_CardinalityType
<1>2. s \in [1..n -> S] /\ \A i, j \in 1..n : i # j => s[i] # s[j]
  BY DEF SetToSeqs
<1> HIDE DEF n
<1>3. Cardinality(1..n) = n
  <2>1. 1 \in Int /\ n \in Int
    BY <1>1
  <2>2. Cardinality(1..n) = IF 1 > n THEN 0 ELSE n - 1 + 1
    BY <2>1, FS_Interval
  <2> QED
    BY <1>1, <2>2
<1>4. s \in Injection(1..n, S)
  BY <1>2 DEF Injection, IsInjective
<1>5. s \in Surjection(1..n, S)
  BY <1>3, <1>4, FS_Injection DEF n
<1> QED
  BY <1>5 DEF Surjection, n

LEMMA ArrangedIsUnique ==
  ASSUME NEW S, IsFiniteSet(S), NEW R, Ranks(R, S),
         NEW s \in Arranged(R, S), NEW t \in Arranged(R, S)
  PROVE  s = t
<1> DEFINE n == Cardinality(S)
           Differ == {i \in 1..n : s[i] # t[i]}
<1>1. n \in Nat
  BY FS_CardinalityType
<1>2. /\ s \in [1..n -> S] /\ \A i, j \in 1..n : i # j => s[i] # s[j]
      /\ \A i, j \in 1..n : i < j => <<s[j], s[i]>> \notin R
  BY DEF Arranged, SetToSeqs
<1>3. /\ t \in [1..n -> S] /\ \A i, j \in 1..n : i # j => t[i] # t[j]
      /\ \A i, j \in 1..n : i < j => <<t[j], t[i]>> \notin R
  BY DEF Arranged, SetToSeqs
<1>4. \A x \in S : \E i \in 1..n : s[i] = x
  BY AllOccur DEF Arranged
<1>5. \A x \in S : \E i \in 1..n : t[i] = x
  BY AllOccur DEF Arranged
<1> SUFFICES ASSUME Differ # {} PROVE FALSE
  <2>1. \A i \in 1..n : s[i] = t[i]
    OBVIOUS
  <2>2. s \in [1..n -> S] /\ t \in [1..n -> S]
    BY <1>2, <1>3
  <2> DEFINE D == 1..n
  <2>3. s \in [D -> S] /\ t \in [D -> S] /\ \A i \in D : s[i] = t[i]
    BY <2>1, <2>2
  <2> HIDE DEF D, n
  <2>4. s = [i \in D |-> s[i]] /\ t = [i \in D |-> t[i]]
    BY <2>3
  <2> QED
    BY <2>3, <2>4, Zenon
<1>6. PICK i \in Differ : \A x \in Differ : i =< x
  <2>1. Differ \subseteq Nat
    OBVIOUS
  <2> HIDE DEF Differ
  <2> QED
    BY <2>1, LeastElement
<1>7. i \in 1..n /\ s[i] # t[i] /\ s[i] \in S /\ t[i] \in S
  BY <1>2, <1>3, <1>6
<1>8. PICK j \in 1..n : s[j] = t[i]
  BY <1>4, <1>7
<1>9. PICK k \in 1..n : t[k] = s[i]
  BY <1>5, <1>7
<1>10. \A x \in 1..n : x < i => s[x] = t[x]
  <2>1. \A x \in 1..n : x \in Nat
    OBVIOUS
  <2> QED
    BY <1>6, <2>1
<1> HIDE DEF n, Differ
<1>11. i < j
  <2>1. j # i
    BY <1>7, <1>8
  <2>2. ~(j < i)
    BY <1>3, <1>7, <1>8, <1>10, <2>1
  <2> QED
    BY <1>1, <1>7, <2>1, <2>2
<1>12. i < k
  <2>1. k # i
    BY <1>7, <1>9
  <2>2. ~(k < i)
    BY <1>2, <1>7, <1>9, <1>10, <2>1
  <2> QED
    BY <1>1, <1>7, <2>1, <2>2
<1>13. <<t[i], s[i]>> \notin R
  BY <1>2, <1>7, <1>8, <1>11
<1>14. <<s[i], t[i]>> \notin R
  BY <1>3, <1>7, <1>9, <1>12
<1> QED
  BY <1>7, <1>13, <1>14 DEF Ranks

LEMMA OneArrangement ==
  ASSUME NEW S, IsFiniteSet(S), NEW R, Ranks(R, S)
  PROVE  Cardinality(Arranged(R, S)) = 1
<1> DEFINE n == Cardinality(S)
<1>1. PICK s : InOrder(R, S, n, s)
  BY OrderExists
<1>2. s \in [1..n -> S] /\ \A i, j \in 1..n : i < j => <<s[i], s[j]>> \in R
  BY <1>1 DEF InOrder
<1>3. ASSUME NEW i \in 1..n, NEW j \in 1..n
      PROVE  /\ i # j => s[i] # s[j]
             /\ i < j => <<s[j], s[i]>> \notin R
  <2> HIDE DEF n
  <2>1. i < j \/ j < i \/ i = j
    OBVIOUS
  <2>2. s[i] \in S /\ s[j] \in S
    BY <1>2
  <2> QED
    BY <1>2, <2>1, <2>2 DEF Ranks
<1>4. s \in Arranged(R, S)
  BY <1>2, <1>3 DEF Arranged, SetToSeqs
<1>5. Arranged(R, S) = {s}
  BY <1>4, ArrangedIsUnique
<1> QED
  BY <1>5, FS_Singleton

-----------------------------------------------------------------------------
(***************************************************************************)
(* The ranking: entries of the same user are the same, so that the order   *)
(* of the page leaves no two in either order.                              *)
(***************************************************************************)
LEMMA EntriesAreFinite ==
  ASSUME NEW rows \in Seq(Checkins) PROVE IsFiniteSet(Entries(rows))
<1> DEFINE T == Entries(rows)
           N == Len(rows)
           f == [i \in 1..N |-> Entry(rows, rows[i].user)]
<1>1. N \in Nat /\ \A i \in 1..N : rows[i] \in Range(rows)
  BY DEF Range
<1>2. f \in [1..N -> T]
  BY <1>1 DEF Entries
<1>3. ASSUME NEW e \in T PROVE \E i \in 1..N : f[i] = e
  <2>1. PICK u \in {r.user : r \in Range(rows)} : e = Entry(rows, u)
    BY DEF Entries
  <2>2. PICK r \in Range(rows) : u = r.user
    BY <2>1
  <2>3. PICK i \in 1..N : rows[i] = r
    BY DEF Range
  <2> QED
    BY <2>1, <2>2, <2>3
<1>4. f \in Surjection(1..N, T)
  <2> HIDE DEF f, T
  <2> QED
    BY <1>2, <1>3 DEF Surjection
<1>5. IsFiniteSet(1..N)
  <2> HIDE DEF N
  <2> QED
    BY <1>1, FS_Interval
<1>6. IsFiniteSet(T)
  <2> HIDE DEF f, T
  <2> QED
    BY <1>4, <1>5, FS_Surjection
<1> QED
  BY <1>6

LEMMA EntriesAreOfUsers ==
  ASSUME NEW rows \in Seq(Checkins), NEW e \in Entries(rows)
  PROVE  /\ e.user \in Int /\ e.total \in Int /\ e.streak \in Int
         /\ e = Entry(rows, e.user)
<1>1. PICK u \in {r.user : r \in Range(rows)} : e = Entry(rows, u)
  BY DEF Entries
<1>2. u \in Int
  BY RowsHaveDays DEF Range
<1>3. /\ Entry(rows, u).user = u
      /\ Entry(rows, u).total \in Nat /\ Entry(rows, u).streak \in Nat
  <2>1. DaysIn(rows, u) # {}
    BY UsersHaveDays
  <2> QED
    BY <2>1, EntryOfUser
<1> QED
  BY <1>1, <1>2, <1>3

Order(rows) == {p \in Entries(rows) \X Entries(rows) : Before(p[1], p[2])}

LEMMA OrderRanks ==
  ASSUME NEW rows \in Seq(Checkins) PROVE Ranks(Order(rows), Entries(rows))
<1> DEFINE T == Entries(rows)
<1>1. \A e \in T : /\ e.user \in Int /\ e.total \in Int /\ e.streak \in Int
                   /\ e = Entry(rows, e.user)
  BY EntriesAreOfUsers
<1>2. \A a, b \in T : <<a, b>> \in Order(rows) <=> Before(a, b)
  BY DEF Order
<1> HIDE DEF T
<1>3. \A a, b \in T : Before(a, b) => ~Before(b, a)
  BY <1>1 DEF Before
<1>4. \A a, b, c \in T : Before(a, b) /\ Before(b, c) => Before(a, c)
  BY <1>1 DEF Before
<1>5. ASSUME NEW a \in T, NEW b \in T, a # b PROVE Before(a, b) \/ Before(b, a)
  <2>1. a.user # b.user
    BY <1>1, <1>5
  <2> QED
    BY <1>1, <2>1 DEF Before
<1> QED
  BY <1>2, <1>3, <1>4, <1>5 DEF Ranks, T

\* sort.Slice can return one order only.
LEMMA OneRanking ==
  ASSUME NEW rows \in Seq(Checkins) PROVE Cardinality(Compute(rows)) = 1
<1>1. IsFiniteSet(Entries(rows)) /\ Ranks(Order(rows), Entries(rows))
  BY EntriesAreFinite, OrderRanks
<1>2. Compute(rows) = Arranged(Order(rows), Entries(rows))
  <2>1. ASSUME NEW s \in SetToSeqs(Entries(rows)),
               NEW i \in DOMAIN s, NEW j \in DOMAIN s
        PROVE  Before(s[j], s[i]) <=> <<s[j], s[i]>> \in Order(rows)
    BY DEF SetToSeqs, Order
  <2> QED
    BY <2>1 DEF Compute, Arranged
<1> QED
  BY <1>1, <1>2, OneArrangement
=============================================================================
