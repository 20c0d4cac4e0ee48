------------------------------ MODULE Ranking -------------------------------
(***************************************************************************)
(* internal/leaderboard: Compute turns check-ins into ranked entries, in   *)
(* the order of the leaderboard page.                                      *)
(*                                                                         *)
(* A check-in is its user and the day its week starts on (dates are parsed *)
(* as UTC, so days are 24 hours here).  Users are numbers in alphabetical  *)
(* order.  The number of weeks in the season is the business of Calendar,  *)
(* the rings that show it that of Season.                                  *)
(***************************************************************************)
EXTENDS Integers, SequencesExt

-----------------------------------------------------------------------------
\* sort.Slice: every day is put in its place among those before it.
Put(sorted, day) ==
  LET i == SelectInSeq(sorted, LAMBDA d : day < d)
  IN  IF i = 0 THEN Append(sorted, day) ELSE InsertAt(sorted, i, day)

Sorted(weeks) == FoldLeft(Put, <<>>, weeks)

\* Appending to weeks[:1] writes into the array that is still being read: acc
\* is the array and the length of the slice that grows at its front.
Dedup(weeks) ==
  LET Keep(acc, i) ==
        IF i > 1 /\ acc.array[i] # acc.array[i - 1]
        THEN [array |-> [acc.array EXCEPT ![acc.len + 1] = acc.array[i]],
              len |-> acc.len + 1]
        ELSE acc
      final == FoldLeftDomain(Keep, [array |-> weeks, len |-> 1], weeks)
  IN  SubSeq(final.array, 1, final.len)

\* Mutant: a gap does not end the current streak.
BridgeGaps(acc, prev, day) ==
  LET current == IF day - prev = 7 THEN acc.current + 1 ELSE acc.current
  IN  [current |-> current, currentStart |-> acc.currentStart,
       best |-> current, bestStart |-> acc.currentStart]

\* The next day continues the current streak or begins one; only a longer
\* streak replaces the best.
Extend(acc, prev, day) ==
  LET goesOn == day - prev = 7
      current == IF goesOn THEN acc.current + 1 ELSE 1
      start == IF goesOn THEN acc.currentStart ELSE day
      better == current > acc.best
  IN  [current |-> current, currentStart |-> start,
       best |-> IF better THEN current ELSE acc.best,
       bestStart |-> IF better THEN start ELSE acc.bestStart]

longestMondayStreak(weeks) ==
  LET days == Dedup(Sorted(weeks))
      Step(acc, i) == IF i = 1 THEN acc ELSE Extend(acc, days[i - 1], days[i])
      first == [current |-> 1, currentStart |-> days[1],
                best |-> 1, bestStart |-> days[1]]
  IN  FoldLeftDomain(Step, first, days)

-----------------------------------------------------------------------------
\* The weeks of the user's check-ins, in the order in which they come.
WeeksOf(checkins, u) ==
  FoldLeft(LAMBDA weeks, r : IF r.user = u THEN Append(weeks, r.day) ELSE weeks,
           <<>>, checkins)

Entry(checkins, u) ==
  LET streak == longestMondayStreak(WeeksOf(checkins, u))
  IN  [user |-> u, total |-> Len(WeeksOf(checkins, u)),
       streak |-> streak.best, streakStart |-> streak.bestStart]

Entries(checkins) ==
  {Entry(checkins, u) : u \in {r.user : r \in Range(checkins)}}

\* Mutant: no order between equals.
RankedByResults(a, b) ==
  \/ a.total > b.total
  \/ a.total = b.total /\ a.streak > b.streak

Before(a, b) ==
  \/ a.total > b.total
  \/ a.total = b.total /\ a.streak > b.streak
  \/ a.total = b.total /\ a.streak = b.streak /\ a.user < b.user

\* The entries come out of a map in any order, and sort.Slice is not stable:
\* what Compute may return is any arrangement that is sorted.
Compute(checkins) ==
  {s \in SetToSeqs(Entries(checkins)) :
     \A i, j \in DOMAIN s : i < j => ~Before(s[j], s[i])}
=============================================================================
