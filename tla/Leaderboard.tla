---------------------------- MODULE Leaderboard ----------------------------
(***************************************************************************)
(* The check-ins that ListCheckinsSince may return, in any order, and what *)
(* Compute makes of them.                                                  *)
(***************************************************************************)
EXTENDS Ranking

CONSTANTS
  Users,
  Days,      \* week starts that check-ins may bear
  MaxRows    \* bound: how many check-ins there are

\* Check-ins are filed under Mondays (Calendar).
ASSUME LeaderboardAssumption ==
  Users \subseteq Int /\ \A d \in Days : d \in Int /\ d % 7 = 0

VARIABLE rows   \* what ListCheckinsSince returns

Rows == [user : Users, day : Days]

-----------------------------------------------------------------------------
Init == rows = << >>

AddCheckin ==
  /\ Len(rows) < MaxRows
  /\ \E r \in Rows : rows' = Append(rows, r)

Spec == Init /\ [][AddCheckin]_rows

-----------------------------------------------------------------------------
\* The streak shown is the longest run of consecutive weeks a user checked in
\* in, and the date beside it is the start of the first such run, whatever the
\* order and the number of the rows.
DaysOf(u) == {r.day : r \in {x \in Range(rows) : x.user = u}}

IsRun(u, start, n) == \A k \in 0..(n - 1) : start + 7 * k \in DaysOf(u)

StreaksAreLongest ==
  \A e \in Entries(rows) :
    /\ IsRun(e.user, e.streakStart, e.streak)
    /\ \A d \in DaysOf(e.user) :
         /\ ~IsRun(e.user, d, e.streak + 1)
         /\ IsRun(e.user, d, e.streak) => e.streakStart =< d

\* Two requests over the same check-ins show the same leaderboard.
RankingIsDetermined == Cardinality(Compute(rows)) = 1
=============================================================================
