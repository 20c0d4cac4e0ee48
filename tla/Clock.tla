------------------------------- MODULE Clock -------------------------------
(***************************************************************************)
(* The wall clock of the server, read in the configured time zone.         *)
(*                                                                         *)
(* Ingest and retention ask two things of an instant: is it a Monday       *)
(* (IsMondayInTZ), and in which week does it lie (WeekStartMonday, the     *)
(* date of the week's Monday).  An instant is therefore the pair of those  *)
(* two answers; the six other days of a week are one.                      *)
(***************************************************************************)
EXTENDS Integers

CONSTANT MaxWeek    \* bound: the clock stops in this week

ASSUME MaxWeekAssumption == MaxWeek \in Nat

VARIABLE now

Instants == [week : Nat, monday : BOOLEAN]

IsMonday(t) == t.monday

\* WeekStartMonday.  The Monday of a week stands for the week, so dates of
\* Mondays are week numbers and AddDate(0, 0, -7*n) subtracts n.
MondayOf(t) == t.week

ClockInit == now = [week |-> 0, monday |-> TRUE]

\* Midnight after Monday, or midnight before the next Monday.
AdvanceClock ==
  /\ now.monday \/ now.week < MaxWeek
  /\ now' = IF now.monday THEN [week |-> now.week, monday |-> FALSE]
                          ELSE [week |-> now.week + 1, monday |-> TRUE]
=============================================================================
