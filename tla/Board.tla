------------------------------- MODULE Board -------------------------------
(***************************************************************************)
(* The read side of internal/storage: what the web pages and the JSON API  *)
(* show of the stored rows.  Both queries take the configured region       *)
(* filter; an empty filter lists everything.                               *)
(***************************************************************************)
EXTENDS Store

\* The packets known to belong to a check-in: its user's of that week.
LinkedHashes(c) ==
  HashesOf({l \in links : l.week = c.week /\ l.user = c.user})

\* EXISTS (SELECT 1 FROM checkin_packets JOIN raw_packets ... IN (filters))
HeardIn(c, filters) ==
  \E r \in rawPackets : r.hash \in LinkedHashes(c) /\ r.iata \in filters

PassesFilter(c, filters) == filters = {} \/ HeardIn(c, filters)

\* The observers behind a tile's badge (COUNT(DISTINCT observer_key)).
ObserversOf(c) ==
  {o.observer : o \in {x \in observations : x.hash \in LinkedHashes(c)}}

ListCheckinsByWeek(filters, week) ==
  {c \in checkins : c.week = week /\ PassesFilter(c, filters)}

\* A check-in's date is the Monday of its week.
ListCheckinsSince(filters, trackFrom) ==
  {c \in checkins : c.week >= trackFrom /\ PassesFilter(c, filters)}
=============================================================================
