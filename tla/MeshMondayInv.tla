--------------------------- MODULE MeshMondayInv ---------------------------
(***************************************************************************)
(* The inductive invariant behind the safety properties of MeshMonday.     *)
(*                                                                         *)
(* Why no check-in is lost although retention works with hashes it read    *)
(* long ago: a check-in that is newer than those hashes was made by a      *)
(* handler that heard its packet in the current week, and the cutoff of a  *)
(* running prune is not after the current week.                            *)
(***************************************************************************)
EXTENDS MeshMonday

\* Row ids are handed out in order, and nothing holds an id not handed out.
IdsAllocated ==
  /\ IsFiniteSet(rawPackets)
  /\ \A r \in rawPackets : r.id \in 1..rawSeq
  /\ lastId \in 0..rawSeq
  /\ \A i \in toDelete : i =< rawSeq
  /\ prunePc \in {"idle", "protect"} => lastId = 0
  /\ prunePc # "delete" => toDelete = {}

\* Nothing was heard later than now; a handler with a Monday packet works in
\* the week of that Monday.
Timely ==
  /\ now.week =< MaxWeek
  /\ \A r \in rawPackets : r.at.week =< now.week
  /\ \A h \in Handlers : pc[h] # "idle" =>
       /\ msg[h].at.week =< now.week
       /\ IsMonday(msg[h].at) => msg[h].at.week = now.week
  /\ prunePc # "idle" => cutoff =< now.week - Retain

\* A handler that is going to file a check-in still has the row it stored.
Stored(m) == \E r \in rawPackets : r.hash = m.packet /\ r.at = m.at

HandlerRow ==
  \A h \in Handlers :
    /\ pc[h] \in {"link", "checkin"} => YieldsCheckin(h)
    /\ inserted[h] => pc[h] \in {"observe", "link", "checkin"}
    /\ inserted[h] /\ IsMonday(msg[h].at) => Stored(msg[h])

\* A check-in a running prune does not know of is of a Monday within its cutoff.
FromMonday(c) ==
  \E r \in rawPackets :
    r.hash = c.hash /\ IsMonday(r.at) /\ MondayOf(r.at) = c.week

NewCheckinsRecent ==
  prunePc \in {"scan", "delete"} =>
    \A c \in checkins :
      c.hash \in protected \/ (c.week >= cutoff /\ FromMonday(c))

\* ... and so only rows without one are marked for deletion.
OnlyUnretainedDoomed ==
  \A r \in rawPackets : r.id \in toDelete => ~ShouldRetain(r)

\* The core is inductive alone.  It also holds of a database that an older
\* release has left, whose check-ins it may have filed by other rules.
Core ==
  /\ TypeOK
  /\ Integrity
  /\ IdsAllocated
  /\ Timely
  /\ HandlerRow
  /\ NewCheckinsRecent
  /\ OnlyUnretainedDoomed
  /\ ScannedRowsRetained

IInv == Core /\ CheckinFromMonday

\* Without the restore tool the same holds of links: each was made by a
\* handler, for a row that was stored on the Monday of the link's week.
LinksRecent ==
  /\ \A l \in links : \E r \in rawPackets :
       r.hash = l.hash /\ IsMonday(r.at) /\ r.at.week = l.week
  /\ prunePc \in {"scan", "delete"} =>
       \A l \in links : l.hash \in protected \/ l.week >= cutoff
=============================================================================
