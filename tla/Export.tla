------------------------------- MODULE Export ------------------------------
(***************************************************************************)
(* scripts/export_checkins_bundle.sh: four queries, in one sqlite3 session *)
(* but in no transaction, so each sees the database as it is when its turn *)
(* comes.  The server may go on working on the database being exported.    *)
(***************************************************************************)
EXTENDS MeshMonday, Sequences

VARIABLES
  exported,  \* how many of the four queries have run; NotStarted before
  bundle,    \* the rows written so far, by table
  found      \* history: what the database held when the export started

exportVars == <<exported, bundle, found>>

NotStarted == -1

\* Mutant: links before check-ins.
LinksFirst == <<"packets", "links", "checkins", "observations">>

ExportOrder == <<"packets", "checkins", "links", "observations">>

EmptyBundle == [packets |-> {}, checkins |-> {}, links |-> {},
                observations |-> {}]

\* The rows whose packet a check-in or a link refers to.
Referenced(rows) == {r \in rows : r.hash \in ProtectedPacketHashes}

\* What each query returns now.
Selected == [packets      |-> Referenced(rawPackets),
             checkins     |-> checkins,
             links        |-> links,
             observations |-> Referenced(observations)]

ExportInit ==
  /\ Init
  /\ exported = NotStarted
  /\ bundle = EmptyBundle /\ found = EmptyBundle

StartExport ==
  /\ exported = NotStarted
  /\ exported' = 0
  /\ found' = Selected
  /\ UNCHANGED bundle

ExportQuery ==
  /\ exported \in 0..3
  /\ exported' = exported + 1
  /\ LET t == ExportOrder[exported']
     IN  bundle' = [bundle EXCEPT ![t] = Selected[t]]
  /\ UNCHANGED found

ExportNext ==
  \/ Next /\ UNCHANGED exportVars
  \/ StartExport /\ UNCHANGED vars
  \/ ExportQuery /\ UNCHANGED vars

ExportSpec == ExportInit /\ [][ExportNext]_<<vars, exportVars>>

Exported == exported = 4

-----------------------------------------------------------------------------
\* "This pulls raw_packets rows referenced by check-ins, all checkins,
\* checkin_packets, and matching packet_observations": all that was there when
\* the script was started is in the bundle, with the packets it refers to,
\* although the retention loop deletes rows between the queries.
NothingFoundIsMissing ==
  Exported => \A t \in DOMAIN found : found[t] \subseteq bundle[t]

\* A check-in that was filed while the script ran is in the bundle with its
\* link, without which no region would show it: check-ins are read before the
\* links, and filed after them.
ExportedCheckinsHaveLinks ==
  Exported => \A c \in bundle.checkins : LinkOf(c) \in bundle.links
=============================================================================
