------------------------------ MODULE Restore ------------------------------
(***************************************************************************)
(* cmd/restorecheckinpackets: a separate process that opens the same       *)
(* database, walks over the stored packets and adds the check-in links     *)
(* that are missing.  The operator may run it while the server works.      *)
(*                                                                         *)
(* It reads the packets with one query and inserts links while the query   *)
(* is open, so it works on the rows as they were when the query started.   *)
(***************************************************************************)
EXTENDS Ingest

CONSTANT RestoreSender   \* what ExtractFromPacket finds with the tool's keys

ASSUME RestoreSenderAssumption ==
  RestoreSender \in [Packets -> Users \cup {NoSender}]

VARIABLES
  restorePc,       \* "idle", "opened" or "scanning"
  restorePending   \* rows of the open query that are still to be read

restoreVars == <<restorePc, restorePending>>

RestoreTypeOK ==
  /\ restorePc \in {"idle", "opened", "scanning"}
  /\ restorePending \subseteq RawRows

RestoreInit == restorePc = "idle" /\ restorePending = {}

\* The tool's OpenSQLite migrates the database like the server's does.
OpenTool ==
  /\ "restore" \in Env
  /\ restorePc = "idle"
  /\ Migrate
  /\ restorePc' = "opened"
  /\ UNCHANGED restorePending

QueryRawPackets ==
  /\ restorePc = "opened"
  /\ restorePc' = "scanning"
  /\ restorePending' = rawPackets
  /\ UNCHANGED storeVars

\* Nothing stored before r is still pending (ORDER BY observed_at).
NextToRestore(r) ==
  /\ r \in restorePending
  /\ \A s \in restorePending :
       \/ r.at.week < s.at.week
       \/ r.at.week = s.at.week /\ (r.at.monday \/ ~s.at.monday)

\* The link is inserted with no retry: when SQLite is busy, or retention has
\* deleted the packet meanwhile, the tool counts an error and goes on.
RestoreRow(r) ==
  /\ restorePc = "scanning"
  /\ NextToRestore(r)
  /\ IF RestoreSender[r.hash] # NoSender /\ IsMonday(r.at)
     THEN \/ InsertCheckinPacket(MondayOf(r.at),
                                 RestoreSender[r.hash], r.hash)
          \/ StatementFails
     ELSE UNCHANGED storeVars
  /\ restorePending' = restorePending \ {r}
  /\ UNCHANGED restorePc

\* All rows read, or the query gave an error, or the two minutes are over.
ExitTool ==
  /\ restorePc # "idle"
  /\ restorePc' = "idle"
  /\ restorePending' = {}
  /\ UNCHANGED storeVars

RestoreStep ==
  \/ OpenTool
  \/ QueryRawPackets
  \/ \E r \in restorePending : RestoreRow(r)
  \/ ExitTool
=============================================================================
