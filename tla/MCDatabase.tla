----------------------------- MODULE MCDatabase -----------------------------
(***************************************************************************)
(* What else touches the database file, for TLC: the migration of an old   *)
(* one, the export script beside a server that works on it, and the backup *)
(* script beside its checkpoints.  They are behaviours of their own.       *)
(***************************************************************************)
EXTENDS Upgrade, Export, Backup

CONSTANTS p1, p2, p3, u1, u2, sea, pdx

\* p1 and p2 are check-ins of u1 in the first week, heard in two regions; p3 is
\* one of u2.
MCPackets == {p1, p2, p3}
MCUsers == {u1, u2}
MCSender == [p \in MCPackets |-> IF p = p3 THEN u2 ELSE u1]

MondayRow(n, p, i) ==
  [id |-> n, hash |-> p, iata |-> i, at |-> [week |-> 0, monday |-> TRUE]]

MCOldPackets == {MondayRow(1, p2, pdx), MondayRow(2, p1, sea)}

\* The ids of the check-ins, unlike those of the packets, are in doubt.
MCOldCheckins ==
  {[id |-> n, hash |-> p, user |-> u1, week |-> 0] : n \in 1..2, p \in {p1, p2}}

CrashesAndRestores == {"crash", "restore"}

-----------------------------------------------------------------------------
VARIABLE working   \* what is looked at in this behaviour

databaseVars == <<upgradeAll, exportVars, backupVars, working>>

\* A database that the server has migrated and opened.
Opened ==
  /\ ClockInit
  /\ rawPackets = OldPackets /\ rawSeq = OldRawSeq
  /\ checkins \in SUBSET OldCheckins /\ OldSchemaOK(checkins)
  /\ checkins = Canonical(checkins)
  /\ checkinSeq = OldCheckinSeq
  /\ links = {LinkOf(c) : c \in checkins} /\ observations = {}
  /\ IngestInit /\ RetentionInit /\ RestoreInit
  /\ up = TRUE
  /\ step = [o \in Openers |-> IF o = "server" THEN "open" ELSE "closed"]
  /\ index = "week"
  /\ old = checkins

DatabaseInit ==
  /\ working \in {"upgrade", "export", "backup"}
  /\ IF working = "upgrade" THEN UpgradeInit ELSE Opened
  /\ working = "backup" => checkins = {}
  /\ exported = NotStarted /\ bundle = EmptyBundle /\ found = EmptyBundle
  /\ BackupInit

UpgradeWorks ==
  /\ working = "upgrade"
  /\ UpgradeNext
  /\ UNCHANGED <<exportVars, backupVars, working>>

\* The restore tool is not used while the script runs.
ExportWorks ==
  /\ working = "export"
  /\ ExportNext
  /\ UNCHANGED <<restoreVars, upgradeVars, backupVars, working>>

BackupWorks ==
  /\ working = "backup"
  /\ BackupNext
  /\ UNCHANGED <<upgradeAll, exportVars, working>>

DatabaseSpec ==
  DatabaseInit /\ [][UpgradeWorks \/ ExportWorks \/ BackupWorks]_databaseVars
=============================================================================
