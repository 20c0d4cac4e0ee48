------------------------------ MODULE Upgrade ------------------------------
(***************************************************************************)
(* The first start on a database of an older release, whose unique index   *)
(* allowed a user one check-in per week and region and which had no links. *)
(*                                                                         *)
(* Store!Migrate is one step.  In truth OpenSQLite executes a script of    *)
(* autocommitted statements, in the server and in the restore tool, which  *)
(* may be started together; each may be killed or fail between any two.    *)
(***************************************************************************)
EXTENDS MeshMonday

CONSTANTS
  OldPackets,     \* the rows of raw_packets the old release left
  OldRawSeq,      \* ... and its AUTOINCREMENT counter
  OldCheckins,    \* rows it may have left in checkins
  OldCheckinSeq   \* ... and its AUTOINCREMENT counter

\* The keys and counters of the two tables were those of today.
ASSUME OldDatabaseAssumption ==
  /\ OldPackets \subseteq RawRows /\ IsFiniteSet(OldPackets)
  /\ OldRawSeq \in Nat /\ \A r \in OldPackets : r.id \in 1..OldRawSeq
  /\ \A r, s \in OldPackets : r.hash = s.hash \/ r.id = s.id => r = s
  /\ OldCheckins \subseteq CheckinRows
  /\ HashesOf(OldCheckins) \subseteq HashesOf(OldPackets)
  /\ OldCheckinSeq \in Nat /\ \A c \in OldCheckins : c.id \in 1..OldCheckinSeq

VARIABLES
  step,    \* per process: "closed", the next statement of Migrate, or "open"
  index,   \* the unique index on checkins: "region" (old), "none" or "week"
  old      \* history: the check-ins the old release left

upgradeVars == <<step, index, old>>

Openers == {"server", "tool"}

IataOf(c) == (CHOOSE r \in rawPackets : r.hash = c.hash).iata

SameSlot(c, d) == c.week = d.week /\ c.user = d.user

\* What the keys and idx_checkins_iata_week_username_unique allowed.
OldSchemaOK(rows) ==
  \A c, d \in rows :
    \/ c.id = d.id
    \/ c.hash = d.hash
    \/ SameSlot(c, d) /\ IataOf(c) = IataOf(d)
    => c = d

UpgradeInit ==
  /\ now \in [week : 0..MaxWeek, monday : BOOLEAN]
  /\ \A r \in OldPackets : r.at.week =< now.week
  /\ rawPackets = OldPackets /\ rawSeq = OldRawSeq
  /\ checkins \in SUBSET OldCheckins /\ OldSchemaOK(checkins)
  /\ checkinSeq = OldCheckinSeq
  /\ observations = {} /\ links = {}
  /\ IngestInit /\ RetentionInit /\ RestoreInit
  /\ up = FALSE
  /\ step = [o \in Openers |-> "closed"]
  /\ index = "region"
  /\ old = checkins

-----------------------------------------------------------------------------
(* Migrate, statement by statement *)

Step(o, from, to) == step[o] = from /\ step' = [step EXCEPT ![o] = to]

\* CREATE TABLE IF NOT EXISTS, five times: no row changes.
CreateTables(o) ==
  /\ o = "tool" => "restore" \in Env /\ restorePc = "idle"
  /\ Step(o, "closed", "dedupe")
  /\ UNCHANGED <<storeVars, index>>

DeleteSurplus(o) ==
  /\ Step(o, "dedupe", "drop")
  /\ checkins' = Canonical(checkins)
  /\ UNCHANGED <<rawPackets, rawSeq, checkinSeq, observations, links, index>>

DropOldIndex(o) ==
  /\ Step(o, "drop", "create")
  /\ index' = IF index = "region" THEN "none" ELSE index
  /\ UNCHANGED storeVars

SlotsAreUnique == \A c, d \in checkins : SameSlot(c, d) => c = d

\* CREATE UNIQUE INDEX IF NOT EXISTS: an error while a slot is taken twice.
CreateIndex(o) ==
  /\ Step(o, "create", IF SlotsAreUnique THEN "backfill" ELSE "closed")
  /\ index' = IF SlotsAreUnique THEN "week" ELSE index
  /\ UNCHANGED storeVars

\* Mutant: the links are the business of the server.
ServerBackfills(o) ==
  /\ Step(o, "backfill", "open")
  /\ links' = IF o = "server" THEN links \cup {LinkOf(c) : c \in checkins}
                              ELSE links
  /\ UNCHANGED <<rawPackets, rawSeq, checkinVars, observations, index>>

BackfillLinks(o) ==
  /\ Step(o, "backfill", "open")
  /\ links' = links \cup {LinkOf(c) : c \in checkins}
  /\ UNCHANGED <<rawPackets, rawSeq, checkinVars, observations, index>>

\* A killed process, or a failing statement: the process exits, and what its
\* statements have done so far stays.
AbortMigrate(o) ==
  /\ Env \cap {"crash", "busy"} # {}
  /\ step[o] \notin {"closed", "open"}
  /\ step' = [step EXCEPT ![o] = "closed"]
  /\ UNCHANGED <<storeVars, index>>

MigrateStatement(o) ==
  \/ CreateTables(o) \/ DeleteSurplus(o) \/ DropOldIndex(o)
  \/ CreateIndex(o) \/ BackfillLinks(o)

\* With the last statement OpenSQLite returns: the server serves, the tool
\* goes on to its query.
Migrating(o) ==
  /\ MigrateStatement(o) \/ AbortMigrate(o)
  /\ up' = (step'["server"] = "open")
  /\ IF o = "tool" /\ step'[o] = "open"
     THEN restorePc' = "opened" /\ UNCHANGED restorePending
     ELSE UNCHANGED restoreVars
  /\ UNCHANGED <<now, ingestVars, retentionVars, old>>

-----------------------------------------------------------------------------
\* The rest of the system, with the two steps that end a process.
CrashServer == Crash /\ step' = [step EXCEPT !["server"] = "closed"]

ToolWorks ==
  /\ step["tool"] = "open"
  /\ \/ /\ QueryRawPackets \/ \E r \in restorePending : RestoreRow(r)
        /\ UNCHANGED step
     \/ /\ ExitTool
        /\ step' = [step EXCEPT !["tool"] = "closed"]
  /\ UNCHANGED <<now, processVars>>

UpgradeNext ==
  \/ \E o \in Openers : Migrating(o)
  \/ CrashServer /\ UNCHANGED <<index, old>>
  \/ ToolWorks /\ UNCHANGED <<index, old>>
  \/ /\ Tick \/ Pruning \/ \E h \in Handlers : Ingesting(h)
     /\ UNCHANGED upgradeVars

upgradeAll == <<vars, upgradeVars>>

UpgradeSpec == UpgradeInit /\ [][UpgradeNext]_upgradeAll

-----------------------------------------------------------------------------
\* The cleanup removes surplus check-ins, and never a user from a week: a
\* (week, user) slot that is taken stays taken, through every statement, every
\* kill between two of them, and the prunes that follow.
SlotsKept ==
  [][\A c \in checkins : \E d \in checkins' : SameSlot(c, d)]_upgradeAll

\* Whoever has opened the database finds it as if Migrate had been one step:
\* the first check-in of each slot is left of the old ones, each of these has
\* its link, and the index is in place, although the other process may be in
\* the middle of the same script or may have died there.
OpenedAsOne ==
  \A o \in Openers : step[o] = "open" =>
    /\ index = "week"
    /\ checkins \cap old = Canonical(old)
    /\ {LinkOf(c) : c \in Canonical(old)} \subseteq links

\* The statement that can fail does not: whoever comes to create the index
\* finds no surplus, and two processes that migrate together do not bring each
\* other's start to an end.
IndexCanBeCreated == \A o \in Openers : step[o] = "create" => SlotsAreUnique
=============================================================================
