--------------------------- MODULE DatabaseProofs ---------------------------
(***************************************************************************)
(* The rest of what touches the database file: proofs about the migration  *)
(* of an old one, about the export script and about the backup script.     *)
(***************************************************************************)
EXTENDS Upgrade, Export, Backup, BoardProofs, Induction

(***************************************************************************)
(* Migration.  Until the surplus check-ins are deleted nobody works on the *)
(* database; from then on it is one of the present release, on which every *)
(* statement of either script does what MeshMonday!Next may do.            *)
(***************************************************************************)
Steps == {"closed", "dedupe", "drop", "create", "backfill", "open"}

\* The processes are where their scripts say they are.
OpenersOK ==
  /\ step \in [Openers -> Steps]
  /\ up <=> step["server"] = "open"
  /\ restorePc # "idle" <=> step["tool"] = "open"
  /\ step["tool"] # "closed" => "restore" \in Env

IndexOK ==
  \A o \in Openers : step[o] \in {"backfill", "open"} => index = "week"

\* What the old keys promised of the check-ins that were there.
OldRowsOK ==
  /\ old \subseteq CheckinRows
  /\ \A c, d \in old : c.id = d.id \/ c.hash = d.hash => c = d
  /\ \A c \in old : c.id =< checkinSeq

\* Nothing has happened yet but the passing of time.
Untouched ==
  /\ \A o \in Openers : step[o] \in {"closed", "dedupe"}
  /\ checkins = old /\ links = {} /\ observations = {}
  /\ HashesOf(checkins) \subseteq HashesOf(rawPackets)
  /\ \A r, s \in rawPackets : r.hash = s.hash \/ r.id = s.id => r = s
  /\ TypeOK /\ IdsAllocated /\ Timely
  /\ prunePc = "idle"
  /\ \A h \in Handlers : pc[h] = "idle" /\ ~inserted[h]

\* The surplus is gone, and nothing else.
Cleaned ==
  /\ Core
  /\ checkins \cap old = Canonical(old)
  /\ (\E o \in Openers : step[o] = "open") =>
       {LinkOf(c) : c \in Canonical(old)} \subseteq links

UpgradeIInv == OpenersOK /\ IndexOK /\ OldRowsOK /\ (Untouched \/ Cleaned)

-----------------------------------------------------------------------------
LEMMA UpgradeInitInv == UpgradeInit => UpgradeIInv
<1> SUFFICES ASSUME UpgradeInit PROVE UpgradeIInv
  OBVIOUS
<1> USE DEF UpgradeInit, IngestInit, RetentionInit, RestoreInit
<1>1. OpenersOK /\ IndexOK
  BY DEF OpenersOK, IndexOK, Openers, Steps
<1>2. OldRowsOK
  BY OldDatabaseAssumption DEF OldRowsOK, OldSchemaOK, CheckinRows
<1>3. TypeOK
  <2>1. StoreTypeOK
    BY OldDatabaseAssumption DEF StoreTypeOK
  <2>2. IngestTypeOK
    BY DEF IngestTypeOK
  <2>3. RetentionTypeOK /\ RestoreTypeOK
    BY DEF RetentionTypeOK, RestoreTypeOK
  <2>4. now \in Instants
    BY MaxWeekAssumption DEF Instants
  <2> QED
    BY <2>1, <2>2, <2>3, <2>4 DEF TypeOK
<1>4. IdsAllocated
  BY OldDatabaseAssumption DEF IdsAllocated
<1>5. Timely
  BY MaxWeekAssumption DEF Timely
<1>6. HashesOf(checkins) \subseteq HashesOf(rawPackets)
  BY OldDatabaseAssumption DEF HashesOf
<1>7. Untouched
  BY <1>3, <1>4, <1>5, <1>6, OldDatabaseAssumption DEF Untouched, Openers
<1> QED
  BY <1>1, <1>2, <1>7 DEF UpgradeIInv

\* A database without surplus is one of the present release.
LEMMA UniqueSlotsGiveCore ==
  ASSUME UpgradeIInv, SlotsAreUnique PROVE Core
<1> SUFFICES ASSUME Untouched PROVE Core
  BY DEF UpgradeIInv, Cleaned
<1>1. Integrity
  BY DEF Untouched, UpgradeIInv, OldRowsOK, Integrity, SlotsAreUnique,
     SameSlot, HashesOf
<1>2. HandlerRow /\ NewCheckinsRecent
  BY DEF Untouched, HandlerRow, NewCheckinsRecent
<1>3. OnlyUnretainedDoomed /\ ScannedRowsRetained
  BY DEF Untouched, IdsAllocated, OnlyUnretainedDoomed, ScannedRowsRetained
<1> QED
  BY <1>1, <1>2, <1>3 DEF Untouched, Core

LEMMA CoreHasUniqueSlots == Core => SlotsAreUnique
BY DEF Core, Integrity, SlotsAreUnique, SameSlot

\* Once the surplus is gone, nothing either script does is new to MeshMonday:
\* the last statement is its Migrate, and the others change nothing.
LEMMA StatementsAreSteps ==
  ASSUME UpgradeIInv, Core, [UpgradeNext]_upgradeAll PROVE [Next]_vars
<1>1. ASSUME NEW o \in Openers, Migrating(o) PROVE [Next]_vars
  <2>1. Canonical(checkins) = checkins
    BY DEF Core, Integrity, TypeOK, StoreTypeOK, CheckinRows, Canonical
  <2>2. CASE BackfillLinks(o) /\ o = "server"
    <3>1. step["server"] = "backfill" /\ step'["server"] = "open"
      BY <2>2 DEF BackfillLinks, Step, UpgradeIInv, OpenersOK
    <3>2. ~up /\ up' = TRUE
      BY <1>1, <3>1 DEF Migrating, UpgradeIInv, OpenersOK
    <3>3. Migrate
      BY <2>1, <2>2 DEF BackfillLinks, Migrate, checkinVars
    <3> QED
      BY <1>1, <2>2, <3>2, <3>3 DEF Migrating, Restart, Next
  <2>3. CASE BackfillLinks(o) /\ o = "tool"
    <3>1. step["tool"] = "backfill" /\ step'["tool"] = "open"
          /\ step'["server"] = step["server"]
      BY <2>3 DEF BackfillLinks, Step, UpgradeIInv, OpenersOK, Openers
    <3>2. "restore" \in Env /\ restorePc = "idle" /\ up' = up
      BY <1>1, <3>1 DEF Migrating, UpgradeIInv, OpenersOK, Core, TypeOK
    <3>3. Migrate
      BY <2>1, <2>3 DEF BackfillLinks, Migrate, checkinVars
    <3> QED
      BY <1>1, <2>3, <3>1, <3>2, <3>3
      DEF Migrating, OpenTool, RestoreStep, Restoring, processVars, Next
  <2>4. CASE ~BackfillLinks(o)
    <3>1. /\ UNCHANGED storeVars
          /\ step' \in {[step EXCEPT ![o] = x] :
                         x \in Steps \ {"open"}} /\ step[o] # "open"
      BY <1>1, <2>1, <2>4
      DEF Migrating, MigrateStatement, CreateTables, DeleteSurplus,
          DropOldIndex, CreateIndex, AbortMigrate, Step, storeVars,
          checkinVars, Steps
    <3>2. step'[o] # "open" /\ \A x \in Openers \ {o} : step'[x] = step[x]
      BY <3>1 DEF UpgradeIInv, OpenersOK
    <3>3. up' = up /\ UNCHANGED restoreVars
      BY <1>1, <3>1, <3>2
      DEF Migrating, Openers, UpgradeIInv, OpenersOK, Core, TypeOK
    <3> QED
      BY <1>1, <3>1, <3>3 DEF Migrating, vars, processVars
  <2> QED
    BY <2>2, <2>3, <2>4 DEF Openers
<1>2. CASE ToolWorks
  BY <1>2 DEF ToolWorks, Restoring, RestoreStep, Next
<1> QED
  BY <1>1, <1>2 DEF UpgradeNext, CrashServer, Next, upgradeAll

\* A new check-in has an id that no check-in had before.
LEMMA NewIds ==
  ASSUME Core, [Next]_vars
  PROVE  /\ checkinSeq =< checkinSeq'
         /\ \A c \in checkins' \ checkins : c.id > checkinSeq
<1> checkinSeq \in Nat
  BY DEF Core, TypeOK, StoreTypeOK
<1> USE DEF storeVars, checkinVars
<1>1. CASE DeleteRows
  <2>1. checkins' = checkins
    BY <1>1, DeletesNoCheckin
  <2>2. checkinSeq' = checkinSeq
    BY <1>1 DEF DeleteRows, DeleteRawPackets
  <2> QED
    BY <2>1, <2>2
<1>2. ASSUME NEW h \in Handlers, Checkin(h)
      PROVE  /\ checkinSeq =< checkinSeq'
             /\ \A c \in checkins' \ checkins : c.id > checkinSeq
  BY <1>2 DEF Checkin, InsertCheckin, StatementFails
<1>3. CASE UNCHANGED checkinVars
  BY <1>3
<1>4. \/ DeleteRows \/ UNCHANGED checkinVars
      \/ \E h \in Handlers : Checkin(h)
  BY MigrateAddsLinks
  DEF Next, Ingesting, Receive, HandleMessage, StoreRaw, Observe, Link,
      InsertRawPacket, InsertPacketObservation, InsertCheckinPacket,
      StatementFails, Pruning, StartPrune, PruneStep, ReadProtected, ScanRows,
      FinishPrune, AbortPrune, Restoring, RestoreStep, OpenTool,
      QueryRawPackets, RestoreRow, ExitTool, Tick, Crash, Restart, vars
<1> QED
  BY <1>1, <1>2, <1>3, <1>4

LEMMA CleanedStays ==
  ASSUME UpgradeIInv, Cleaned, [UpgradeNext]_upgradeAll PROVE Cleaned'
<1>1. Core /\ [Next]_vars /\ Core' /\ old' = old
  BY StatementsAreSteps, NextCore
  DEF Cleaned, UpgradeNext, Migrating, upgradeVars, upgradeAll
<1>2. Canonical(old)' = Canonical(old)
  BY <1>1 DEF Canonical
<1>3. checkins' \cap old = Canonical(old)
  <2>1. checkins \subseteq checkins'
    BY <1>1, NextKeepsCheckins
  <2>2. \A c \in old : c \in checkins' => c \in checkins
    <3> SUFFICES ASSUME NEW c \in old, c \in checkins' \ checkins
                 PROVE  FALSE
      OBVIOUS
    <3>1. c.id \in Nat /\ checkinSeq \in Nat /\ c.id =< checkinSeq
      BY DEF UpgradeIInv, OldRowsOK, CheckinRows, Cleaned, Core, TypeOK,
         StoreTypeOK
    <3>2. c.id > checkinSeq
      BY <1>1, NewIds
    <3> QED
      BY <3>1, <3>2
  <2> QED
    BY <2>1, <2>2 DEF Cleaned
<1>4. ASSUME NEW o \in Openers, step'[o] = "open", NEW c \in Canonical(old)
      PROVE  LinkOf(c) \in links'
  <2>1. c \in checkins
    BY DEF Cleaned
  <2>2. CASE \E x \in Openers : step[x] = "open"
    <3>1. LinkOf(c) \in links /\ LinkOf(c).hash = c.hash
      BY <2>2 DEF Cleaned, LinkOf
    <3>2. c \in checkins' /\ Integrity'
      BY <1>1, <2>1, NextKeepsCheckins DEF Core
    <3>3. PICK r \in rawPackets' : r.hash = c.hash
      BY <3>2 DEF Integrity, HashesOf
    <3> QED
      BY <1>1, <3>1, <3>3, LinksOutlive
  <2>3. CASE step[o] # "open"
    <3> step \in [Openers -> Steps]
      BY DEF UpgradeIInv, OpenersOK
    <3>1. PICK x \in Openers : MigrateStatement(x) \/ AbortMigrate(x)
      BY <1>4, <2>3
      DEF UpgradeNext, Migrating, CrashServer, ToolWorks, upgradeVars,
          upgradeAll, Openers
    <3>2. BackfillLinks(o)
      BY <1>4, <2>3, <3>1
      DEF MigrateStatement, CreateTables, DeleteSurplus, DropOldIndex,
          CreateIndex, BackfillLinks, AbortMigrate, Step
    <3> QED
      BY <2>1, <3>2 DEF BackfillLinks
  <2> QED
    BY <2>2, <2>3
<1> QED
  BY <1>1, <1>2, <1>3, <1>4 DEF Cleaned

\* The statement that removes the surplus leaves no other trace.
LEMMA SurplusDeleted ==
  ASSUME UpgradeIInv, Untouched, NEW o \in Openers, Migrating(o),
         DeleteSurplus(o)
  PROVE  Cleaned'
<1>1. checkins' = Canonical(old) /\ checkins' \subseteq checkins
      /\ old' = old
  BY DEF DeleteSurplus, Canonical, Untouched, Migrating
<1>2. \A x \in Openers : step'[x] # "open"
  BY DEF DeleteSurplus, Step, Untouched, UpgradeIInv, OpenersOK
<1>3. UNCHANGED <<now, rawPackets, rawSeq, checkinSeq, observations, links,
                  ingestVars, retentionVars>>
      /\ up' = FALSE /\ UNCHANGED restoreVars
  BY <1>2 DEF DeleteSurplus, Migrating, Openers
<1> USE DEF ingestVars, retentionVars, restoreVars
<1>4. TypeOK'
  <2>1. StoreTypeOK'
    BY <1>1, <1>3 DEF Untouched, TypeOK, StoreTypeOK
  <2> QED
    BY <2>1, <1>3
    DEF Untouched, TypeOK, IngestTypeOK, RetentionTypeOK, RestoreTypeOK
<1>5. Integrity'
  <2>1. \A c, d \in checkins' :
          c.hash = d.hash \/ (c.week = d.week /\ c.user = d.user) => c = d
    BY <1>1 DEF Canonical, UpgradeIInv, OldRowsOK, CheckinRows
  <2>2. HashesOf(checkins') \cup HashesOf(links') \cup HashesOf(observations')
          \subseteq HashesOf(rawPackets')
    BY <1>1, <1>3 DEF Untouched, HashesOf
  <2> QED
    BY <1>3, <2>1, <2>2 DEF Untouched, Integrity
<1>6. IdsAllocated' /\ Timely'
  BY <1>3 DEF Untouched, IdsAllocated, Timely
<1>7. HandlerRow' /\ NewCheckinsRecent'
  BY <1>3 DEF Untouched, HandlerRow, NewCheckinsRecent
<1>8. OnlyUnretainedDoomed' /\ ScannedRowsRetained'
  BY <1>3 DEF Untouched, IdsAllocated, OnlyUnretainedDoomed, ScannedRowsRetained
<1>9. Core'
  BY <1>4, <1>5, <1>6, <1>7, <1>8 DEF Core
<1> QED
  BY <1>1, <1>2, <1>9 DEF Cleaned, Canonical

LEMMA OpenersStayOK ==
  ASSUME UpgradeIInv, [UpgradeNext]_upgradeAll PROVE OpenersOK' /\ IndexOK'
<1> /\ step \in [Openers -> Steps] /\ OpenersOK /\ IndexOK
  BY DEF UpgradeIInv, OpenersOK
<1> USE DEF Openers
<1>1. ASSUME NEW o \in Openers, Migrating(o) PROVE OpenersOK' /\ IndexOK'
  <2>1. PICK x \in Steps : step' = [step EXCEPT ![o] = x]
    BY <1>1
    DEF Migrating, MigrateStatement, CreateTables, DeleteSurplus, DropOldIndex,
        CreateIndex, BackfillLinks, AbortMigrate, Step, Steps
  <2>2. step[o] # "open" /\ (o = "tool" => "restore" \in Env)
    BY <1>1
    DEF Migrating, MigrateStatement, CreateTables, DeleteSurplus, DropOldIndex,
        CreateIndex, BackfillLinks, AbortMigrate, Step, OpenersOK
  <2>3. restorePc' # "idle" <=> step'["tool"] = "open"
    BY <1>1, <2>1, <2>2 DEF Migrating, OpenersOK, restoreVars
  <2>4. OpenersOK'
    BY <1>1, <2>1, <2>2, <2>3 DEF Migrating, OpenersOK
  <2>5. index' = index \/ index' = "week" \/ index = "region"
    BY <1>1
    DEF Migrating, MigrateStatement, CreateTables, DeleteSurplus, DropOldIndex,
        CreateIndex, BackfillLinks, AbortMigrate
  <2>6. step'[o] \in {"backfill", "open"} => index' = "week"
    BY <1>1, <2>1
    DEF Migrating, MigrateStatement, CreateTables, DeleteSurplus, DropOldIndex,
        CreateIndex, BackfillLinks, AbortMigrate, Step, IndexOK
  <2> QED
    BY <2>1, <2>4, <2>5, <2>6 DEF IndexOK
<1>2. CASE CrashServer /\ UNCHANGED <<index, old>>
  <2>1. step' = [step EXCEPT !["server"] = "closed"] /\ up' = FALSE
        /\ restorePc' = restorePc
    BY <1>2 DEF CrashServer, Crash, restoreVars
  <2> QED
    BY <1>2, <2>1 DEF OpenersOK, IndexOK, Steps
<1>3. CASE ToolWorks /\ UNCHANGED <<index, old>>
  <2>1. CASE ExitTool /\ step' = [step EXCEPT !["tool"] = "closed"]
    BY <1>3, <2>1
    DEF ToolWorks, ExitTool, processVars, OpenersOK, IndexOK, Steps
  <2>2. CASE UNCHANGED step /\ ~ExitTool
    BY <1>3, <2>2
    DEF ToolWorks, QueryRawPackets, RestoreRow, processVars, OpenersOK, IndexOK
  <2> QED
    BY <1>3, <2>1, <2>2 DEF ToolWorks, QueryRawPackets, RestoreRow, ExitTool
<1>4. CASE UNCHANGED <<upgradeVars, up, restoreVars>>
  BY <1>4 DEF upgradeVars, restoreVars, OpenersOK, IndexOK
<1> QED
  BY <1>1, <1>2, <1>3, <1>4
  DEF UpgradeNext, Tick, Pruning, Ingesting, processVars, upgradeAll, vars

\* Before the surplus is gone, time passes and scripts are started or killed.
LEMMA UntouchedStays ==
  ASSUME UpgradeIInv, Untouched, [UpgradeNext]_upgradeAll
  PROVE  (Untouched \/ Cleaned)' /\ UNCHANGED <<checkinSeq, old>>
<1>0. ~up /\ step["tool"] # "open" /\ step \in [Openers -> Steps]
      /\ up \in BOOLEAN
  BY DEF Untouched, UpgradeIInv, OpenersOK, Openers, TypeOK
<1>1. ASSUME NEW o \in Openers, Migrating(o), DeleteSurplus(o)
      PROVE  (Untouched \/ Cleaned)' /\ UNCHANGED <<checkinSeq, old>>
  BY <1>1, SurplusDeleted DEF DeleteSurplus, Migrating
<1>2. ASSUME \A o \in Openers : step'[o] \in {"closed", "dedupe"},
             UNCHANGED <<storeVars, ingestVars, retentionVars, old>>,
             UNCHANGED restoreVars, up' \in BOOLEAN,
             now' = now \/ AdvanceClock
      PROVE  (Untouched \/ Cleaned)' /\ UNCHANGED <<checkinSeq, old>>
  <2> USE DEF storeVars, checkinVars, ingestVars, retentionVars, restoreVars
  <2>1. now' \in Instants /\ now'.week =< MaxWeek /\ now.week =< now'.week
    <3>1. now \in [week : Nat, monday : BOOLEAN] /\ now.week =< MaxWeek
      BY DEF Untouched, TypeOK, Instants, Timely
    <3>2. CASE AdvanceClock
      BY <3>1, <3>2, MaxWeekAssumption DEF AdvanceClock, Instants
    <3> QED
      BY <1>2, <3>1, <3>2 DEF Instants
  <2>2. Timely'
    <3> now.week \in Nat /\ now'.week \in Nat
        /\ \A r \in rawPackets : r.at.week \in Nat
      BY <2>1 DEF Untouched, TypeOK, StoreTypeOK, RawRows, Instants
    <3> QED
      BY <1>2, <2>1 DEF Untouched, Timely
  <2>3. TypeOK'
    <3>1. StoreTypeOK' /\ IngestTypeOK'
      BY <1>2 DEF Untouched, TypeOK, StoreTypeOK, IngestTypeOK
    <3>2. RetentionTypeOK' /\ RestoreTypeOK'
      BY <1>2 DEF Untouched, TypeOK, RetentionTypeOK, RestoreTypeOK
    <3> QED
      BY <1>2, <2>1, <3>1, <3>2 DEF TypeOK
  <2>4. IdsAllocated' /\ HashesOf(checkins)' \subseteq HashesOf(rawPackets)'
    BY <1>2 DEF Untouched, IdsAllocated, HashesOf
  <2> QED
    BY <1>2, <2>2, <2>3, <2>4 DEF Untouched
<1>3. ASSUME NEW o \in Openers, Migrating(o), ~DeleteSurplus(o)
      PROVE  (Untouched \/ Cleaned)' /\ UNCHANGED <<checkinSeq, old>>
  <2>1. CreateTables(o) \/ AbortMigrate(o)
    BY <1>3
    DEF Migrating, MigrateStatement, DropOldIndex, CreateIndex, BackfillLinks,
        Step, Untouched
  <2>2. /\ \A x \in Openers : step'[x] \in {"closed", "dedupe"}
        /\ UNCHANGED storeVars
    BY <1>0, <2>1 DEF CreateTables, AbortMigrate, Step, Untouched
  <2>3. UNCHANGED restoreVars
    BY <1>3, <2>2 DEF Migrating, Openers
  <2> QED
    BY <1>2, <1>3, <2>2, <2>3 DEF Migrating
<1>4. CASE Tick /\ UNCHANGED upgradeVars
  BY <1>0, <1>2, <1>4 DEF Tick, upgradeVars, processVars, Untouched
<1>5. CASE UNCHANGED upgradeAll
  BY <1>0, <1>2, <1>5 DEF upgradeAll, vars, upgradeVars, processVars, Untouched
<1> QED
  BY <1>0, <1>1, <1>3, <1>4, <1>5
  DEF UpgradeNext, CrashServer, Crash, ToolWorks, Pruning, Ingesting

LEMMA UpgradeNextInv ==
  UpgradeIInv /\ [UpgradeNext]_upgradeAll => UpgradeIInv'
<1> SUFFICES ASSUME UpgradeIInv, [UpgradeNext]_upgradeAll PROVE UpgradeIInv'
  OBVIOUS
<1>1. OpenersOK' /\ IndexOK'
  BY OpenersStayOK
<1>2. CASE Untouched
  BY <1>1, <1>2, UntouchedStays DEF UpgradeIInv, OldRowsOK
<1>3. CASE Cleaned
  <2>1. Core /\ Core' /\ [Next]_vars /\ Cleaned' /\ old' = old
    BY <1>3, CleanedStays, StatementsAreSteps
    DEF Cleaned, UpgradeNext, Migrating, upgradeVars, upgradeAll
  <2>2. checkinSeq =< checkinSeq' /\ checkinSeq \in Nat /\ checkinSeq' \in Nat
    BY <2>1, NewIds DEF Core, TypeOK, StoreTypeOK
  <2>3. OldRowsOK'
    BY <2>1, <2>2 DEF UpgradeIInv, OldRowsOK, CheckinRows
  <2> QED
    BY <1>1, <2>1, <2>3 DEF UpgradeIInv
<1> QED
  BY <1>2, <1>3 DEF UpgradeIInv

LEMMA UpgradeInvariance == UpgradeSpec => []UpgradeIInv
BY UpgradeInitInv, UpgradeNextInv, PTL DEF UpgradeSpec

\* Whoever has opened the database finds it migrated, wherever the script of
\* the other process is or was when it died.
THEOREM OpenedDatabaseIsMigrated == UpgradeSpec => []OpenedAsOne
<1>1. UpgradeIInv => OpenedAsOne
  <2> SUFFICES ASSUME UpgradeIInv, NEW o \in Openers, step[o] = "open"
               PROVE  /\ index = "week" /\ checkins \cap old = Canonical(old)
                      /\ {LinkOf(c) : c \in Canonical(old)} \subseteq links
    BY DEF OpenedAsOne
  <2>1. index = "week" /\ Cleaned
    BY DEF UpgradeIInv, IndexOK, Untouched
  <2> QED
    BY <2>1 DEF Cleaned
<1> QED
  BY <1>1, UpgradeInvariance, PTL

\* No start fails at the unique index.
THEOREM StartsSucceed == UpgradeSpec => []IndexCanBeCreated
<1>1. UpgradeIInv => IndexCanBeCreated
  BY CoreHasUniqueSlots
  DEF UpgradeIInv, Untouched, Cleaned, IndexCanBeCreated
<1> QED
  BY <1>1, UpgradeInvariance, PTL

\* As soon as no surplus is left, the system with two scripts under way does
\* only what the system does in which opening the database is one step.
THEOREM MigrationIsOneStep ==
  UpgradeSpec => [][SlotsAreUnique => [Next]_vars]_upgradeAll
<1>1. UpgradeIInv /\ [UpgradeNext]_upgradeAll
        => [SlotsAreUnique => [Next]_vars]_upgradeAll
  BY UniqueSlotsGiveCore, StatementsAreSteps
<1> QED
  BY <1>1, UpgradeInvariance, PTL DEF UpgradeSpec

LEMMA FirstOfSlot ==
  ASSUME NEW rows, rows \subseteq CheckinRows, NEW c \in rows
  PROVE  \E d \in Canonical(rows) : SameSlot(c, d)
<1> DEFINE ids == {d.id : d \in {x \in rows : SameSlot(c, x)}}
<1>1. ids \subseteq Nat /\ c.id \in ids
  BY DEF CheckinRows, SameSlot
<1>2. PICK m \in ids : \A i \in ids : m =< i
  <2> HIDE DEF ids
  <2> QED
    BY <1>1, LeastElement
<1>3. PICK d \in rows : SameSlot(c, d) /\ d.id = m
  BY <1>2
<1>4. \A e \in rows : SameSlot(c, e) => d.id =< e.id
  BY <1>2, <1>3
<1> QED
  BY <1>3, <1>4 DEF Canonical, SameSlot

\* Nobody is taken from a week's board, whatever is removed from the table.
THEOREM SlotsStay == UpgradeSpec => SlotsKept
<1> DEFINE Kept == \A c \in checkins : \E d \in checkins' : SameSlot(c, d)
<1>1. UpgradeIInv /\ [UpgradeNext]_upgradeAll => [Kept]_upgradeAll
  <2> SUFFICES ASSUME UpgradeIInv, [UpgradeNext]_upgradeAll PROVE Kept
    OBVIOUS
  <2>1. CASE checkins \subseteq checkins'
    BY <2>1 DEF SameSlot
  <2>2. CASE Cleaned
    BY <2>1, <2>2, StatementsAreSteps, NextKeepsCheckins DEF Cleaned
  <2>3. CASE Untouched /\ Untouched'
    BY <2>1, <2>3, UntouchedStays DEF Untouched
  <2>4. CASE Untouched /\ Cleaned'
    <3>1. checkins \subseteq CheckinRows
          /\ Canonical(checkins) \subseteq checkins'
      BY <2>4, UntouchedStays
      DEF Untouched, Cleaned, TypeOK, StoreTypeOK, Canonical
    <3> QED
      BY <3>1, FirstOfSlot
  <2> QED
    BY <2>2, <2>3, <2>4, UntouchedStays DEF UpgradeIInv
<1> QED
  BY <1>1, UpgradeInvariance, PTL DEF UpgradeSpec, SlotsKept

-----------------------------------------------------------------------------
(***************************************************************************)
(* The export script.  Without the restore tool, what a query would return *)
(* only grows, so a query that runs later returns all there was before.    *)
(***************************************************************************)
Tables == {"packets", "checkins", "links", "observations"}

ExportTypeOK ==
  /\ exported \in {NotStarted} \cup 0..4
  /\ DOMAIN found = Tables
  /\ bundle = [t \in Tables |-> bundle[t]]

Queried(t) == \E i \in 1..exported : ExportOrder[i] = t

FoundStays ==
  exported # NotStarted =>
    \A t \in Tables :
      found[t] \subseteq IF Queried(t) THEN bundle[t] ELSE Selected[t]

LEMMA SelectedGrows ==
  ASSUME "restore" \notin Env, IInv, LinksRecent, restorePc = "idle",
         [Next]_vars
  PROVE  \A t \in Tables : Selected[t] \subseteq Selected'[t]
<1>1. checkins \subseteq checkins' /\ links \subseteq links' /\ Integrity'
  BY NextKeepsCheckins, NextLinksRecent, NextCore DEF IInv, Core
<1>2. ProtectedPacketHashes \subseteq ProtectedPacketHashes'
      /\ ProtectedPacketHashes' \subseteq HashesOf(rawPackets')
  BY <1>1 DEF ProtectedPacketHashes, HashesOf, Integrity
<1>3. Referenced(rawPackets) \subseteq Referenced(rawPackets)'
  BY <1>2, RowsOutlive DEF Referenced, IInv
<1>4. Referenced(observations) \subseteq Referenced(observations)'
  <2> SUFFICES ASSUME NEW x \in observations, x.hash \in ProtectedPacketHashes
               PROVE  x \in observations'
    BY <1>2 DEF Referenced
  <2>1. PICK r \in rawPackets' : r.hash = x.hash
    BY <1>2 DEF HashesOf
  <2> QED
    BY <2>1, ObservationsOutlive DEF IInv
<1> QED
  BY <1>1, <1>3, <1>4 DEF Selected, Tables

LEMMA ExportNextType ==
  ASSUME ExportTypeOK, [ExportNext]_<<vars, exportVars>> PROVE ExportTypeOK'
<1>1. CASE StartExport
  BY <1>1 DEF StartExport, ExportTypeOK, Selected, Tables, NotStarted
<1>2. CASE ExportQuery
  <2> DEFINE t == ExportOrder[exported']
  <2>1. bundle' = [bundle EXCEPT ![t] = Selected[t]] /\ found' = found
        /\ exported' \in 0..4
    BY <1>2 DEF ExportQuery
  <2> HIDE DEF t
  <2> QED
    BY <2>1 DEF ExportTypeOK
<1>3. CASE UNCHANGED exportVars
  BY <1>3 DEF exportVars, ExportTypeOK
<1> QED
  BY <1>1, <1>2, <1>3 DEF ExportNext

LEMMA QueryFindsAll ==
  ASSUME ExportTypeOK, FoundStays, ExportQuery, UNCHANGED vars
  PROVE  FoundStays'
<1> DEFINE t == ExportOrder[exported']
<1>1. exported \in 0..3 /\ exported' = exported + 1 /\ t \in Tables
  BY DEF ExportQuery, ExportOrder, Tables
<1>2. bundle' = [bundle EXCEPT ![t] = Selected[t]] /\ found' = found
  BY DEF ExportQuery
<1>3. ASSUME NEW u \in Tables
      PROVE  found[u] \subseteq IF Queried(u)' THEN bundle'[u] ELSE Selected[u]
  <2>1. Queried(u)' <=> Queried(u) \/ u = t
    BY <1>1 DEF Queried
  <2>2. ~Queried(t)
    BY <1>1 DEF Queried, ExportOrder
  <2>3. found[u] \subseteq IF Queried(u) THEN bundle[u] ELSE Selected[u]
    BY <1>1 DEF FoundStays, NotStarted
  <2> HIDE DEF t
  <2>4. bundle'[u] = IF u = t THEN Selected[t] ELSE bundle[u]
    BY <1>1, <1>2 DEF ExportTypeOK
  <2> QED
    BY <2>1, <2>2, <2>3, <2>4
<1>4. Selected' = Selected
  BY DEF vars, storeVars, checkinVars, Selected, Referenced,
     ProtectedPacketHashes, HashesOf
<1> QED
  BY <1>2, <1>3, <1>4 DEF FoundStays

\* What was there when the script was started is in the bundle.
THEOREM ExportMissesNothing ==
  ASSUME "restore" \notin Env
  PROVE  ExportSpec => []NothingFoundIsMissing
<1> DEFINE J == LinksRecent /\ restorePc = "idle"
           ExportIInv == IInv /\ J /\ ExportTypeOK /\ FoundStays
<1>1. ExportInit => ExportIInv
  BY InitIInv, InitLinksRecent
  DEF ExportInit, Init, RestoreInit, ExportTypeOK, EmptyBundle, Tables,
      FoundStays
<1>2. ExportIInv /\ [ExportNext]_<<vars, exportVars>> => ExportIInv'
  <2> SUFFICES ASSUME ExportIInv, [ExportNext]_<<vars, exportVars>>
               PROVE  ExportIInv'
    OBVIOUS
  <2>1. [Next]_vars
    BY DEF ExportNext
  <2>2. IInv' /\ J' /\ ExportTypeOK'
    BY <2>1, NextIInv, NextLinksRecent, ExportNextType
  <2>3. ASSUME UNCHANGED exportVars PROVE FoundStays'
    <3>1. ASSUME exported # NotStarted, NEW t \in Tables
          PROVE  found[t] \subseteq
                   IF Queried(t) THEN bundle[t] ELSE Selected'[t]
      BY <2>1, <3>1, SelectedGrows DEF FoundStays
    <3> QED
      BY <2>3, <3>1 DEF FoundStays, exportVars, Queried
  <2>4. ASSUME StartExport, UNCHANGED vars PROVE FoundStays'
    <3>1. exported' = 0 /\ found' = Selected /\ Selected' = Selected
      BY <2>4
      DEF StartExport, vars, storeVars, checkinVars, Selected, Referenced,
          ProtectedPacketHashes, HashesOf
    <3>2. \A t \in Tables : ~Queried(t)'
      BY <3>1 DEF Queried
    <3> QED
      BY <3>1, <3>2 DEF FoundStays
  <2>5. ASSUME ExportQuery, UNCHANGED vars PROVE FoundStays'
    BY <2>5, QueryFindsAll
  <2> QED
    BY <2>2, <2>3, <2>4, <2>5 DEF ExportNext
<1>3. ExportIInv => NothingFoundIsMissing
  <2> SUFFICES ASSUME ExportIInv, exported = 4, NEW t \in Tables
               PROVE  found[t] \subseteq bundle[t]
    BY DEF NothingFoundIsMissing, Exported, ExportTypeOK
  <2>1. Queried(t)
    BY DEF Queried, ExportOrder, Tables
  <2> QED
    BY <2>1 DEF FoundStays, NotStarted
<1> QED
  BY <1>1, <1>2, <1>3, PTL DEF ExportSpec

(***************************************************************************)
(* The links of the exported check-ins.  Unless statements fail a check-in *)
(* has its link from the start and keeps it, so the later query finds it.  *)
(***************************************************************************)
CheckinsLinked ==
  /\ exported \in 2..4 => bundle.checkins \subseteq checkins
  /\ exported \in 3..4 => \A c \in bundle.checkins : LinkOf(c) \in bundle.links

\* In the bundle a check-in has its link.
THEOREM ExportKeepsLinks ==
  ASSUME "busy" \notin Env
  PROVE  ExportSpec => []ExportedCheckinsHaveLinks
<1> DEFINE ExportIInv == IInv /\ LinkedFirst /\ ExportTypeOK /\ CheckinsLinked
<1>1. ExportInit => ExportIInv
  BY InitIInv
  DEF ExportInit, Init, StoreInit, IngestInit, LinkedFirst, ExportTypeOK,
      EmptyBundle, Tables, CheckinsLinked, NotStarted
<1>2. ExportIInv /\ [ExportNext]_<<vars, exportVars>> => ExportIInv'
  <2> SUFFICES ASSUME ExportIInv, [ExportNext]_<<vars, exportVars>>
               PROVE  ExportIInv'
    OBVIOUS
  <2>1. [Next]_vars
    BY DEF ExportNext
  <2>2. IInv' /\ LinkedFirst' /\ ExportTypeOK'
    BY <2>1, NextIInv, NextLinkedFirst, ExportNextType
  <2>3. ASSUME UNCHANGED exportVars PROVE CheckinsLinked'
    BY <2>1, <2>3, NextKeepsCheckins DEF CheckinsLinked, exportVars, IInv
  <2>4. ASSUME StartExport PROVE CheckinsLinked'
    BY <2>4 DEF StartExport, CheckinsLinked
  <2>5. ASSUME ExportQuery, UNCHANGED vars PROVE CheckinsLinked'
    <3> DEFINE t == ExportOrder[exported']
    <3>1. exported \in 0..3 /\ exported' = exported + 1 /\ checkins' = checkins
          /\ bundle' = [bundle EXCEPT ![t] = Selected[t]]
      BY <2>5 DEF ExportQuery, vars, storeVars, checkinVars
    <3>2. exported' = 2 => bundle'.checkins = checkins
      BY <3>1 DEF ExportOrder, Selected, ExportTypeOK, Tables
    <3>3. exported' # 2 => bundle'.checkins = bundle.checkins
      BY <3>1 DEF ExportOrder, ExportTypeOK, Tables
    <3>4. exported' = 3 => bundle'.links = links
      BY <3>1 DEF ExportOrder, Selected, ExportTypeOK, Tables
    <3>5. exported' = 4 => bundle'.links = bundle.links
      BY <3>1 DEF ExportOrder, ExportTypeOK, Tables
    <3> HIDE DEF t
    <3> QED
      BY <3>1, <3>2, <3>3, <3>4, <3>5 DEF CheckinsLinked, LinkedFirst
  <2> QED
    BY <2>2, <2>3, <2>4, <2>5 DEF ExportNext
<1>3. ExportIInv => ExportedCheckinsHaveLinks
  BY DEF ExportedCheckinsHaveLinks, Exported, CheckinsLinked
<1> QED
  BY <1>1, <1>2, <1>3, PTL DEF ExportSpec

-----------------------------------------------------------------------------
(***************************************************************************)
(* The backup script.  While no checkpoint is under way the file holds the *)
(* database as some transaction left it, and a copy during which no page   *)
(* is moved is a copy of that.                                             *)
(***************************************************************************)
BackupTypeOK ==
  /\ commits \in Seq(SUBSET Pages)
  /\ target \in 0..Len(commits)
  /\ copied \in 0..PageCount
  /\ overlapped \in BOOLEAN
  /\ file = [p \in Pages |-> file[p]]
  /\ copy = [p \in Pages |-> copy[p]]

FileIsADatabase ==
  target = 0 => \E n \in 0..Len(commits) : file = DatabaseAt(n)

CopyIsOfADatabase ==
  ~overlapped /\ copied > 0 =>
    \E n \in 0..Len(commits) :
      /\ \A p \in 1..copied : copy[p] = Version(n, p)
      /\ copied < PageCount => file = DatabaseAt(n)

BackupIInv == BackupTypeOK /\ FileIsADatabase /\ CopyIsOfADatabase

LEMMA EmptyDatabase == DatabaseAt(0) = [p \in Pages |-> 0]
<1>1. ASSUME NEW p PROVE {0} \cup {k \in 1..0 : p \in commits[k]} = {0}
  OBVIOUS
<1>2. Max({0}) = 0
  BY DEF Max
<1> QED
  BY <1>1, <1>2 DEF DatabaseAt, Version

LEMMA BackupInitInv == BackupInit => BackupIInv
<1> SUFFICES ASSUME BackupInit PROVE BackupIInv
  OBVIOUS
<1>1. BackupTypeOK
  <2>1. commits \in Seq(SUBSET Pages) /\ target \in 0..Len(commits)
    BY DEF BackupInit
  <2>2. file = [p \in Pages |-> file[p]] /\ copy = [p \in Pages |-> copy[p]]
    BY DEF BackupInit
  <2>3. copied = 0 /\ overlapped \in BOOLEAN
    BY DEF BackupInit
  <2> QED
    BY <2>1, <2>2, <2>3, BackupAssumption DEF BackupTypeOK
<1>2. FileIsADatabase
  BY EmptyDatabase DEF BackupInit, FileIsADatabase
<1> QED
  BY <1>1, <1>2 DEF BackupInit, BackupIInv, CopyIsOfADatabase

\* A commit does not change what earlier transactions left.
LEMMA HistoryStays ==
  ASSUME BackupTypeOK, Commit
  PROVE  /\ commits' \in Seq(SUBSET Pages) /\ Len(commits') = Len(commits) + 1
         /\ \A n \in 0..Len(commits) :
              /\ DatabaseAt(n)' = DatabaseAt(n)
              /\ \A p \in Pages : Version(n, p)' = Version(n, p)
<1>1. PICK pages \in SUBSET Pages : commits' = Append(commits, pages)
  BY DEF Commit
<1>2. /\ commits' \in Seq(SUBSET Pages) /\ Len(commits') = Len(commits) + 1
      /\ \A k \in 1..Len(commits) : commits'[k] = commits[k]
  BY <1>1 DEF BackupTypeOK
<1>3. ASSUME NEW n \in 0..Len(commits), NEW p
      PROVE  Version(n, p)' = Version(n, p)
  <2>1. {k \in 1..n : p \in commits'[k]} = {k \in 1..n : p \in commits[k]}
    BY <1>2 DEF BackupTypeOK
  <2> QED
    BY <2>1 DEF Version
<1> QED
  BY <1>2, <1>3 DEF DatabaseAt

LEMMA CopyPageInv == BackupIInv /\ CopyPage => BackupIInv'
<1> SUFFICES ASSUME BackupIInv, CopyPage PROVE BackupIInv'
  OBVIOUS
<1> USE DEF BackupIInv
<1>1. /\ copied \in 0..PageCount - 1 /\ copied' = copied + 1
      /\ copy' = [copy EXCEPT ![copied'] = file[copied']]
      /\ UNCHANGED <<commits, file, target>>
      /\ overlapped' = (overlapped \/ target > 0)
  BY BackupAssumption DEF CopyPage, BackupTypeOK
<1>2. BackupTypeOK'
  <2>1. /\ commits' \in Seq(SUBSET Pages) /\ target' \in 0..Len(commits')
        /\ overlapped' \in BOOLEAN /\ file' = [p \in Pages |-> file'[p]]
    BY <1>1 DEF BackupTypeOK
  <2>2. copied' \in 0..PageCount
    BY <1>1, BackupAssumption
  <2>3. copy' = [p \in Pages |-> copy'[p]]
    BY <1>1 DEF BackupTypeOK
  <2> QED
    BY <2>1, <2>2, <2>3 DEF BackupTypeOK
<1>5. \A n, p : DatabaseAt(n)' = DatabaseAt(n) /\ Version(n, p)' = Version(n, p)
  BY <1>1 DEF DatabaseAt, Version
<1>3. FileIsADatabase'
  BY <1>1, <1>5 DEF FileIsADatabase
<1>4. CopyIsOfADatabase'
  <2> SUFFICES ASSUME ~overlapped'
               PROVE  \E n \in 0..Len(commits) :
                        /\ \A p \in 1..copied' : copy'[p] = Version(n, p)
                        /\ file = DatabaseAt(n)
    BY <1>1, <1>5 DEF CopyIsOfADatabase
  <2>1. ~overlapped /\ target = 0
    <3>1. ~overlapped /\ ~(target > 0)
      BY <1>1
    <3> QED
      BY <3>1 DEF BackupTypeOK
  <2>2. PICK n \in 0..Len(commits) :
          /\ \A p \in 1..copied : copy[p] = Version(n, p)
          /\ file = DatabaseAt(n)
    <3>1. CASE copied = 0
      BY <2>1, <3>1 DEF FileIsADatabase
    <3>2. CASE copied > 0 /\ copied < PageCount
      BY <2>1, <3>2 DEF CopyIsOfADatabase
    <3> QED
      BY <1>1, <3>1, <3>2, BackupAssumption
  <2>3. ASSUME NEW p \in 1..copied' PROVE copy'[p] = Version(n, p)
    <3>1. p \in Pages /\ (p = copied' \/ p \in 1..copied)
      BY <1>1, BackupAssumption DEF Pages
    <3> QED
      BY <1>1, <2>2, <3>1 DEF BackupTypeOK, DatabaseAt
  <2> QED
    BY <2>2, <2>3
<1> QED
  BY <1>2, <1>3, <1>4

LEMMA MovePageInv == BackupIInv /\ MovePage => BackupIInv'
<1> SUFFICES ASSUME BackupIInv, MovePage PROVE BackupIInv'
  OBVIOUS
<1> USE DEF BackupIInv
<1>1. /\ target \in 1..Len(commits) /\ UNCHANGED <<commits, copied, copy>>
      /\ target' = IF file' = DatabaseAt(target) THEN 0 ELSE target
      /\ overlapped' = (overlapped \/ copied \in 1..PageCount - 1)
  BY DEF MovePage, BackupTypeOK
<1>2. BackupTypeOK'
  <2>1. file' = [p \in Pages |-> file'[p]]
    BY DEF MovePage, BackupTypeOK
  <2>2. overlapped' \in BOOLEAN
    BY <1>1
  <2>3. target' \in 0..Len(commits)
    BY <1>1
  <2> QED
    BY <1>1, <2>1, <2>2, <2>3 DEF BackupTypeOK
<1>3. FileIsADatabase'
  BY <1>1 DEF FileIsADatabase, DatabaseAt, Version
<1>4. CopyIsOfADatabase'
  <2> SUFFICES ASSUME ~overlapped', copied > 0
               PROVE  \E n \in 0..Len(commits) :
                        /\ \A p \in 1..copied : copy[p] = Version(n, p)
                        /\ ~(copied < PageCount)
    BY <1>1 DEF CopyIsOfADatabase, Version
  <2>1. ~overlapped /\ ~(copied \in 1..PageCount - 1)
    BY <1>1
  <2>2. ~(copied < PageCount)
    BY <2>1, BackupAssumption DEF BackupTypeOK
  <2> QED
    BY <2>1, <2>2 DEF CopyIsOfADatabase
<1> QED
  BY <1>2, <1>3, <1>4

LEMMA BackupNextInv == BackupIInv /\ [BackupNext]_backupVars => BackupIInv'
<1> SUFFICES ASSUME BackupIInv, [BackupNext]_backupVars PROVE BackupIInv'
  OBVIOUS
<1>1. CASE Commit
  <2>1. UNCHANGED <<file, target, copied, copy, overlapped>>
    BY <1>1 DEF Commit
  <2>2. BackupTypeOK'
    BY <1>1, <2>1, HistoryStays DEF BackupIInv, BackupTypeOK
  <2>3. FileIsADatabase'
    BY <1>1, <2>1, HistoryStays DEF BackupIInv, BackupTypeOK, FileIsADatabase
  <2>4. CopyIsOfADatabase'
    <3> SUFFICES ASSUME ~overlapped, copied > 0
                 PROVE  \E n \in 0..Len(commits') :
                          /\ \A p \in 1..copied : copy[p] = Version(n, p)'
                          /\ copied < PageCount => file = DatabaseAt(n)'
      BY <2>1 DEF CopyIsOfADatabase
    <3>1. PICK n \in 0..Len(commits) :
            /\ \A p \in 1..copied : copy[p] = Version(n, p)
            /\ copied < PageCount => file = DatabaseAt(n)
      BY DEF BackupIInv, CopyIsOfADatabase
    <3>2. 1..copied \subseteq Pages
      BY BackupAssumption DEF BackupIInv, BackupTypeOK, Pages
    <3>3. n \in 0..Len(commits')
      BY <1>1, HistoryStays DEF BackupIInv, BackupTypeOK
    <3> QED
      BY <1>1, <3>1, <3>2, <3>3, HistoryStays DEF BackupIInv
  <2> QED
    BY <2>2, <2>3, <2>4 DEF BackupIInv
<1>2. CASE /\ UNCHANGED <<commits, file, copied, copy, overlapped>>
           /\ target' = target \/ (target' = Len(commits) /\ target = 0)
  <2>1. BackupTypeOK'
    BY <1>2 DEF BackupIInv, BackupTypeOK
  <2>2. FileIsADatabase'
    BY <1>2 DEF BackupIInv, FileIsADatabase, DatabaseAt, Version
  <2>3. CopyIsOfADatabase'
    BY <1>2 DEF BackupIInv, CopyIsOfADatabase, DatabaseAt, Version
  <2> QED
    BY <2>1, <2>2, <2>3 DEF BackupIInv
<1>3. CheckpointWal \/ UNCHANGED backupVars
        => /\ UNCHANGED <<commits, file, copied, copy, overlapped>>
           /\ target' = target \/ (target' = Len(commits) /\ target = 0)
  BY DEF CheckpointWal, backupVars
<1> QED
  BY <1>1, <1>2, <1>3, CopyPageInv, MovePageInv DEF BackupNext

\* A copy that no checkpoint disturbed is the database as some transaction
\* left it.
THEOREM BackupsAreSnapshots == BackupSpec => []BackupIsASnapshot
<1>1. BackupIInv => BackupIsASnapshot
  <2> SUFFICES ASSUME BackupIInv, copied = PageCount, ~overlapped
               PROVE  \E n \in 0..Len(commits) : copy = DatabaseAt(n)
    BY DEF BackupIsASnapshot
  <2>1. PICK n \in 0..Len(commits) : \A p \in Pages : copy[p] = Version(n, p)
    BY BackupAssumption DEF BackupIInv, CopyIsOfADatabase, Pages
  <2> QED
    BY <2>1 DEF BackupIInv, BackupTypeOK, DatabaseAt
<1> QED
  BY <1>1, BackupInitInv, BackupNextInv, PTL DEF BackupSpec
=============================================================================
