# MeshMonday in TLA+

MeshMonday listens to a MeshCore radio network through MQTT.  Whoever sends a
message with `#meshmonday` on a Monday gets a tile on that week's board, and
points on a leaderboard.  This directory holds TLA+ models of the program,
their TLC configurations, and TLAPS proofs.

    tlc -config core.cfg MCMeshMonday.tla        # model-check one run
    tlapm MeshMondayProofs.tla                   # check one module's proofs

`PROJECT.json` lists components, runs, mutants, hazards, findings and theorems,
and maps every definition to the lines it models.

## 1. Inventory

| component | state it keeps | operations | hard because |
|---|---|---|---|
| Ingest (`internal/ingest`) | per call: message, `inserted` | `HandleMessage`: store packet, store observation, insert link, insert check-in | four separate transactions; each may fail or be the last before a crash; duplicates return early |
| Storage (`internal/storage/sqlite.go`) | tables `raw_packets`, `packet_observations`, `checkin_packets`, `checkins`, `leaderboard_snapshots` | inserts, cascading delete, `Migrate`, board and leaderboard queries | shared by handlers, retention, web requests and a second process |
| Retention (`internal/storage/retention.go`) | cutoff, protected hashes, scan position, ids to delete | `PruneRawPackets`, hourly | works for minutes on hashes it read at the start, while handlers insert |
| Restore tool (`cmd/restorecheckinpackets`) | an open query | inserts missing links | a second process beside the server, with its own configuration |
| Server (`cmd/server`) | goroutines | start, retention loop, shutdown | shutdown does not wait for handlers |
| Calendar (`internal/checkins`) | none | is it Monday, Monday of the week, number of weeks | summer time |
| Extraction (`internal/checkins`) | none | packet to user and message, decryption | which names are one user |
| Leaderboard (`internal/leaderboard`) | none | totals, streaks, ranking, weeks of the season | in-place deduplication, map order; totals and weeks begin at different days |
| MQTT consumer (`internal/mqtt`) | subscriptions, connection | connect, subscribe, resubscribe | callbacks race registration and reconnection |
| Web server (`internal/web`) | table `leaderboard_snapshots` | pages and JSON from the queries above; replaces the snapshots | reads between the four statements of a handler; concurrent requests write |
| Browser script (`web/static/app.js`) | filter, timers, frames | filter rows, poll and replace the page | timers and frames outlive what they refer to |
| Packet decoding (`internal/meshcore`) | none | frame to type, path and payload | optional fields and variable sizes before the payload |
| Configuration (`internal/config`) | settings | regions, channels and their keys | the same region or channel is spelled in several places |
| Scripts (`scripts`) | the copy | backup, export | read a database that is being written |
| Others | | space statistics, `devseed`, `replay`, logging | sequential; not modelled |

Interaction: the MQTT client calls `HandleMessage`; handlers, the retention
goroutine and web requests share one pool of SQLite connections (WAL,
`foreign_keys=ON`, 30 s `busy_timeout`); the restore tool opens the same file
from another process.  No lock or transaction spans two statements of any of
them except for the leaderboard snapshots.

What makes the components correct:

* ingest: a tagged Monday packet puts its sender on the board of its week; a
  check-in belongs to a packet heard on the Monday of its week;
* storage: no dangling rows, a hash stored once, one check-in per user and
  week; what a tile shows does not shrink;
* retention: never deletes a check-in, a link or a retained Monday's packet,
  and does delete everything else;
* calendar: a week start is the Monday of the local week, in any zone;
* leaderboard: streaks are the longest runs, the ranking is determined, a ring
  is full for those who missed no week;
* web server: the snapshots are those of one computation, answers do not go back;
* MQTT consumer: on a connection that lasts, every topic is subscribed;
* browser script: the rows shown are those that match the search box;
* decoding, extraction: all copies of a message are the same check-in, every
  channel and region the operator configures is heard and shown, and who is
  asked to send a message gets a tile for it;
* scripts: a backup is a state of the database, an export can be imported.

## 2. Modules

    Clock        weeks and Mondays, as everything else sees time
    Store        tables, statements, constraints        EXTENDS Clock
    Ingest       HandleMessage                          EXTENDS Store
    Restore      cmd/restorecheckinpackets              EXTENDS Ingest
    Retention    PruneRawPackets                        EXTENDS Store
    Board        the queries behind the pages           EXTENDS Store
    MeshMonday   all of these with the server process   EXTENDS Restore, Retention, Board
    CheckinBoard the abstract specification             (INSTANCE in MeshMonday)
    MeshMondayInv     the inductive invariant           EXTENDS MeshMonday
    MCMeshMonday      instances for TLC                 EXTENDS MeshMondayInv
    Calendar     dates in zones with summer time        (INSTANCE of Clock)
    Upgrade      Migrate, statement by statement        EXTENDS MeshMonday
    Export       the export script beside the server    EXTENDS MeshMonday
    Backup       the backup script and the WAL
    BusyRetry    the time a call can take
    Snapshots    concurrent leaderboard requests
    MqttConsumer internal/mqtt
    LeaderboardFilter   the search box of the page
    Ranking      Compute: streaks, entries, ranking
    Leaderboard  check-ins that Compute is given        EXTENDS Ranking
    Season       the rings                              EXTENDS Calendar, Ranking
    MeshPacket   frames and DecodePacket
    Extract      channels, keys, names
    Regions      region codes, from settings to the filter

    MCCalendar   zones and seasons, for TLC             EXTENDS Season
    MCLive       server, requests, search box,          EXTENDS MCMeshMonday, Snapshots,
                 calendar, for TLC                              LeaderboardFilter, MCCalendar
    MCEdges      components around the database         EXTENDS MqttConsumer, MeshPacket, Regions,
                                                                Extract, BusyRetry, Leaderboard
    MCDatabase   migration, scripts, for TLC            EXTENDS Upgrade, Export, Backup

    Induction       induction over numbers, folds       (the lemmas others cite)
    MeshMondayProofs  theorems about the server         EXTENDS MeshMondayInv
    BoardProofs     what the board shows                EXTENDS MeshMondayProofs
    DatabaseProofs  migration, export, backup           EXTENDS Upgrade, Export, Backup, BoardProofs
    RankingProofs   lemmas about Ranking                EXTENDS Ranking, Induction
    SeasonProofs    dates and rings                     EXTENDS Season, RankingProofs
    PageProofs      snapshots, search box               EXTENDS Snapshots, LeaderboardFilter
    EdgesProofs     the other components                EXTENDS those of MCEdges, RankingProofs

`MCLive`, `MCCalendar`, `MCEdges` and `MCDatabase` put components that share no state
into one run.  Their variable `working` (`hourly` in `MCCalendar`) is chosen at
the beginning and says whose behaviour this is; the others rest in a state of
theirs in which no action is enabled that is treated fairly, so that the
fairness of one does not rule out the behaviours of another.

**Time.**  `Clock` reduces an instant to its week and whether it is a Monday.
`Calendar` shows, hour by hour, that the dates computed in a real zone behave
so (property `ClockSpec`, an instance of `Clock`).

**Rows.**  A table is a set of records.  A packet is its hash; ids are
`AUTOINCREMENT`, so they grow and are never used again.  Columns that nothing
reads back are left out.  A statement is one action: SQLite executes it alone,
with its constraints, conflict clause and cascades.

**A call of `HandleMessage`** is a member of `Handlers`; `pc` names its next
statement.

| action | code | what it keeps of it |
|---|---|---|
| `Receive` | `buildMessage`, lines 50-72 | any packet, observer and region; `ObservedAt` is the clock |
| `StoreRaw` | 74-96 | `inserted` is FALSE for a known hash; a busy database ends the call |
| `Observe` | 97-115 | a failure is logged; then the three early returns |
| `Link` | 117-125 | a failure is logged, the call goes on |
| `Checkin` | 126-142 | `ON CONFLICT DO NOTHING` on hash and on week and user |

`IngestSender` is `ExtractFromPacket` with the keys of the server's
configuration, `RestoreSender` the same with the tool's: the operator runs the
tool after the keys have changed ("with current parsing/decryption rules").

**A prune** goes `idle`, `protect`, `scan`, `delete`, `scan`, ... `idle`.
`StartPrune` reads the clock, `ReadProtected` the hashes, `ScanRows` a batch;
`DeleteRows` deletes one chunk and so happens several times per batch.  After
deletions the scan begins again at the same `lastId`, as in the code.
`AbortPrune` is any error or cancellation on the way.

**Several handlers.**  The MQTT client calls handlers one after the other
(`OrderMatters`, its default, is not changed).  The models allow a set of
concurrent calls all the same: nothing in `internal/ingest` depends on the
default, `cmd/replay` calls it from another process, and what is proved holds
for any set.

**Environment.**  `Env` says what may go wrong: `"busy"` (a statement is
`SQLITE_BUSY` beyond its retries), `"crash"` (the process dies, or exits
without waiting for its handlers), `"restore"` (the tool runs beside the
server).  Messages may be lost, repeated, reordered and reported by any
observer under every `Env`, since `Receive` takes any packet at any time.

**`Migrate`** runs whenever the server or the tool opens the database.  In
`MeshMonday` it is one action: with the unique index in place only its last
statement, which adds links, changes rows.  `Upgrade` starts from a database of
an older release, whose index allowed a check-in per region, and makes each
statement an action of the server or of the tool; `OpenedAsOne` says that one
action is what it amounts to for whoever has opened the database.

**An assumption about time.**  `NoHandlerOutlivesItsWeek`: a handler that heard a
packet on Monday is not still at work on the next Monday.  `BusyRetry` counts the
time of a call, four statements tried at most 16 times for at most 30 seconds,
and bounds it by half an hour (`HandlerIsBrief`).
Without it a check-in could be filed for a week that a prune has given up.

**`MqttConsumer`.**  A caller of `Subscribe`, the `OnConnect` of each connection
and `connectMQTTWithRetry` are goroutines of their own; the client is the paho
library as the package uses it (automatic reconnection, clean sessions, tokens
that fail with the connection).  A refusal by the broker may or may not be an
error of the token.  What messages do is `Receive` of `Ingest`.

**`Snapshots`.**  A request goes through `Query`, `DeleteAll`, `InsertRow` per row,
`Commit`, `Respond`; `Fail` is any error in between, with the deferred
`Rollback`.  Check-ins are numbered, so a computation is the number it read.

**`LeaderboardFilter`.**  JavaScript runs one callback at a time, so a callback is
an action: `Input`, `Frame`, `TimerFires`, `FadeOut` and `FadeIn` (transitions),
`ReplaceMain` (the answer of a poll).  The script cancels no animation frame of an
earlier input, and its timer waits for none; neither does the model.  A history
variable, `overtaken`, which no action reads, keeps the rows whose frame was
still pending when the next input, which they do not match, or the timer came.

**`MeshPacket`** sends a message as a frame and lets repeaters copy it: the
encoder is the mesh, the decoder is `DecodePacket`.  **`Extract`** abstracts text to
the name in front of `: ` and whether the rest has the tag; a packet fits the
keys its MAC can be verified with.  **`Regions`** keeps words and their case.

**`Backup`** knows of SQLite only which version of a page is in the file, and of
`cp` that it reads page by page.  **`Export`** adds the script to `MeshMonday`: its
four queries see the database when their turn comes.

**`Season`** takes the weeks from `Calendar` and totals and streaks from `Ranking`,
for the rows with check-ins from the day tracking begins.

## 3. Runs

Twelve runs; six hold, six show that a sentence of the repository does not.

| run | module | instance | shows |
|---|---|---|---|
| `core` | `MCMeshMonday` | no failures; 3 packets (2 tagged, 1 user), 2 observers, 2 handlers, 2 rows ever stored | `TaggedPacketsOnBoard`, `BadgesComplete`, `LinksKept` |
| `faults` | `MCMeshMonday` | busy statements, crashes and the restore tool; 2 packets, 1 tagged for the server, both for the tool, 3 rows | `IInv`, `Integrity`, `CheckinFromMonday`, `ScannedRowsRetained`, `CheckinsKept`, `RecentMondaysKept`, `BoardSpec` |
| `crashes` | `MCMeshMonday` | crashes; 2 packets, 2 observers, 2 regions, 3 rows | `CheckinsPassTheirRegion`, `TilesStay` |
| `live` | `MCLive` | fair; the server with 3 packets, 1 handler and 3 rows | `TaggedPacketAppears`, `AmbientTrafficPruned` |
| | | fair; two leaderboard requests, two check-ins, the server may stop | `TableIsOneComputation`, `AnswersNeverGoBack`, `LockIsReleased` |
| | | fair; three persons, four queries; inputs, frames and timer in any order | `ShowsMatches`, `HolesClose` |
| | | hour by hour over two weeks and a day, 184 zones: three offsets, summer time beginning or ending on each of eight days, at midnight to 3 a.m. | `WeekStartIsMonday`, `WeeksCountedUnlessSummerBegins`, `ClockSpec` |
| | | every twelve hours, a user who checks in on any of the Mondays, tracking from either of two Mondays | `FullRingsAreEarned`, `AttendanceFillsTheRings` |
| `edges` | `MCEdges` | two topics, two connections, refusals, fair | `TopicsCovered`, `SubscriptionsEstablished` |
| | | frames of two payload types on four routes, one to three bytes per hop, two repeaters, every prefix | `CopiesCarryTheMessage`, `CutFramesDoNotShift` |
| | | lists of two entries over three regions, blanks and words for all, two messages | `ShownIfAskedFor` |
| | | any two spellings of channels, keys that share a hash byte, MACs that fit wrong keys, all kinds of names, two messages | `EveryListedChannelIsHeard`, `TilesHaveSenders` |
| | | four statements, three retries, short times | `HandlerIsBrief` |
| | | up to five check-ins of two users on five Mondays, repeated and in any order | `StreaksAreLongest`, `RankingIsDetermined` |
| `database` | `MCDatabase` | server and tool migrate an old database, killed anywhere: two packets of a user in two regions, any check-ins of them the old index allowed | `OpenedAsOne`, `IndexCanBeCreated`, `SlotsKept` |
| | | the export script beside the server, which crashes, prunes and receives | `NothingFoundIsMissing`, `ExportedCheckinsHaveLinks` |
| | | the backup script: three pages, two transactions | `BackupIsASnapshot` |
| `restore_race` | `MCMeshMonday` | the restore tool | `LinksKept` violated |
| `crash_window` | `MCMeshMonday` | crashes | `ReportedPacketsOnBoard` violated |
| `zero_retain` | `MCMeshMonday` | no failures | `OnlyLinkedRowsKept` violated |
| `spring_season` | `MCCalendar` | Los Angeles in March | `WeeksCountedInclusive` violated |
| `midnight_gap` | `MCCalendar` | Havana in March | `WeekStartIsMonday` violated |
| `stale_frame` | `LeaderboardFilter` | two persons, two queries | `FilterShowsMatches` violated |

The type invariants and a few auxiliary invariants are not in any run of their
own: they are conjuncts of `IInv`, or proved (section 4).  So is
`TriesUntilConnected`, that the connect loop of the consumer ends only when there
has been a connection.

**Bounds.**  `MaxWeek = 1`: two Mondays, so a packet of the first may be kept by
its check-in, or become prunable, in the second.  `Retain = 0`: the only value
at which anything expires within two weeks; what it shifts is proved for any
value.  `MaxRaw = 3`: a packet can be stored, pruned and stored again beside
another.  `core` has only two rows ever stored; its two handlers and two
observers are interchangeable (`Interchangeable`, its symmetry set; no
property of the run tells them apart); what it shows is proved for any number.  `ScanBatch` 1 or 2 and `DeleteChunk = 1`: batches and chunks have
boundaries between any two rows.  Two handlers, observers, regions, packets of
one user: enough for every conflict of two.  The proofs cover all other values.
Two connections let an old `OnConnect` be at work beside a new one; two requests
are all that can compete for a lock; three persons are one that matches before
and after, one that changes, and one that never matches.  The bytes of
a payload are those that could be taken for a path length; headers are of payload
version 0, the only one the decoder takes.  An old database has the keys and
`AUTOINCREMENT` counters of its tables and is opened in any week not before its
rows.

**Deadlock** is checked in the six runs of `MCMeshMonday`: the retention loop
always has a next step.  Elsewhere something ends: the clock on the last day, a
client that was closed, a call that returns, a script that is done, requests when
all check-ins are answered; those configurations turn the check off.

**Fairness** (`Fairness`, used by `live`): weak fairness of each handler that has
been called, and of the retention loop.  Both are goroutines, which the Go
scheduler runs, and the loop's ticker fires for ever.  Nothing is assumed of the
clock, the broker or the operator: `TaggedPacketAppears` begins when the
packet is about to be stored, `AmbientTrafficPruned` when it is out of date.
`SnapshotsFairness`: a request that is being served goes on;
`busy_timeout` ends its wait for the lock.  `MqttFairness`: goroutines run and a
broker with an open connection answers; neither a connection nor its loss is
promised.  `FilterFairness`: the browser draws frames and ends transitions, and,
with strong fairness, the timer fires although inputs and polls start it anew,
since nobody types for ever without a pause of 240 ms.

**What the runs found**

1. `restore_race`: retention deletes a link that the restore tool inserted after
   the prune had read the protected hashes, although the README promises "linked
   rows are always kept".
2. `crash_window`: if the process dies after storing a packet and before filing
   its check-in, later reports of the packet are duplicates, and its sender
   never gets the tile that the page promises.
3. `zero_retain`: with 0 weeks this week's Monday traffic is kept, the comment
   says it is not.
4. `spring_season`: the season is a week short from the beginning of summer time
   on, since 23-hour days are lost in a division; full rings go to users who
   missed a week.
5. `midnight_gap`: on a Sunday without midnight (Havana) the page asks for a week
   that starts on a Sunday, and shows no check-ins that day.
6. `stale_frame`: two inputs come before a frame, and the frame of the first
   uncovers a row that the second has hidden: it is shown although it does not
   match, beside "No names match your search." if none does.

**What does not hold** of the code as the properties are stated, and where they
stop short of it:

* A row whose frame is overtaken by an input may be shown although it does not
  match (`stale_frame`); one whose frame is overtaken by the timer, since frames are
  suspended for 240 ms (a hidden tab), may match and stay invisible.
  `ShowsMatches` and `HolesClose` say that no other row is affected, and these only
  until the next input or refresh.
* Check-ins count from `TRACK_FROM_DATE` on, weeks from the Monday before; unless
  that date is a Monday no ring is ever full.  `live` tracks from Mondays.
* `FullRingsAreEarned` speaks only of seasons in which no summer time begins
  (`SummerBeginsSince`), because of `spring_season`.
* Of the senders whose names have no Latin letter or digit one gets the tile of a
  week, those with brackets or colons in their names none.
* Check-ins that `Migrate` removes leave packets nothing protects; the first prune,
  seconds later, deletes those that are old, before a tool can relink them.
* The export's queries see different moments: a check-in filed after the first
  has no packet in the bundle.
* A backup that overlaps with a checkpoint can be a mixture of transactions;
  `BackupIsASnapshot` speaks of the others (`overlapped`).
* `TaggedPacketAppears` is checked with one handler, as the client calls it.  With
  two, a copy of the packet stored after midnight can come first.
* `BadgesComplete` is about the observations that are stored: the report of a
  packet whose own statement fails is logged and lost.
* A resubscribe that the broker refuses is logged and not tried again on that
  connection; `SubscriptionsEstablished` takes the refusal for an answer.
* Of two overlapping leaderboard requests the one that read first may write last.
  Nothing reads `leaderboard_snapshots`, and no answer comes from it.

## 4. Proofs

Every safety invariant and every action property of the runs that hold is a
theorem, and so is the refinement; the liveness properties are not.  The
theorems hold for all values of the constants that satisfy their assumptions: any
sets of packets, users, handlers, topics, persons, zones, any number of weeks,
retries, connections, any environment.  A hypothesis is in the last column.

| module | theorem | states | if |
|---|---|---|---|
| `MeshMondayProofs` | `Invariance`, `TypeCorrect` | `IInv`, `TypeOK` | |
| | `IntegrityHolds` | `Integrity` | |
| | `CheckinsFromMondays` | `CheckinFromMonday` | |
| | `ScanSkipsNothing` | `ScannedRowsRetained` | |
| | `NoCheckinLost` | `CheckinsKept` | |
| | `NoRecentMondayLost` | `RecentMondaysKept` | |
| | `NoLinkLost` | `LinksKept` | no restore tool |
| | `Implements` | `BoardSpec`, the refinement of `CheckinBoard` | |
| `BoardProofs` | `NoTaggedPacketMissed` | `TaggedPacketsOnBoard` | not busy, no crashes |
| | `NoObserverMissed` | `BadgesComplete` | not busy, no crashes |
| | `RegionsFilterWell` | `CheckinsPassTheirRegion` | not busy |
| | `TilesStayPut` | `TilesStay` | no restore tool |
| `DatabaseProofs` | `OpenedDatabaseIsMigrated` | `OpenedAsOne` | |
| | `StartsSucceed` | `IndexCanBeCreated` | |
| | `SlotsStay` | `SlotsKept` | |
| | `MigrationIsOneStep` | once clean, every step is one of `MeshMonday!Next`, or none | |
| | `ExportMissesNothing` | `NothingFoundIsMissing` | no restore tool |
| | `ExportKeepsLinks` | `ExportedCheckinsHaveLinks` | not busy |
| | `BackupsAreSnapshots` | `BackupIsASnapshot` | |
| `SeasonProofs` | `WeeksStartOnMondays` | `WeekStartIsMonday` | ordinary zones |
| | `ClockIsTheClock` | `ClockSpec`, the refinement of `Clock` | ordinary zones |
| | `WeeksAreCountedMostly` | `WeeksCountedUnlessSummerBegins` | ordinary zones |
| | `RingsAreEarned` | `FullRingsAreEarned` | ordinary zones |
| | `AttendanceShows` | `AttendanceFillsTheRings` | the same, tracking from a Monday |
| `EdgesProofs` | `RegionsShownAsAsked` | `ShownIfAskedFor` | |
| | `ListedChannelsAreHeard` | `EveryListedChannelIsHeard` | |
| | `TilesAreEarned` | `TilesHaveSenders` | |
| | `CopiesAreDecoded` | `CopiesCarryTheMessage` | |
| | `CutFramesAreSafe` | `CutFramesDoNotShift` | |
| | `StreaksAreTheLongest` | `StreaksAreLongest` | |
| | `RankingIsUnique` | `RankingIsDetermined` | |
| | `MqttTypeCorrect`, `NoTopicForgotten` | `MqttTypeOK`, `TopicsCovered` | |
| | `NeverGivesUp` | `TriesUntilConnected` | |
| | `HandlersAreBrief` | `HandlerIsBrief` | |
| `PageProofs` | `TableIsWhole`, `AnswersGoForward` | `TableIsOneComputation`, `AnswersNeverGoBack` | |
| | `FilterIsRespected` | `FilterTypeOK`, `ShowsMatches`, `SaysWhatMatches`, `MatchesKeepPlace` | |

The runs check the properties under the same hypotheses; `restore_race`,
`crash_window` and `midnight_gap` show what happens without three of them.  A zone is *ordinary* (`IsOrdinary`) if no midnight is skipped west of
Greenwich, and a summer that begins lasts more than two days.  East of
Greenwich `time.Date` answers one o'clock for a midnight that is skipped, which is
still the right day; in Havana, west of it, it answers eleven in the evening of
the day before, and that is `midnight_gap`.  `MCCalendar` assumes
`MostZonesAreOrdinary`, so TLC evaluates the definition on its 184 zones.

**The server.**  Integrity is inductive alone, the rest is not.  Retention
deletes by hashes it read before, so why is a newer check-in safe?  Because a
check-in not among the protected hashes was filed after they were read, by a
handler that heard its packet on a Monday of the present week (`HandlerRow`,
`Timely`), and the cutoff of a running prune is not after the present week; so
its row is retained as recent Monday traffic (`NewCheckinsRecent`).  Hence only
rows to be retained under no heading are ever marked (`OnlyUnretainedDoomed`),
and the scan leaves none of the others behind (`ScannedRowsRetained`; this
needs that a batch is contiguous in ids, lemma `BatchIsContiguous`, and that
new ids are larger, `IdsAllocated`).  `IInv` is the conjunction, checked by
TLC in `faults` and shown inductive action by action.  `Core` is `IInv` without
`CheckinFromMonday`: it is inductive alone, and so holds also of databases whose
check-ins an older release filed by other rules.  Links follow the same
argument (`LinksRecent`), which the restore tool breaks: it makes links for old
Mondays.

For the refinement a stored Monday packet is `Hear`, a filed check-in is `Post`,
a deleted chunk is `Forget`; everything else, crashes and tools included,
stutters.

**The board.**  Each stored tagged packet is at every moment accounted for: it has
its check-in (`Filed`) and its link (`Linked`), or the handler that stored it is
on its way to the statement that inserts them.  A handler is not interrupted
where nothing fails and nothing crashes, and rows once inserted stay while
their packet does (`LinksOutlive`).  A link is inserted before its check-in
(`LinkedFirst`), which is why a filter does not hide a check-in from its region.

**The database.**  `UpgradeIInv`: either no statement has deleted anything yet, and
then nobody but the clock has moved (`Untouched`), or the surplus is gone, and then
`Core` holds and the first check-in of each slot is still there (`Cleaned`).  From
then on the other script's `DeleteSurplus` deletes nothing (`Canonical` of unique
slots is all of them), so its statements do what `Next` may do, and `Core` carries over
from `MeshMondayProofs`.  `SlotsKept` needs that each slot has a least id.  A query
of the export returns at least what the same query would have returned at the
start, since without the tool none of these rows is deleted while its check-in
lasts (`FoundStays`); and links come before check-ins, the export reads them after
(`CheckinsLinked`).  The file behind the WAL is what some transaction left whenever
no checkpoint is under way (`FileIsADatabase`), so an undisturbed copy is that as
far as it goes (`CopyIsOfADatabase`).

**Dates.**  `Date` finds the midnight of a local day, or the first hour there is
(`FirstHours`), and the hours between two Mondays are 24 for each day but for
one, more when summer ends and less when it begins (`HoursOfSeason`); only the
latter is lost in a division by 24.  With `W` the weeks
the season counts and `M` the Mondays in it, `W = M` if no summer begins and
`W =< M` always: hence full rings are earned in the one case and attendance fills
them in both.  A ring shows 100 exactly if the count is not below `W`.

**The ranking.**  The loops of `Compute` are folds, and a lemma for each gives the
states it goes through: `Put` into a sorted sequence, `Dedup`, the runs of
`longestMondayStreak` (the run at each index is maximal, the best so far is the
longest, and strictly greater lengths replace it, so the first is kept).  `Before` is a strict total
order of entries with different names, and a finite set has one arrangement by
such an order (`OneArrangement`), so neither the order of a map nor an unstable
sort can show.

**Frames, keys, regions.**  The frame is known byte by byte from the message, the
hops it took and the header (`OriginOK`, `HopsOK`, `FrameOK`); the decoder reads the
path's length where the encoder put it, and a frame that is cut ends in the
payload or has a path longer than what is left.  Leaving out repeated keys
loses none (`DistinctKeepsAll`), so the key of a listed channel is among those
that are tried, and the key that is found fits (`FittingKeyFits`); noise has no
sender, so a wrong key makes no tile.  A code is stored in capitals and
compared with settings in capitals (`RegionsIInv`).

**Subscriptions, page, time.**  Whoever registers a topic does so before looking at the
connection, and `OnConnect` copies the topics after the connection is open, so one
of the two sees the other (`TopicsCovered`, inductive with the types).  Who holds
the write lock is inserting (`OneTransaction`) and a request has read at least
what had been answered when it came (`ReadsAreRecent`).  A call has spent its
time on attempts that are counted (`TimeIsAccounted`).  Every row's
classes follow from the query and the pending frames, unless its frame was
overtaken, and a pending frame of a row that does not match was
(`ClassesFollowQuery`); an input or a refresh makes the classes anew, which is why
`overtaken` starts over with it.

**Induction.**  The provers cannot instantiate a theorem about a predicate.
`Induction` states it of sets (`CountUp`, `LeastElement`): whoever cites it gives
the set of numbers for which the claim holds.  The folds of the community modules
are recursive functions chosen by their equation, so that there is one has to be
shown first (`FoldExists`).  `SortSeq` and the sequences TLC overrides are beyond
this, which is why `Ranking` sorts by inserting, since any sort of numbers comes to
the same, and `Season` chooses the sequence of the days that is sorted.

**Only model-checked:** the liveness properties `TaggedPacketAppears`,
`AmbientTrafficPruned`, `SubscriptionsEstablished`, `HolesClose` and
`LockIsReleased`.  They rest on fairness, and so on ENABLED, which the prover does
not have.

## 5. Not modelled

* JSON, hex, base64 and ciphers as such; templates, HTTP headers, logging and
  deployment: they change no state, and what depends on their outcome is a
  choice in the models (a packet is decoded or not, a key fits or not).
* Settings that are only parsed and compared with a limit, and
  `internal/config/envfile.go`; the statistics of `space.go`.
* `devseed` (sample rows for development) and `replay` (calls `HandleMessage` for
  the lines of a file; `Handlers` covers it).
* Tooltips, tile animations and the movement of rows in `app.js`.
* Clocks that are set back; disks that lose committed transactions.

Open: what holds of regions between a busy link statement and the next start;
retention under unbounded arrivals (each batch leaves fewer rows ahead); what
holds of retention and the board in zones that are not ordinary.
