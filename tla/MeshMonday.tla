----------------------------- MODULE MeshMonday -----------------------------
(***************************************************************************)
(* The MeshMonday back end: cmd/server with its MQTT handlers and its      *)
(* retention loop, cmd/restorecheckinpackets beside it, the clock and the  *)
(* database they share.                                                    *)
(***************************************************************************)
EXTENDS Restore, Retention, Board

VARIABLE up   \* the server process runs

processVars == <<ingestVars, retentionVars, up>>
vars == <<now, storeVars, processVars, restoreVars>>

Init ==
  /\ ClockInit
  /\ StoreInit
  /\ IngestInit
  /\ RetentionInit
  /\ RestoreInit
  /\ up = TRUE

-----------------------------------------------------------------------------
\* A handler makes four statements, each tried at most 16 times for at most 30
\* seconds (busy_timeout): half an hour.  One that heard a packet on Monday is
\* not at work any more on the next Monday.
NoHandlerOutlivesItsWeek ==
  now'.week # now.week =>
    \A h \in Handlers : pc[h] # "idle" => ~IsMonday(msg[h].at)

Tick ==
  /\ AdvanceClock
  /\ NoHandlerOutlivesItsWeek
  /\ UNCHANGED <<storeVars, processVars, restoreVars>>

\* The MQTT client calls the handler for a message, or the handler executes
\* its next statement.
Ingesting(h) ==
  /\ up
  /\ Receive(h) \/ HandleMessage(h)
  /\ UNCHANGED <<now, retentionVars, restoreVars, up>>

\* The retention loop.
Pruning ==
  /\ up
  /\ StartPrune \/ PruneStep \/ AbortPrune
  /\ UNCHANGED <<now, ingestVars, restoreVars, up>>

Restoring == RestoreStep /\ UNCHANGED <<now, processVars>>

\* The server is killed, or shuts down without waiting for its handlers.
Crash ==
  /\ "crash" \in Env
  /\ up
  /\ up' = FALSE
  /\ DropHandlers
  /\ StopPrune
  /\ UNCHANGED <<now, storeVars, restoreVars>>

\* main: OpenSQLite migrates, then the handlers and the loop start.
Restart ==
  /\ ~up
  /\ up' = TRUE
  /\ Migrate
  /\ UNCHANGED <<now, ingestVars, retentionVars, restoreVars>>

Next ==
  \/ Tick
  \/ \E h \in Handlers : Ingesting(h)
  \/ Pruning
  \/ Restoring
  \/ Crash
  \/ Restart

Spec == Init /\ [][Next]_vars

\* A handler that was called and a prune that was started keep running, and
\* the ticker starts prunes for ever.  Nothing is assumed of the clock, the
\* broker or the operator.
HandlerProgress(h) == Ingesting(h) /\ pc[h] # "idle"

Fairness ==
  /\ \A h \in Handlers : WF_vars(HandlerProgress(h))
  /\ WF_vars(Pruning)

-----------------------------------------------------------------------------
(* Properties of the stored data *)

\* Every variable has its type.
TypeOK ==
  /\ now \in Instants /\ up \in BOOLEAN
  /\ StoreTypeOK
  /\ IngestTypeOK
  /\ RetentionTypeOK
  /\ RestoreTypeOK

\* What the schema promises whatever runs concurrently: check-ins, links and
\* observations never dangle (foreign_keys is ON in every connection), a hash
\* is stored once, and a user has one check-in a week.
Integrity ==
  /\ HashesOf(checkins) \cup HashesOf(links) \cup HashesOf(observations)
       \subseteq HashesOf(rawPackets)
  /\ \A r, s \in rawPackets : r.hash = s.hash \/ r.id = s.id => r = s
  /\ \A c, d \in checkins :
       c.hash = d.hash \/ (c.week = d.week /\ c.user = d.user) => c = d

\* A check-in is filed under the week in which its packet was stored as heard
\* on Monday, and under the sender of that packet, however late it is filed.
CheckinFromMonday ==
  \A c \in checkins : \E r \in rawPackets :
    /\ r.hash = c.hash
    /\ IsMonday(r.at) /\ MondayOf(r.at) = c.week
    /\ IngestSender[c.hash] = c.user

\* The scan of retention jumps over no row: what lies behind it is retained,
\* in spite of deletions between batches and packets stored meanwhile.
ScannedRowsRetained ==
  prunePc \in {"scan", "delete"} =>
    \A r \in rawPackets : r.id =< lastId => ShouldRetain(r)

\* A tagged packet heard on Monday puts its sender on the week's board as soon
\* as no handler is working on it any more.
BeingHandled(p) == \E h \in Handlers : inserted[h] /\ msg[h].packet = p

TaggedPacketsOnBoard ==
  \A r \in rawPackets :
    /\ IngestSender[r.hash] # NoSender
    /\ IsMonday(r.at)
    /\ ~BeingHandled(r.hash)
    => \E c \in checkins :
         c.user = IngestSender[r.hash] /\ c.week = MondayOf(r.at)

\* A check-in is listed under the region its packet was heard in, because the
\* link that the region filter goes through is inserted first.
CheckinsPassTheirRegion ==
  \A c \in checkins : \A r \in rawPackets :
    r.hash = c.hash => c \in ListCheckinsByWeek({r.iata}, c.week)

\* A tile's badge counts every observer that reported any tagged message of its
\* user on its Monday, the first or a later one, once the call that stored the
\* message is done with it.
BadgesComplete ==
  \A c \in checkins, r \in rawPackets, x \in observations :
    /\ x.hash = r.hash
    /\ IsMonday(r.at) /\ MondayOf(r.at) = c.week
    /\ IngestSender[r.hash] = c.user
    /\ ~BeingHandled(r.hash)
    => x.observer \in ObserversOf(c)

-----------------------------------------------------------------------------
(* What a step may never do *)

\* Retention runs with a stale set of protected hashes, and still no check-in
\* is ever lost: "Checkins and linked rows are always kept".
CheckinsKept == [][checkins \subseteq checkins']_vars

\* ... nor is a link.
LinksKept == [][links \subseteq links']_vars

\* The other traffic of the retained Mondays is kept too: a row that goes was
\* not heard on a Monday of the last Retain weeks or the current one, on the
\* day it goes.
RecentMondaysKept ==
  [][\A r \in rawPackets \ rawPackets' :
       IsMonday(r.at) => MondayOf(r.at) < MondayOf(now) - Retain
    ]_vars

\* A tile stays where it was shown: a check-in listed under a region goes on
\* being listed there, and the observers on its badge only grow.
TilesStay ==
  [][\A c \in checkins :
       /\ c \in checkins'
       /\ ObserversOf(c) \subseteq ObserversOf(c)'
       /\ \A i \in Iatas : HeardIn(c, {i}) => HeardIn(c, {i})']_vars

\* An observer's report of a Monday packet that is stored, but that no other
\* handler is working on, finds its sender on the board.
ReturnsFromReport(h) ==
  /\ pc[h] = "observe" /\ pc'[h] = "idle" /\ up'
  /\ IsMonday(msg[h].at)
  /\ IngestSender[msg[h].packet] # NoSender
  /\ \E r \in rawPackets : r.hash = msg[h].packet /\ r.at = msg[h].at
  /\ \A g \in Handlers \ {h} :
       msg[g] # NoMessage => msg[g].packet # msg[h].packet

ReportedPacketsOnBoard ==
  [][\A h \in Handlers : ReturnsFromReport(h) =>
       \E c \in checkins : /\ c.user = IngestSender[msg[h].packet]
                           /\ c.week = MondayOf(msg[h].at)]_vars

\* "0 keeps only checkin-linked raw rows (no extra Monday traffic)": with
\* Retain = 0, every row a complete prune leaves was protected.
OnlyLinkedRowsKept ==
  [][Retain = 0 /\ FinishPrune => HashesOf(rawPackets) \subseteq protected]_vars

-----------------------------------------------------------------------------
(* What must happen *)

\* The handler that stores a tagged packet on a Monday gets its sender on the
\* board of that week.
StoringTagged(h, p, w) ==
  /\ pc[h] = "raw" /\ msg[h].packet = p /\ ~ForeignKeyOK(p)
  /\ msg[h].at = [week |-> w, monday |-> TRUE]
  /\ IngestSender[p] # NoSender

TaggedPacketAppears ==
  \A h \in Handlers, p \in Packets, w \in 0..MaxWeek :
    StoringTagged(h, p, w) ~>
      \E c \in checkins : c.user = IngestSender[p] /\ c.week = w

\* Storage stays bounded: traffic no check-in needs and no retained Monday
\* covers is deleted, including what a check-in or a recent Monday covered
\* when earlier prunes passed over it.
Prunable(p) ==
  \E r \in rawPackets :
    /\ r.hash = p
    /\ p \notin ProtectedPacketHashes
    /\ IsMonday(r.at) => MondayOf(r.at) < MondayOf(now) - Retain

AmbientTrafficPruned ==
  \A p \in Packets :
    Prunable(p) ~> (~ForeignKeyOK(p) \/ p \in ProtectedPacketHashes)

-----------------------------------------------------------------------------
(* The abstract specification this implements *)

Archive == {[packet |-> r.hash, week |-> MondayOf(r.at)] :
              r \in {x \in rawPackets : IsMonday(x.at)}}

Posted == {[packet |-> c.hash, user |-> c.user, week |-> c.week] :
             c \in checkins}

CheckinBoard ==
  INSTANCE CheckinBoard WITH
    Sender <- IngestSender,
    Weeks <- 0..MaxWeek,
    archive <- Archive,
    board <- Posted

BoardSpec == CheckinBoard!Spec
=============================================================================
