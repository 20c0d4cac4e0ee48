---------------------------- MODULE BoardProofs ----------------------------
(***************************************************************************)
(* What the board shows: proofs for runs of the system in which no         *)
(* statement fails ("busy") and, for some, the server is not killed.       *)
(*                                                                         *)
(* Each tagged Monday packet is at every moment accounted for: it has what *)
(* it is entitled to, a check-in or a link, or the call of HandleMessage   *)
(* that stored it is on its way to the statement that makes it.            *)
(***************************************************************************)
EXTENDS MeshMondayProofs

Undisturbed == "busy" \notin Env /\ "crash" \notin Env

Tagged(r) == IsMonday(r.at) /\ IngestSender[r.hash] # NoSender

WorksOn(h, r) == inserted[h] /\ msg[h].packet = r.hash /\ msg[h].at = r.at

OnBoard(r) ==
  \E c \in checkins :
    c.user = IngestSender[r.hash] /\ c.week = MondayOf(r.at)

OwnLink(r) ==
  [week |-> MondayOf(r.at), user |-> IngestSender[r.hash],
   hash |-> r.hash]

Filed ==
  \A r \in rawPackets :
    Tagged(r) => OnBoard(r) \/ \E h \in Handlers : WorksOn(h, r)

Linked ==
  \A r \in rawPackets :
    Tagged(r) => \/ OwnLink(r) \in links
                 \/ \E h \in Handlers :
                      WorksOn(h, r) /\ pc[h] \in {"observe", "link"}

\* ... where crashes are allowed: what is filed, or about to be, is linked.
MessageLink(h) ==
  [week |-> MondayOf(msg[h].at), user |-> IngestSender[msg[h].packet],
   hash |-> msg[h].packet]

LinkedFirst ==
  /\ \A c \in checkins : LinkOf(c) \in links
  /\ \A h \in Handlers : pc[h] = "checkin" => MessageLink(h) \in links

-----------------------------------------------------------------------------
\* A step of one call leaves the others alone; before and after its work a
\* call has inserted nothing.
LEMMA OtherCalls ==
  ASSUME IInv, NEW h \in Handlers, Receive(h) \/ HandleMessage(h),
         NEW g \in Handlers, g # h
  PROVE  pc'[g] = pc[g] /\ msg'[g] = msg[g] /\ inserted'[g] = inserted[g]
<1>1. /\ pc \in [Handlers -> {"idle", "raw", "observe", "link", "checkin"}]
      /\ msg \in [Handlers -> Messages \cup {NoMessage}]
      /\ inserted \in [Handlers -> BOOLEAN]
  BY DEF IInv, Core, TypeOK, IngestTypeOK
<1>2. CASE Receive(h)
  BY <1>1, <1>2 DEF Receive
<1>3. CASE HandleMessage(h)
  BY <1>1, <1>3
  DEF HandleMessage, StoreRaw, Observe, Link, Checkin, Goto, Return
<1> QED  BY <1>2, <1>3

LEMMA FreshCalls ==
  ASSUME IInv, NEW h \in Handlers, pc[h] \in {"idle", "raw"}
  PROVE  ~inserted[h]
BY DEF IInv, Core, HandlerRow, TypeOK, IngestTypeOK

\* Steps that are none of a handler's: no packet comes, no check-in goes.
LEMMA OtherSteps ==
  ASSUME IInv, Undisturbed, [Next]_vars,
         ~\E h \in Handlers : Ingesting(h)
  PROVE  /\ rawPackets' \subseteq rawPackets
         /\ checkins' = checkins
         /\ UNCHANGED ingestVars
<1>1. CASE Pruning
  BY <1>1, StoreSteps, DeletesNoCheckin, DeletedRows
  DEF IInv, Pruning, StartPrune, PruneStep, ReadProtected, ScanRows,
      FinishPrune,
      AbortPrune, StatementFails, storeVars, checkinVars
<1>2. CASE Restoring
  BY <1>2, MigrateAddsLinks
  DEF IInv, Restoring, RestoreStep, OpenTool, QueryRawPackets, RestoreRow,
      ExitTool,
      InsertCheckinPacket, StatementFails, storeVars, checkinVars, processVars
<1>3. CASE Restart \/ Tick \/ UNCHANGED vars
  BY <1>3, MigrateAddsLinks
  DEF IInv, Restart, Tick, vars, processVars, storeVars, checkinVars
<1> QED  BY <1>1, <1>2, <1>3 DEF Next, Crash, Undisturbed

-----------------------------------------------------------------------------
(* Every tagged Monday packet gets its sender on the board *)

LEMMA CheckinFiles ==
  ASSUME IInv, Undisturbed, NEW h \in Handlers, Checkin(h),
         NEW r \in rawPackets, WorksOn(h, r)
  PROVE  OnBoard(r)'
<1> DEFINE p == msg[h].packet
           u == IngestSender[p]
           w == MondayOf(msg[h].at)
<1>1. InsertCheckin(p, u, w)
  BY DEF Checkin, StatementFails, Undisturbed
<1>2. r.hash = p /\ r.at = msg[h].at /\ ForeignKeyOK(p)
  BY DEF WorksOn, ForeignKeyOK, HashesOf
<1>3. CASE CheckinConflict(p, u, w)
  <2>1. PICK c \in checkins : c.hash = p \/ (c.user = u /\ c.week = w)
    BY <1>3 DEF CheckinConflict
  <2>2. c.user = u /\ c.week = w
    BY <1>2, <2>1 DEF IInv, Core, CheckinFromMonday, Integrity
  <2>3. c \in checkins'
    BY <1>1, <1>3 DEF InsertCheckin, checkinVars
  <2> QED  BY <1>2, <2>2, <2>3 DEF OnBoard
<1>4. CASE ~CheckinConflict(p, u, w)
  <2> DEFINE c == [id |-> checkinSeq + 1, hash |-> p, user |-> u, week |-> w]
  <2>1. c \in checkins'
    BY <1>1, <1>2, <1>4 DEF InsertCheckin
  <2>2. c.user = u /\ c.week = w
    OBVIOUS
  <2> QED  BY <1>2, <2>1, <2>2 DEF OnBoard
<1> QED  BY <1>3, <1>4

LEMMA HandlerFiles ==
  ASSUME IInv, Filed, Undisturbed, NEW h \in Handlers, Ingesting(h)
  PROVE  Filed'
<1> SUFFICES ASSUME NEW r \in rawPackets', Tagged(r)
             PROVE  OnBoard(r)' \/ (\E g \in Handlers : WorksOn(g, r))'
  BY DEF Filed, Tagged
<1>0. /\ inserted \in [Handlers -> BOOLEAN]
      /\ msg \in [Handlers -> Messages \cup {NoMessage}]
  BY DEF IInv, Core, TypeOK, IngestTypeOK
<1>1. checkins \subseteq checkins'
  BY DEF Ingesting, Receive, HandleMessage, StoreRaw, Observe, Link, Checkin,
     InsertRawPacket, InsertPacketObservation, InsertCheckinPacket,
     InsertCheckin, StatementFails, storeVars, checkinVars
<1>2. CASE r \notin rawPackets
  <2>1. StoreRaw(h) /\ ~StatementFails
    BY <1>2
    DEF Ingesting, Receive, HandleMessage, StoreRaw, Observe, Link, Checkin,
        InsertPacketObservation, InsertCheckinPacket, InsertCheckin,
        StatementFails, storeVars, Undisturbed
  <2>2. ~ForeignKeyOK(msg[h].packet)
        /\ r.hash = msg[h].packet /\ r.at = msg[h].at
    BY <1>2, <2>1 DEF StoreRaw, InsertRawPacket
  <2>3. WorksOn(h, r)'
    BY <1>0, <2>1, <2>2 DEF StoreRaw, WorksOn
  <2> QED  BY <2>3
<1>3. CASE r \in rawPackets /\ OnBoard(r)
  BY <1>1, <1>3 DEF OnBoard
<1>4. ASSUME r \in rawPackets, NEW g \in Handlers, WorksOn(g, r)
      PROVE  OnBoard(r)' \/ (\E x \in Handlers : WorksOn(x, r))'
  <2>1. CASE g # h
    BY <1>4, <2>1, OtherCalls DEF WorksOn, Ingesting
  <2>2. CASE g = h /\ Checkin(h)
    BY <1>4, <2>2, CheckinFiles
  <2>3. CASE g = h /\ (Receive(h) \/ StoreRaw(h))
    BY <1>4, <2>3, FreshCalls DEF WorksOn, Receive, StoreRaw
  <2>4. CASE g = h /\ (Observe(h) \/ Link(h))
    <3>1. YieldsCheckin(h)
      BY <1>4, <2>4 DEF WorksOn, Tagged, YieldsCheckin
    <3>2. UNCHANGED <<msg, inserted>>
      BY <2>4, <3>1 DEF Observe, Link, Goto
    <3> QED  BY <1>4, <2>4, <3>2 DEF WorksOn
  <2> QED  BY <2>1, <2>2, <2>3, <2>4 DEF Ingesting, HandleMessage
<1> QED  BY <1>2, <1>3, <1>4 DEF Filed, Tagged

LEMMA NextFiled ==
  ASSUME IInv, Filed, Undisturbed, [Next]_vars
  PROVE  Filed'
<1>1. CASE \E h \in Handlers : Ingesting(h)
  BY <1>1, HandlerFiles
<1>2. CASE ~\E h \in Handlers : Ingesting(h)
  BY <1>2, OtherSteps DEF Filed, Tagged, OnBoard, WorksOn, ingestVars
<1> QED  BY <1>1, <1>2

\* While no statement fails and the server is not killed, a tagged packet heard
\* on Monday has its sender on the board once its call is over, whatever other
\* handlers, retention and the restore tool do meanwhile.
THEOREM NoTaggedPacketMissed ==
  ASSUME Undisturbed
  PROVE  Spec => []TaggedPacketsOnBoard
<1>1. Init => Filed
  BY DEF Init, StoreInit, Filed
<1>2. IInv /\ Filed /\ [Next]_vars => Filed'
  BY NextFiled
<1>3. Filed => TaggedPacketsOnBoard
  BY DEF Filed, Tagged, OnBoard, WorksOn, TaggedPacketsOnBoard, BeingHandled
<1> QED  BY <1>1, <1>2, <1>3, Invariance, PTL DEF Spec

-----------------------------------------------------------------------------
(* Links *)

\* A link is gone only together with its packet.
LEMMA LinksOutlive ==
  ASSUME Core, [Next]_vars, NEW l \in links, NEW r \in rawPackets',
         r.hash = l.hash
  PROVE  l \in links'
<1>1. CASE DeleteRows
  <2>1. r \in rawPackets /\ r.id \notin Chunk
    BY <1>1, DeletedRows
  <2>2. \A s \in rawPackets : s.id \in Chunk => s.hash # l.hash
    BY <2>1 DEF Core, Integrity
  <2> QED  BY <1>1, <2>2 DEF DeleteRows, DeleteRawPackets, NotOf, HashesOf
<1>2. CASE \E h \in Handlers : Ingesting(h)
  BY <1>2
  DEF Ingesting, Receive, HandleMessage, StoreRaw, Observe, Link, Checkin,
      InsertRawPacket, InsertPacketObservation, InsertCheckinPacket,
      InsertCheckin, StatementFails, storeVars
<1>3. CASE Pruning /\ ~DeleteRows
  BY <1>3
  DEF Pruning, StartPrune, PruneStep, ReadProtected, ScanRows, FinishPrune,
      AbortPrune, StatementFails, storeVars
<1>4. CASE Restoring
  BY <1>4, MigrateAddsLinks
  DEF Restoring, RestoreStep, OpenTool, QueryRawPackets, RestoreRow,
      ExitTool, InsertCheckinPacket, StatementFails, storeVars
<1>5. CASE Restart \/ Tick \/ Crash \/ UNCHANGED vars
  BY <1>5, MigrateAddsLinks DEF Restart, Tick, Crash, vars, storeVars
<1> QED  BY <1>1, <1>2, <1>3, <1>4, <1>5 DEF Next

\* The link statement of a call succeeds: its packet is still there.
LEMMA LinkMakesLink ==
  ASSUME IInv, "busy" \notin Env, NEW h \in Handlers, Link(h)
  PROVE  MessageLink(h) \in links'
<1>1. Stored(msg[h])
  BY DEF Link, IInv, Core, HandlerRow, YieldsCheckin
<1>2. ForeignKeyOK(msg[h].packet)
  BY <1>1 DEF Stored, ForeignKeyOK, HashesOf
<1> QED
  BY <1>2 DEF Link, InsertCheckinPacket, StatementFails, MessageLink

LEMMA NextLinked ==
  ASSUME IInv, Linked, Undisturbed, [Next]_vars
  PROVE  Linked'
<1> SUFFICES ASSUME NEW r \in rawPackets', Tagged(r)
             PROVE  \/ OwnLink(r) \in links'
                    \/ \E g \in Handlers :
                         WorksOn(g, r)' /\ pc'[g] \in {"observe", "link"}
  BY DEF Linked, Tagged, OwnLink
<1>0. /\ pc \in [Handlers -> {"idle", "raw", "observe", "link", "checkin"}]
      /\ inserted \in [Handlers -> BOOLEAN]
      /\ msg \in [Handlers -> Messages \cup {NoMessage}]
  BY DEF IInv, Core, TypeOK, IngestTypeOK
<1>1. CASE r \in rawPackets /\ OwnLink(r) \in links
  <2>1. OwnLink(r).hash = r.hash
    BY DEF OwnLink
  <2> QED  BY <1>1, <2>1, LinksOutlive DEF IInv
<1>2. ASSUME NEW g \in Handlers, WorksOn(g, r), pc[g] \in {"observe", "link"}
      PROVE  \/ OwnLink(r) \in links'
             \/ \E x \in Handlers :
                  WorksOn(x, r)' /\ pc'[x] \in {"observe", "link"}
  <2>1. CASE ~\E h \in Handlers : Ingesting(h)
    BY <1>2, <2>1, OtherSteps DEF WorksOn, ingestVars
  <2>2. ASSUME NEW h \in Handlers, Ingesting(h), g # h
        PROVE  WorksOn(g, r)' /\ pc'[g] \in {"observe", "link"}
    BY <1>2, <2>2, OtherCalls DEF WorksOn, Ingesting
  <2>3. CASE Ingesting(g)
    <3>1. CASE Observe(g)
      <4>1. YieldsCheckin(g)
        BY <1>2 DEF WorksOn, Tagged, YieldsCheckin
      <4>2. UNCHANGED <<msg, inserted>> /\ pc'[g] = "link"
        BY <1>0, <3>1, <4>1 DEF Observe, Goto
      <4> QED  BY <1>2, <4>2 DEF WorksOn
    <3>2. CASE Link(g)
      BY <1>2, <3>2, LinkMakesLink
      DEF WorksOn, MessageLink, OwnLink, Undisturbed
    <3>3. Observe(g) \/ Link(g)
      BY <1>2, <2>3
      DEF Ingesting, Receive, HandleMessage, StoreRaw, Checkin
    <3> QED  BY <3>1, <3>2, <3>3
  <2> QED  BY <2>1, <2>2, <2>3
<1>3. CASE r \notin rawPackets
  <2>1. PICK h \in Handlers : StoreRaw(h)
    BY <1>3, StoreSteps, DeletedRows DEF IInv
  <2>2. /\ ~ForeignKeyOK(msg[h].packet)
        /\ r.hash = msg[h].packet /\ r.at = msg[h].at
    BY <1>3, <2>1
    DEF StoreRaw, InsertRawPacket, StatementFails, storeVars
  <2>3. /\ inserted' = [inserted EXCEPT ![h] = TRUE]
        /\ pc' = [pc EXCEPT ![h] = "observe"] /\ UNCHANGED msg
    BY <2>1, <2>2 DEF StoreRaw, StatementFails, Undisturbed
  <2>4. WorksOn(h, r)' /\ pc'[h] = "observe"
    BY <1>0, <2>2, <2>3 DEF WorksOn
  <2> QED  BY <2>4
<1> QED  BY <1>1, <1>2, <1>3 DEF Linked, Tagged, OwnLink

\* ... and then every observer that reported the packet is counted on the tile.
THEOREM NoObserverMissed ==
  ASSUME Undisturbed
  PROVE  Spec => []BadgesComplete
<1>1. Init => Linked
  BY DEF Init, StoreInit, Linked
<1>2. IInv /\ Linked /\ [Next]_vars => Linked'
  BY NextLinked
<1>3. IInv /\ Linked => BadgesComplete
  <2> SUFFICES ASSUME IInv, Linked,
                      NEW c \in checkins, NEW r \in rawPackets,
                      NEW x \in observations, x.hash = r.hash,
                      IsMonday(r.at), MondayOf(r.at) = c.week,
                      IngestSender[r.hash] = c.user, ~BeingHandled(r.hash)
               PROVE  x.observer \in ObserversOf(c)
    BY DEF BadgesComplete
  <2>1. c.user # NoSender
    BY SenderAssumption DEF IInv, Core, TypeOK, StoreTypeOK, CheckinRows
  <2>2. OwnLink(r) \in links
    BY <2>1 DEF Linked, Tagged, WorksOn, BeingHandled
  <2>3. /\ OwnLink(r).week = c.week /\ OwnLink(r).user = c.user
        /\ OwnLink(r).hash = r.hash
    BY DEF OwnLink
  <2>4. r.hash \in LinkedHashes(c)
    BY <2>2, <2>3 DEF LinkedHashes, HashesOf
  <2> QED  BY <2>4 DEF ObserversOf
<1> QED  BY <1>1, <1>2, <1>3, Invariance, PTL DEF Spec

-----------------------------------------------------------------------------
(* Every check-in passes the filter of its own region *)

LEMMA NextLinkedFirst ==
  ASSUME IInv, LinkedFirst, "busy" \notin Env, [Next]_vars
  PROVE  LinkedFirst'
<1>0. /\ pc \in [Handlers -> {"idle", "raw", "observe", "link", "checkin"}]
      /\ msg \in [Handlers -> Messages \cup {NoMessage}]
  BY DEF IInv, Core, TypeOK, IngestTypeOK
<1>1. ASSUME NEW c \in checkins, c \in checkins' PROVE LinkOf(c) \in links'
  <2>0. IInv'
    BY NextIInv
  <2>1. PICK r \in rawPackets' : r.hash = c.hash
    BY <1>1, <2>0 DEF IInv, Core, Integrity, HashesOf
  <2>2. LinkOf(c) \in links
    BY DEF LinkedFirst
  <2>3. LinkOf(c).hash = c.hash
    BY DEF LinkOf
  <2> QED  BY <2>1, <2>2, <2>3, LinksOutlive DEF IInv
<1>2. ASSUME NEW h \in Handlers, pc[h] = "checkin"
      PROVE  MessageLink(h) \in links
  BY <1>2 DEF LinkedFirst
<1>3. ASSUME NEW c \in checkins', c \notin checkins PROVE LinkOf(c) \in links'
  <2>1. PICK h \in Handlers : Checkin(h) /\ UNCHANGED rawPackets
    BY <1>3, StoreSteps, DeletesNoCheckin DEF IInv
  <2>2. MessageLink(h) \in links /\ links' = links
    BY <1>2, <2>1
    DEF Checkin, InsertCheckin, StatementFails, storeVars
  <2>3. LinkOf(c) = MessageLink(h)
    BY <1>3, <2>1
    DEF Checkin, InsertCheckin, StatementFails, storeVars, checkinVars,
        LinkOf, MessageLink
  <2> QED  BY <2>2, <2>3
<1>4. ASSUME NEW h \in Handlers, pc'[h] = "checkin"
      PROVE  MessageLink(h)' \in links'
  <2>1. CASE Ingesting(h)
    <3>1. Link(h)
      BY <1>0, <1>4, <2>1
      DEF Ingesting, Receive, HandleMessage, StoreRaw, Observe, Checkin, Goto,
          Return
    <3>2. MessageLink(h)' = MessageLink(h)
      BY <3>1 DEF Link, Goto, MessageLink
    <3> QED  BY <3>1, <3>2, LinkMakesLink
  <2>2. CASE pc'[h] = pc[h] /\ msg'[h] = msg[h]
    <3>1. MessageLink(h) \in links /\ MessageLink(h)' = MessageLink(h)
      BY <1>2, <1>4, <2>2 DEF MessageLink
    <3>2. PICK r \in rawPackets' : r.hash = msg'[h].packet
      BY <1>4, NextIInv DEF IInv, Core, HandlerRow, YieldsCheckin, Stored
    <3>3. MessageLink(h).hash = msg[h].packet
      BY DEF MessageLink
    <3> QED  BY <2>2, <3>1, <3>2, <3>3, LinksOutlive DEF IInv
  <2>3. CASE Crash
    BY <1>4, <2>3 DEF Crash, DropHandlers
  <2>4. ASSUME NEW g \in Handlers, Ingesting(g), g # h
        PROVE  pc'[h] = pc[h] /\ msg'[h] = msg[h]
    BY <2>4, OtherCalls DEF Ingesting
  <2>5. CASE Pruning \/ Restoring \/ Restart \/ Tick \/ UNCHANGED vars
    <3>1. UNCHANGED ingestVars
      BY <2>5 DEF Pruning, Restoring, Restart, Tick, vars, processVars
    <3> QED  BY <2>2, <3>1 DEF ingestVars
  <2> QED  BY <2>1, <2>2, <2>3, <2>4, <2>5 DEF Next
<1> QED  BY <1>1, <1>3, <1>4 DEF LinkedFirst

\* A check-in never lacks in the list of the region its packet was heard in,
\* also after crashes: its link was inserted before it.
THEOREM RegionsFilterWell ==
  ASSUME "busy" \notin Env
  PROVE  Spec => []CheckinsPassTheirRegion
<1>1. Init => LinkedFirst
  BY DEF Init, StoreInit, IngestInit, LinkedFirst
<1>2. IInv /\ LinkedFirst /\ [Next]_vars => LinkedFirst'
  BY NextLinkedFirst
<1>3. LinkedFirst => CheckinsPassTheirRegion
  <2> SUFFICES ASSUME LinkedFirst, NEW c \in checkins,
                      NEW r \in rawPackets, r.hash = c.hash
               PROVE  HeardIn(c, {r.iata})
    BY DEF CheckinsPassTheirRegion, ListCheckinsByWeek, PassesFilter
  <2>1. LinkOf(c) \in links /\ LinkOf(c).hash = c.hash
        /\ LinkOf(c).week = c.week /\ LinkOf(c).user = c.user
    BY DEF LinkedFirst, LinkOf
  <2>2. r.hash \in LinkedHashes(c)
    BY <2>1 DEF LinkedHashes, HashesOf
  <2> QED  BY <2>2 DEF HeardIn
<1> QED  BY <1>1, <1>2, <1>3, Invariance, PTL DEF Spec

-----------------------------------------------------------------------------
\* A packet whose hash is still stored is still the same row ...
LEMMA RowsOutlive ==
  ASSUME Core, [Next]_vars,
         NEW r \in rawPackets, r.hash \in HashesOf(rawPackets')
  PROVE  r \in rawPackets'
<1>1. PICK s \in rawPackets' : s.hash = r.hash
  BY DEF HashesOf
<1>2. rawPackets \subseteq rawPackets' \/ DeleteRows
  BY StoreSteps DEF StoreRaw, InsertRawPacket, StatementFails, storeVars
<1> QED  BY <1>1, <1>2, DeletedRows DEF Core, Integrity

\* ... and has all its observations.
LEMMA ObservationsOutlive ==
  ASSUME Core, [Next]_vars, NEW x \in observations, NEW r \in rawPackets',
         r.hash = x.hash
  PROVE  x \in observations'
<1>1. CASE DeleteRows
  <2>1. r \in rawPackets /\ r.id \notin Chunk
    BY <1>1, DeletedRows
  <2>2. \A s \in rawPackets : s.id \in Chunk => s.hash # x.hash
    BY <2>1 DEF Core, Integrity
  <2> QED  BY <1>1, <2>2 DEF DeleteRows, DeleteRawPackets, NotOf, HashesOf
<1>2. CASE ~DeleteRows
  <2>1. observations \subseteq observations'
    BY <1>2, MigrateAddsLinks
    DEF Next, Ingesting, Receive, HandleMessage, StoreRaw, Observe, Link,
        Checkin, InsertRawPacket, InsertPacketObservation, InsertCheckinPacket,
        InsertCheckin, StatementFails, storeVars, Pruning, StartPrune,
        PruneStep, ReadProtected, ScanRows, FinishPrune, AbortPrune, Restoring,
        RestoreStep, OpenTool, QueryRawPackets, RestoreRow, ExitTool, Tick,
        Crash, Restart, vars
  <2> QED  BY <2>1
<1> QED  BY <1>1, <1>2

\* Without the restore tool, whose links retention may not know, a tile goes on
\* being listed where it was, and its badge only grows.
THEOREM TilesStayPut ==
  ASSUME "restore" \notin Env
  PROVE  Spec => TilesStay
<1> DEFINE J == LinksRecent /\ restorePc = "idle"
           Stays == \A c \in checkins :
                      /\ c \in checkins'
                      /\ ObserversOf(c) \subseteq ObserversOf(c)'
                      /\ \A i \in Iatas : HeardIn(c, {i}) => HeardIn(c, {i})'
<1>1. Init => J
  BY InitLinksRecent DEF Init, RestoreInit
<1>2. IInv /\ J /\ [Next]_vars => J'
  BY NextLinksRecent
<1>3. IInv /\ J /\ [Next]_vars => [Stays]_vars
  <2> SUFFICES ASSUME IInv, J, [Next]_vars, NEW c \in checkins
               PROVE  /\ c \in checkins'
                      /\ ObserversOf(c) \subseteq ObserversOf(c)'
                      /\ \A i \in Iatas : HeardIn(c, {i}) => HeardIn(c, {i})'
    OBVIOUS
  <2>1. links \subseteq links'
    BY NextLinksRecent
  <2>2. c \in checkins'
    BY NextKeepsCheckins DEF IInv
  <2>3. LinkedHashes(c) \subseteq LinkedHashes(c)'
    BY <2>1 DEF LinkedHashes, HashesOf
  <2>4. ASSUME NEW r \in rawPackets, r.hash \in LinkedHashes(c)
        PROVE  r \in rawPackets'
    <3>1. PICK l \in links : l.hash = r.hash
      BY <2>4 DEF LinkedHashes, HashesOf
    <3>2. l \in links' /\ Integrity'
      BY <2>1, NextIInv DEF IInv, Core
    <3>3. r.hash \in HashesOf(rawPackets')
      BY <3>1, <3>2 DEF Integrity, HashesOf
    <3> QED  BY <3>3, RowsOutlive DEF IInv
  <2>5. ASSUME NEW x \in observations, x.hash \in LinkedHashes(c)
        PROVE  x \in observations'
    <3>1. PICK r \in rawPackets : r.hash = x.hash
      BY DEF IInv, Core, Integrity, HashesOf
    <3>2. r \in rawPackets'
      BY <2>4, <2>5, <3>1
    <3> QED  BY <3>1, <3>2, ObservationsOutlive DEF IInv
  <2>6. ObserversOf(c) \subseteq ObserversOf(c)'
    BY <2>3, <2>5 DEF ObserversOf
  <2>7. ASSUME NEW i \in Iatas, HeardIn(c, {i}) PROVE HeardIn(c, {i})'
    BY <2>3, <2>4, <2>7 DEF HeardIn
  <2> QED  BY <2>2, <2>6, <2>7
<1> QED  BY <1>1, <1>2, <1>3, Invariance, PTL DEF Spec, TilesStay
=============================================================================
