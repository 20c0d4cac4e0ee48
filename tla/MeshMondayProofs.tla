-------------------------- MODULE MeshMondayProofs --------------------------
(***************************************************************************)
(* Proofs about MeshMonday, for every value of its constants.              *)
(*                                                                         *)
(* First Core is shown to be inductive, one lemma per action; the          *)
(* invariants follow.  Then come the action properties, the links, and     *)
(* the refinement of CheckinBoard.                                         *)
(***************************************************************************)
EXTENDS MeshMondayInv, FiniteSetTheorems, TLAPS

LEMMA HashesOfAdd ==
  ASSUME NEW rows, NEW r
  PROVE  HashesOf(rows \cup {r}) = HashesOf(rows) \cup {r.hash}
BY DEF HashesOf

LEMMA InitCore == Init => Core
<1> SUFFICES ASSUME Init PROVE Core
  OBVIOUS
<1> USE DEF Init, ClockInit, StoreInit, IngestInit, RetentionInit, RestoreInit
<1>1. TypeOK
  BY DEF TypeOK, Instants, StoreTypeOK, IngestTypeOK, RetentionTypeOK,
     RestoreTypeOK
<1>2. Integrity
  BY DEF Integrity, HashesOf
<1>3. IdsAllocated
  BY FS_EmptySet DEF IdsAllocated
<1>4. Timely
  BY MaxWeekAssumption DEF Timely
<1>5. HandlerRow
  BY DEF HandlerRow
<1>6. NewCheckinsRecent
  BY DEF NewCheckinsRecent, FromMonday
<1>7. OnlyUnretainedDoomed /\ ScannedRowsRetained
  BY DEF OnlyUnretainedDoomed, ScannedRowsRetained
<1> QED
  BY <1>1, <1>2, <1>3, <1>4, <1>5, <1>6, <1>7 DEF Core

LEMMA TickCore == Core /\ Tick => Core'
<1> SUFFICES ASSUME Core, Tick PROVE Core'
  OBVIOUS
<1> USE DEF Tick, AdvanceClock, vars, storeVars, checkinVars, processVars,
            ingestVars, retentionVars, restoreVars
<1>1. now \in Instants /\ now' \in Instants
      /\ (now'.week = now.week \/ now'.week = now.week + 1)
      /\ now'.week =< MaxWeek
  BY MaxWeekAssumption DEF Core, TypeOK, Instants, Timely
<1>2. TypeOK'
  BY <1>1
  DEF Core, TypeOK, StoreTypeOK, IngestTypeOK, RetentionTypeOK, RestoreTypeOK
<1>3. Integrity' /\ IdsAllocated'
  BY DEF Core, Integrity, HashesOf, IdsAllocated
<1>4. Timely'
  BY <1>1, RetentionAssumption
  DEF Core, Timely, NoHandlerOutlivesItsWeek, TypeOK, StoreTypeOK,
      IngestTypeOK, RetentionTypeOK, RawRows, Messages, Instants, IsMonday
<1>5. HandlerRow'
  BY DEF Core, HandlerRow, YieldsCheckin, Stored, IsMonday
<1>6. NewCheckinsRecent'
  BY DEF Core, NewCheckinsRecent, FromMonday, IsMonday, MondayOf
<1>7. OnlyUnretainedDoomed' /\ ScannedRowsRetained'
  BY DEF Core, OnlyUnretainedDoomed, ScannedRowsRetained, ShouldRetain,
     IsMonday, MondayOf
<1> QED
  BY <1>2, <1>3, <1>4, <1>5, <1>6, <1>7 DEF Core

\* What the frame of a handler's step leaves alone.
HandlerFrame == UNCHANGED <<now, retentionVars, restoreVars, up>>

LEMMA ReceiveCore ==
  ASSUME Core, NEW h \in Handlers, Receive(h), HandlerFrame
  PROVE  Core'
<1> USE DEF Receive, HandlerFrame, vars, storeVars, checkinVars, retentionVars,
            restoreVars
<1>1. PICK p \in Packets, o \in Observers, i \in Iatas :
        msg' = [msg EXCEPT ![h] =
                 [packet |-> p, observer |-> o, iata |-> i, at |-> now]]
  OBVIOUS
<1>2. TypeOK'
  BY <1>1
  DEF Core, TypeOK, StoreTypeOK, IngestTypeOK, RetentionTypeOK, RestoreTypeOK,
      Messages
<1>3. Integrity' /\ IdsAllocated'
  BY DEF Core, Integrity, HashesOf, IdsAllocated
<1>4. Timely'
  BY <1>1 DEF Core, Timely, TypeOK, IngestTypeOK, IsMonday, Instants
<1>5. HandlerRow'
  BY <1>1 DEF Core, HandlerRow, YieldsCheckin, Stored, TypeOK, IngestTypeOK
<1>6. NewCheckinsRecent'
  BY DEF Core, NewCheckinsRecent, FromMonday
<1>7. OnlyUnretainedDoomed' /\ ScannedRowsRetained'
  BY DEF Core, OnlyUnretainedDoomed, ScannedRowsRetained, ShouldRetain
<1> QED
  BY <1>2, <1>3, <1>4, <1>5, <1>6, <1>7 DEF Core

\* A step that changes no packet and nothing of a prune.
LEMMA RowsUntouched ==
  ASSUME Core, UNCHANGED <<now, rawPackets, rawSeq, retentionVars>>
  PROVE  IdsAllocated' /\ OnlyUnretainedDoomed' /\ ScannedRowsRetained'
BY DEF Core, IdsAllocated, OnlyUnretainedDoomed, ScannedRowsRetained,
   ShouldRetain, retentionVars

\* A handler that returns, or goes on to file a check-in.
LEMMA ReturnKeeps ==
  ASSUME Core, NEW h \in Handlers, Return(h),
         UNCHANGED <<now, rawPackets, retentionVars>>
  PROVE  IngestTypeOK' /\ Timely' /\ HandlerRow'
<1> USE DEF Return, retentionVars
<1>1. IngestTypeOK'
  BY DEF Core, TypeOK, IngestTypeOK
<1>2. Timely'
  BY DEF Core, TypeOK, IngestTypeOK, Timely
<1>3. HandlerRow'
  BY DEF Core, TypeOK, IngestTypeOK, HandlerRow, YieldsCheckin, Stored
<1> QED
  BY <1>1, <1>2, <1>3

LEMMA GotoKeeps ==
  ASSUME Core, NEW h \in Handlers, NEW next \in {"link", "checkin"},
         pc[h] \in {"observe", "link"}, YieldsCheckin(h), Goto(h, next),
         UNCHANGED <<now, rawPackets, retentionVars>>
  PROVE  IngestTypeOK' /\ Timely' /\ HandlerRow'
<1> USE DEF Goto, retentionVars
<1>1. IngestTypeOK'
  BY DEF Core, TypeOK, IngestTypeOK
<1>2. Timely'
  BY DEF Core, TypeOK, IngestTypeOK, Timely
<1>3. HandlerRow'
  BY DEF Core, TypeOK, IngestTypeOK, HandlerRow, YieldsCheckin, Stored
<1> QED
  BY <1>1, <1>2, <1>3

\* The row of a new packet.
LEMMA StoreNewRaw ==
  ASSUME Core, NEW h \in Handlers, pc[h] = "raw",
         NEW row \in RawRows,
         row = [id |-> rawSeq + 1, hash |-> msg[h].packet,
                iata |-> msg[h].iata, at |-> msg[h].at],
         ~ForeignKeyOK(row.hash),
         rawPackets' = rawPackets \cup {row},
         rawSeq' = rawSeq + 1,
         inserted' = [inserted EXCEPT ![h] = TRUE],
         pc' = [pc EXCEPT ![h] = "observe"],
         UNCHANGED <<msg, checkinVars, observations, links>>,
         HandlerFrame
  PROVE  Core'
<1> USE DEF HandlerFrame, checkinVars, retentionVars, restoreVars
<1>1. /\ msg[h] \in Messages /\ rawSeq \in Nat
      /\ \A r \in rawPackets : r.hash # row.hash /\ r.id < row.id
  BY DEF Core, TypeOK, StoreTypeOK, IngestTypeOK, RawRows, ForeignKeyOK,
     HashesOf, IdsAllocated
<1>2. TypeOK'
  BY <1>1
  DEF Core, TypeOK, StoreTypeOK, IngestTypeOK, RetentionTypeOK, RestoreTypeOK
<1>3. Integrity'
  <2>1. \A r, s \in rawPackets' : r.hash = s.hash \/ r.id = s.id => r = s
    BY <1>1 DEF Core, Integrity
  <2>2. HashesOf(rawPackets) \subseteq HashesOf(rawPackets)'
    BY DEF HashesOf
  <2> QED
    BY <2>1, <2>2 DEF Core, Integrity, HashesOf
<1>4. IdsAllocated'
  <2>1. IsFiniteSet(rawPackets')
    BY FS_AddElement DEF Core, IdsAllocated
  <2> QED
    BY <1>1, <2>1 DEF Core, IdsAllocated, TypeOK, RetentionTypeOK, RawRows
<1>5. Timely'
  BY <1>1 DEF Core, Timely, TypeOK, IngestTypeOK, IsMonday
<1>6. HandlerRow'
  BY <1>1 DEF Core, HandlerRow, YieldsCheckin, Stored, TypeOK, IngestTypeOK
<1>7. NewCheckinsRecent'
  BY DEF Core, NewCheckinsRecent, FromMonday
<1>8. OnlyUnretainedDoomed' /\ ScannedRowsRetained'
  BY <1>1
  DEF Core, OnlyUnretainedDoomed, ScannedRowsRetained, ShouldRetain,
      IdsAllocated, TypeOK, RetentionTypeOK
<1> QED
  BY <1>2, <1>3, <1>4, <1>5, <1>6, <1>7, <1>8 DEF Core

LEMMA StoreRawCore ==
  ASSUME Core, NEW h \in Handlers, StoreRaw(h), HandlerFrame
  PROVE  Core'
<1> DEFINE m == msg[h]
<1> USE DEF HandlerFrame, storeVars, checkinVars, retentionVars, restoreVars
<1>0. pc[h] = "raw" /\ m \in Messages /\ inserted[h] = FALSE
  BY DEF StoreRaw, Core, TypeOK, IngestTypeOK, HandlerRow
<1>1. CASE /\ InsertRawPacket(m.packet, m.iata, m.at)
           /\ inserted' = [inserted EXCEPT ![h] = ~ForeignKeyOK(m.packet)]
           /\ pc' = [pc EXCEPT ![h] = "observe"]
           /\ UNCHANGED msg
  <2>1. CASE ForeignKeyOK(m.packet)
    <3> USE <1>0, <1>1, <2>1 DEF InsertRawPacket
    <3>1. TypeOK'
      BY DEF Core, TypeOK, StoreTypeOK, IngestTypeOK, RetentionTypeOK,
         RestoreTypeOK
    <3>2. Integrity' /\ NewCheckinsRecent'
      BY DEF Core, Integrity, HashesOf, NewCheckinsRecent, FromMonday
    <3>3. Timely'
      BY DEF Core, Timely, TypeOK, IngestTypeOK
    <3>4. HandlerRow'
      BY DEF Core, HandlerRow, YieldsCheckin, Stored, TypeOK, IngestTypeOK
    <3> QED
      BY <3>1, <3>2, <3>3, <3>4, RowsUntouched DEF Core
  <2>2. CASE ~ForeignKeyOK(m.packet)
    <3> DEFINE row == [id |-> rawSeq + 1, hash |-> m.packet,
                       iata |-> m.iata, at |-> m.at]
    <3>1. row \in RawRows
      BY <1>0 DEF Core, TypeOK, StoreTypeOK, RawRows, Messages
    <3> QED
      BY <1>0, <1>1, <2>2, <3>1, StoreNewRaw DEF InsertRawPacket
  <2> QED
    BY <2>1, <2>2
<1>2. CASE StatementFails /\ Return(h)
  <2> USE <1>2 DEF StatementFails
  <2>1. TypeOK' /\ Timely' /\ HandlerRow'
    BY ReturnKeeps DEF Core, TypeOK, StoreTypeOK, RetentionTypeOK, RestoreTypeOK
  <2>2. Integrity' /\ NewCheckinsRecent'
    BY DEF Core, Integrity, HashesOf, NewCheckinsRecent, FromMonday
  <2> QED
    BY <2>1, <2>2, RowsUntouched DEF Core
<1> QED
  BY <1>1, <1>2 DEF StoreRaw

LEMMA ObserveCore ==
  ASSUME Core, NEW h \in Handlers, Observe(h), HandlerFrame
  PROVE  Core'
<1> USE DEF HandlerFrame, checkinVars, retentionVars, restoreVars
<1> DEFINE o == [hash |-> msg[h].packet, observer |-> msg[h].observer]
<1>1. /\ UNCHANGED <<rawPackets, rawSeq, checkins, checkinSeq, links>>
      /\ \/ UNCHANGED observations
         \/ ForeignKeyOK(o.hash) /\ observations' = observations \cup {o}
  BY DEF Observe, StatementFails, InsertPacketObservation, storeVars
<1>2. pc[h] = "observe" /\ msg[h] \in Messages
  BY DEF Observe, Core, TypeOK, IngestTypeOK
<1>3. IngestTypeOK' /\ Timely' /\ HandlerRow'
  BY <1>1, <1>2, ReturnKeeps, GotoKeeps DEF Observe
<1>4. TypeOK'
  BY <1>1, <1>2, <1>3
  DEF Core, TypeOK, StoreTypeOK, RetentionTypeOK, RestoreTypeOK,
      ObservationRows, Messages
<1>5. Integrity'
  <2> HIDE DEF o
  <2>1. HashesOf(observations)' \subseteq HashesOf(rawPackets)
    BY <1>1, HashesOfAdd DEF Core, Integrity, ForeignKeyOK
  <2>2. UNCHANGED <<HashesOf(checkins), HashesOf(links), HashesOf(rawPackets)>>
    BY <1>1 DEF HashesOf
  <2> QED
    BY <1>1, <2>1, <2>2 DEF Core, Integrity
<1>6. NewCheckinsRecent'
  BY <1>1 DEF Core, NewCheckinsRecent, FromMonday
<1> QED
  BY <1>1, <1>3, <1>4, <1>5, <1>6, RowsUntouched DEF Core

LEMMA LinkCore ==
  ASSUME Core, NEW h \in Handlers, Link(h), HandlerFrame
  PROVE  Core'
<1> USE DEF HandlerFrame, checkinVars, retentionVars, restoreVars
<1> DEFINE l == [week |-> MondayOf(msg[h].at),
                 user |-> IngestSender[msg[h].packet], hash |-> msg[h].packet]
<1>1. /\ UNCHANGED <<rawPackets, rawSeq, checkins, checkinSeq, observations>>
      /\ \/ UNCHANGED links
         \/ ForeignKeyOK(l.hash) /\ links' = links \cup {l}
  BY DEF Link, StatementFails, InsertCheckinPacket, storeVars
<1>2. /\ pc[h] = "link" /\ msg[h] \in Messages /\ YieldsCheckin(h)
      /\ l \in LinkRows
  BY SenderAssumption
  DEF Link, Core, TypeOK, IngestTypeOK, HandlerRow, YieldsCheckin, LinkRows,
      Messages, Instants, MondayOf
<1>3. IngestTypeOK' /\ Timely' /\ HandlerRow'
  BY <1>1, <1>2, GotoKeeps DEF Link
<1>4. TypeOK'
  BY <1>1, <1>2, <1>3
  DEF Core, TypeOK, StoreTypeOK, RetentionTypeOK, RestoreTypeOK
<1>5. HashesOf(links') \subseteq HashesOf(links) \cup HashesOf(rawPackets)
  <2>1. CASE UNCHANGED links
    BY <2>1
  <2>2. CASE ForeignKeyOK(l.hash) /\ links' = links \cup {l}
    <3> HIDE DEF l
    <3>1. HashesOf(links') = HashesOf(links) \cup {l.hash}
      BY <2>2, HashesOfAdd
    <3> QED
      BY <2>2, <3>1 DEF ForeignKeyOK
  <2> QED
    BY <1>1, <2>1, <2>2
<1>6. Integrity'
  BY <1>1, <1>5 DEF Core, Integrity
<1>7. NewCheckinsRecent'
  BY <1>1 DEF Core, NewCheckinsRecent, FromMonday
<1> QED
  BY <1>1, <1>3, <1>4, <1>6, <1>7, RowsUntouched DEF Core

LEMMA CheckinCore ==
  ASSUME Core, NEW h \in Handlers, Checkin(h), HandlerFrame
  PROVE  Core'
<1> USE DEF HandlerFrame, checkinVars, retentionVars, restoreVars
<1> DEFINE c == [id |-> checkinSeq + 1, hash |-> msg[h].packet,
                 user |-> IngestSender[msg[h].packet],
                 week |-> MondayOf(msg[h].at)]
<1>1. /\ UNCHANGED <<rawPackets, rawSeq, observations, links>>
      /\ \/ UNCHANGED <<checkins, checkinSeq>>
         \/ /\ ForeignKeyOK(c.hash) /\ ~CheckinConflict(c.hash, c.user, c.week)
            /\ checkins' = checkins \cup {c} /\ checkinSeq' = checkinSeq + 1
  BY DEF Checkin, StatementFails, InsertCheckin, storeVars
<1>2. /\ pc[h] = "checkin" /\ msg[h] \in Messages /\ YieldsCheckin(h)
      /\ Stored(msg[h])
      /\ c \in CheckinRows /\ checkinSeq \in Nat /\ c.week = now.week
  BY SenderAssumption
  DEF Checkin, Core, TypeOK, StoreTypeOK, IngestTypeOK, HandlerRow,
      YieldsCheckin, CheckinRows, Messages, Instants, MondayOf, Timely
<1>3. IngestTypeOK' /\ Timely' /\ HandlerRow'
  BY <1>1, <1>2, ReturnKeeps DEF Checkin
<1>4. TypeOK'
  BY <1>1, <1>2, <1>3
  DEF Core, TypeOK, StoreTypeOK, RetentionTypeOK, RestoreTypeOK
<1>5. Integrity'
  BY <1>1 DEF Core, Integrity, HashesOf, ForeignKeyOK, CheckinConflict
<1>6. NewCheckinsRecent'
  <2>1. FromMonday(c)
    BY <1>2 DEF FromMonday, Stored, YieldsCheckin
  <2>2. prunePc \in {"scan", "delete"} => c.week >= cutoff
    BY <1>2, RetentionAssumption
    DEF Core, Timely, TypeOK, RetentionTypeOK, Instants
  <2> HIDE DEF c
  <2> QED
    BY <1>1, <2>1, <2>2 DEF Core, NewCheckinsRecent, FromMonday
<1> QED
  BY <1>1, <1>3, <1>4, <1>5, <1>6, RowsUntouched DEF Core

-----------------------------------------------------------------------------
(* Retention *)

\* What the frame of a step of the retention loop leaves alone.
PruneFrame == UNCHANGED <<now, ingestVars, restoreVars, up>>

\* A step that changes nothing but the locals of PruneRawPackets.
LEMMA RestUntouched ==
  ASSUME Core, PruneFrame, UNCHANGED storeVars
  PROVE  /\ StoreTypeOK' /\ IngestTypeOK' /\ RestoreTypeOK'
         /\ Integrity' /\ HandlerRow'
<1> USE DEF PruneFrame, storeVars, checkinVars, ingestVars, restoreVars
<1>1. StoreTypeOK' /\ IngestTypeOK' /\ RestoreTypeOK'
  BY DEF Core, TypeOK, StoreTypeOK, IngestTypeOK, RestoreTypeOK
<1>2. Integrity'
  BY DEF Core, Integrity, HashesOf
<1>3. HandlerRow'
  BY DEF Core, HandlerRow, YieldsCheckin, Stored
<1> QED
  BY <1>1, <1>2, <1>3

LEMMA StartPruneCore == ASSUME Core, StartPrune, PruneFrame PROVE Core'
<1> USE DEF StartPrune, PruneFrame, storeVars, ingestVars
<1>1. TypeOK'
  BY RestUntouched, RetentionAssumption
  DEF Core, TypeOK, RetentionTypeOK, Instants, MondayOf
<1>2. Timely'
  BY RetentionAssumption
  DEF Core, TypeOK, Timely, RetentionTypeOK, Instants, MondayOf
<1>3. /\ IdsAllocated' /\ NewCheckinsRecent'
      /\ OnlyUnretainedDoomed' /\ ScannedRowsRetained'
  BY DEF Core, IdsAllocated, NewCheckinsRecent, OnlyUnretainedDoomed,
     ScannedRowsRetained
<1> QED
  BY <1>1, <1>2, <1>3, RestUntouched DEF Core

LEMMA ReadProtectedCore == ASSUME Core, ReadProtected, PruneFrame PROVE Core'
<1> USE DEF ReadProtected, PruneFrame, storeVars, checkinVars, ingestVars
<1>1. TypeOK'
  BY RestUntouched
  DEF Core, TypeOK, RetentionTypeOK, StoreTypeOK, ProtectedPacketHashes,
      HashesOf, CheckinRows, LinkRows
<1>2. Timely' /\ IdsAllocated' /\ OnlyUnretainedDoomed'
  BY DEF Core, Timely, IdsAllocated, OnlyUnretainedDoomed
<1>3. NewCheckinsRecent'
  BY DEF NewCheckinsRecent, ProtectedPacketHashes, HashesOf
<1>4. ScannedRowsRetained'
  BY DEF Core, TypeOK, StoreTypeOK, RawRows, IdsAllocated, ScannedRowsRetained
<1> QED
  BY <1>1, <1>2, <1>3, <1>4, RestUntouched DEF Core

\* The rows of a batch are the next ones: one with a smaller id than a row of
\* the batch is in the batch or was scanned before.
LEMMA BatchIsContiguous ==
  ASSUME Core, NEW b \in Batch,
         NEW r \in rawPackets, r.id =< b.id, lastId < r.id
  PROVE  r \in Batch
<1> DEFINE Below(x) == {s \in rawPackets : s.id > lastId /\ s.id < x.id}
<1>1. IsFiniteSet(Below(b)) /\ Cardinality(Below(r)) =< Cardinality(Below(b))
  <2>1. Below(b) \subseteq rawPackets /\ Below(r) \subseteq Below(b)
    BY DEF Core, TypeOK, StoreTypeOK, RawRows, Batch
  <2>2. IsFiniteSet(Below(b))
    BY <2>1, FS_Subset DEF Core, IdsAllocated
  <2> QED
    BY <2>1, <2>2, FS_Subset
<1>2. Cardinality(Below(b)) \in Nat /\ Cardinality(Below(r)) \in Nat
  BY <1>1, FS_Subset, FS_CardinalityType DEF Core, IdsAllocated
<1>3. Cardinality(Below(b)) < ScanBatch
  BY DEF Batch
<1> QED
  BY <1>1, <1>2, <1>3, RetentionAssumption
  DEF Batch, Core, TypeOK, StoreTypeOK, RawRows, RetentionTypeOK

LEMMA ScanRowsCore == ASSUME Core, ScanRows, PruneFrame PROVE Core'
<1> USE DEF PruneFrame, storeVars, checkinVars, ingestVars
<1>0. /\ prunePc = "scan" /\ UNCHANGED <<cutoff, protected, storeVars>>
      /\ Batch \subseteq rawPackets
  BY DEF ScanRows, Batch
<1>1. CASE Doomed = {}
  <2>1. PICK b \in Batch : (\A s \in Batch : s.id =< b.id) /\ lastId' = b.id
    BY <1>1 DEF ScanRows
  <2>2. UNCHANGED <<prunePc, toDelete>>
    BY <1>1 DEF ScanRows
  <2>3. TypeOK'
    BY <1>0, <2>1, <2>2, RestUntouched
    DEF Core, TypeOK, StoreTypeOK, RetentionTypeOK, RawRows
  <2>4. Timely' /\ NewCheckinsRecent'
    BY <1>0, <2>2 DEF Core, Timely, NewCheckinsRecent, FromMonday
  <2>5. IdsAllocated'
    BY <1>0, <2>1, <2>2 DEF Core, IdsAllocated
  <2>6. OnlyUnretainedDoomed'
    BY <1>0, <2>2 DEF Core, OnlyUnretainedDoomed, ShouldRetain
  <2>7. ScannedRowsRetained'
    <3>1. ASSUME NEW r \in rawPackets, r.id =< b.id PROVE ShouldRetain(r)
      <4>1. CASE r.id =< lastId
        BY <1>0, <4>1 DEF Core, ScannedRowsRetained
      <4>2. CASE lastId < r.id
        BY <1>1, <2>1, <3>1, <4>2, BatchIsContiguous DEF Doomed
      <4> QED
        BY <4>1, <4>2 DEF Core, TypeOK, StoreTypeOK, RetentionTypeOK, RawRows
    <3> QED
      BY <1>0, <2>1, <3>1 DEF ScannedRowsRetained, ShouldRetain
  <2> QED
    BY <1>0, <2>3, <2>4, <2>5, <2>6, <2>7, RestUntouched DEF Core
<1>2. CASE Doomed # {}
  <2>1. /\ toDelete' = {r.id : r \in Doomed} /\ prunePc' = "delete"
        /\ UNCHANGED lastId
    BY <1>2 DEF ScanRows
  <2>2. TypeOK'
    BY <1>0, <2>1, RestUntouched
    DEF Core, TypeOK, StoreTypeOK, RetentionTypeOK, RawRows, Doomed
  <2>3. Timely' /\ NewCheckinsRecent'
    BY <1>0, <2>1 DEF Core, Timely, NewCheckinsRecent, FromMonday
  <2>4. IdsAllocated'
    BY <1>0, <2>1 DEF Core, IdsAllocated, Doomed
  <2>5. OnlyUnretainedDoomed'
    BY <1>0, <2>1
    DEF Core, Integrity, OnlyUnretainedDoomed, ShouldRetain, Doomed
  <2>6. ScannedRowsRetained'
    BY <1>0, <2>1 DEF Core, ScannedRowsRetained, ShouldRetain
  <2> QED
    BY <1>0, <2>2, <2>3, <2>4, <2>5, <2>6, RestUntouched DEF Core
<1> QED
  BY <1>1, <1>2

LEMMA StopPruneCore ==
  ASSUME Core, StopPrune, PruneFrame, UNCHANGED storeVars PROVE Core'
<1> USE DEF StopPrune, PruneFrame, storeVars, ingestVars
<1>1. TypeOK'
  BY RestUntouched DEF Core, TypeOK, RetentionTypeOK
<1>2. Timely' /\ NewCheckinsRecent' /\ ScannedRowsRetained'
      /\ OnlyUnretainedDoomed'
  BY DEF Core, Timely, NewCheckinsRecent, ScannedRowsRetained,
     OnlyUnretainedDoomed
<1>3. IdsAllocated'
  BY DEF Core, TypeOK, StoreTypeOK, IdsAllocated
<1> QED
  BY <1>1, <1>2, <1>3, RestUntouched DEF Core

\* The rows a delete takes: marked ones, of which retention keeps none.
LEMMA DeletedRows ==
  ASSUME Core, DeleteRows
  PROVE  /\ prunePc = "delete" /\ Chunk \subseteq toDelete
         /\ \A r \in rawPackets : r.id \in Chunk => ~ShouldRetain(r)
         /\ rawPackets' = {r \in rawPackets : r.id \notin Chunk}
         /\ UNCHANGED <<rawSeq, checkinSeq>>
BY DEF DeleteRows, DeleteRawPackets, Chunk, Core, OnlyUnretainedDoomed

LEMMA DeletedRowsNotOnBoard ==
  ASSUME Core, DeleteRows, NEW c \in checkins,
         NEW r \in rawPackets, r.id \in Chunk
  PROVE  c.hash # r.hash
<1> SUFFICES ASSUME c.hash = r.hash PROVE FALSE
  OBVIOUS
<1>1. prunePc = "delete" /\ ~ShouldRetain(r)
  BY DeletedRows
<1>2. c.week >= cutoff /\ FromMonday(c)
  BY <1>1 DEF Core, NewCheckinsRecent, ShouldRetain
<1>3. IsMonday(r.at) /\ MondayOf(r.at) = c.week
  BY <1>2 DEF FromMonday, Core, Integrity
<1> QED
  BY <1>1, <1>2, <1>3 DEF ShouldRetain

LEMMA DeletesNoCheckin == ASSUME Core, DeleteRows PROVE checkins' = checkins
BY DeletedRowsNotOnBoard DEF DeleteRows, DeleteRawPackets, NotOf, HashesOf

LEMMA DeleteRowsCore == ASSUME Core, DeleteRows, PruneFrame PROVE Core'
<1> USE DEF PruneFrame, ingestVars, restoreVars
<1> DEFINE gone == HashesOf({r \in rawPackets : r.id \in Chunk})
<1>1. /\ rawPackets' = {r \in rawPackets : r.id \notin Chunk}
      /\ checkins' = checkins
      /\ observations' = NotOf(observations, gone)
      /\ links' = NotOf(links, gone)
      /\ toDelete' = toDelete \ Chunk /\ toDelete' \subseteq toDelete
      /\ prunePc = "delete" /\ prunePc' \in {"scan", "delete"}
      /\ prunePc' # "delete" => toDelete' = {}
      /\ UNCHANGED <<rawSeq, checkinSeq, cutoff, protected, lastId>>
  BY DeletesNoCheckin, DeletedRows DEF DeleteRows, DeleteRawPackets
<1>2. TypeOK'
  BY <1>1
  DEF Core, TypeOK, StoreTypeOK, IngestTypeOK, RetentionTypeOK, RestoreTypeOK,
      NotOf
<1>3. Integrity'
  <2>1. ASSUME NEW p \in HashesOf(rawPackets), p \notin gone
        PROVE  p \in HashesOf(rawPackets')
    BY <1>1, <2>1 DEF HashesOf
  <2>2. HashesOf(checkins') \subseteq HashesOf(rawPackets')
    <3> SUFFICES ASSUME NEW c \in checkins
                 PROVE  c.hash \in HashesOf(rawPackets')
      BY <1>1 DEF HashesOf
    <3>1. c.hash \in HashesOf(rawPackets)
      BY DEF Core, Integrity, HashesOf
    <3>2. c.hash \notin gone
      BY <1>1 DEF DeleteRows, DeleteRawPackets, NotOf
    <3> QED
      BY <2>1, <3>1, <3>2
  <2>3. HashesOf(observations') \subseteq HashesOf(rawPackets')
    BY <1>1, <2>1 DEF Core, Integrity, HashesOf, NotOf
  <2>4. HashesOf(links') \subseteq HashesOf(rawPackets')
    BY <1>1, <2>1 DEF Core, Integrity, HashesOf, NotOf
  <2> QED
    BY <1>1, <2>2, <2>3, <2>4 DEF Core, Integrity, HashesOf
<1>4. IdsAllocated'
  BY <1>1, FS_Subset DEF Core, IdsAllocated
<1>5. Timely'
  BY <1>1 DEF Core, Timely
<1>6. HandlerRow'
  <2>1. ASSUME NEW h \in Handlers, inserted[h], IsMonday(msg[h].at)
        PROVE  Stored(msg[h])'
    <3>1. PICK r \in rawPackets : r.hash = msg[h].packet /\ r.at = msg[h].at
      BY <2>1 DEF Core, HandlerRow, Stored
    <3>2. r.at.week = now.week /\ cutoff =< now.week - Retain
      BY <1>1, <2>1, <3>1 DEF Core, HandlerRow, Timely
    <3>3. ShouldRetain(r)
      BY <2>1, <3>1, <3>2, RetentionAssumption
      DEF ShouldRetain, MondayOf, Core, TypeOK, RetentionTypeOK, Instants
    <3> QED
      BY <1>1, <3>1, <3>3, DeletedRows DEF Stored
  <2> QED
    BY <2>1 DEF Core, HandlerRow, YieldsCheckin
<1>7. NewCheckinsRecent'
  <2> SUFFICES ASSUME NEW c \in checkins, c.hash \notin protected
               PROVE  c.week >= cutoff /\ FromMonday(c)'
    BY <1>1 DEF NewCheckinsRecent
  <2>1. c.week >= cutoff /\ FromMonday(c)
    BY <1>1 DEF Core, NewCheckinsRecent
  <2>2. PICK r \in rawPackets :
          r.hash = c.hash /\ IsMonday(r.at) /\ MondayOf(r.at) = c.week
    BY <2>1 DEF FromMonday
  <2>3. ShouldRetain(r)
    BY <2>1, <2>2 DEF ShouldRetain
  <2> QED
    BY <1>1, <2>1, <2>2, <2>3, DeletedRows DEF FromMonday
<1>8. OnlyUnretainedDoomed' /\ ScannedRowsRetained'
  BY <1>1 DEF Core, OnlyUnretainedDoomed, ScannedRowsRetained, ShouldRetain
<1> QED
  BY <1>2, <1>3, <1>4, <1>5, <1>6, <1>7, <1>8 DEF Core

LEMMA PruningCore == ASSUME Core, Pruning PROVE Core'
<1>1. PruneFrame
  BY DEF Pruning, PruneFrame
<1>2. CASE StartPrune
  BY <1>1, <1>2, StartPruneCore
<1>3. CASE ReadProtected
  BY <1>1, <1>3, ReadProtectedCore
<1>4. CASE ScanRows
  BY <1>1, <1>4, ScanRowsCore
<1>5. CASE FinishPrune \/ AbortPrune
  BY <1>1, <1>5, StopPruneCore DEF FinishPrune, AbortPrune, StatementFails
<1>6. CASE DeleteRows
  BY <1>1, <1>6, DeleteRowsCore
<1> QED
  BY <1>2, <1>3, <1>4, <1>5, <1>6 DEF Pruning, PruneStep

-----------------------------------------------------------------------------
(* The restore tool, crashes and restarts *)

\* The unique index leaves nothing to delete, so opening the database only
\* adds links.
LEMMA MigrateAddsLinks ==
  ASSUME Core, Migrate
  PROVE  /\ UNCHANGED <<rawPackets, rawSeq, checkins, checkinSeq, observations>>
         /\ links' = links \cup {LinkOf(c) : c \in checkins}
BY DEF Core, TypeOK, StoreTypeOK, CheckinRows, Integrity, Migrate, Canonical

LEMMA LinksAdded ==
  ASSUME Core, NEW new,
         \A l \in new : l \in LinkRows /\ ForeignKeyOK(l.hash),
         links' = links \cup new,
         UNCHANGED <<now, rawPackets, rawSeq, checkins, checkinSeq,
                     observations>>
  PROVE  StoreTypeOK' /\ Integrity'
<1>1. StoreTypeOK'
  BY DEF Core, TypeOK, StoreTypeOK
<1>2. Integrity'
  <2>1. HashesOf(links') \subseteq HashesOf(rawPackets)
    BY DEF Core, Integrity, HashesOf, ForeignKeyOK
  <2>2. UNCHANGED <<HashesOf(checkins), HashesOf(observations),
                    HashesOf(rawPackets)>>
    BY DEF HashesOf
  <2> QED
    BY <2>1, <2>2 DEF Core, Integrity
<1> QED
  BY <1>1, <1>2

LEMMA MigrateKeeps ==
  ASSUME Core, Migrate, UNCHANGED now
  PROVE  StoreTypeOK' /\ Integrity'
<1> DEFINE new == {LinkOf(c) : c \in checkins}
<1>1. \A l \in new : l \in LinkRows /\ ForeignKeyOK(l.hash)
  BY DEF Core, TypeOK, StoreTypeOK, CheckinRows, LinkRows, LinkOf, Integrity,
     HashesOf, ForeignKeyOK
<1> QED
  BY <1>1, MigrateAddsLinks, LinksAdded

LEMMA RestoringCore == ASSUME Core, Restoring PROVE Core'
<1> USE DEF Restoring, processVars, ingestVars, retentionVars
<1>1. /\ UNCHANGED <<rawPackets, rawSeq, checkins, checkinSeq, observations>>
      /\ StoreTypeOK' /\ Integrity'
  <2>1. CASE UNCHANGED storeVars
    BY <2>1
    DEF storeVars, checkinVars, Core, TypeOK, StoreTypeOK, Integrity, HashesOf
  <2>2. CASE OpenTool
    BY <2>2, MigrateAddsLinks, MigrateKeeps DEF OpenTool
  <2>3. ASSUME NEW r \in restorePending, ~UNCHANGED storeVars, RestoreRow(r)
        PROVE  /\ UNCHANGED <<rawPackets, rawSeq, checkins, checkinSeq,
                              observations>>
               /\ StoreTypeOK' /\ Integrity'
    <3> DEFINE l == [week |-> MondayOf(r.at),
                     user |-> RestoreSender[r.hash], hash |-> r.hash]
    <3>1. /\ RestoreSender[r.hash] # NoSender
          /\ InsertCheckinPacket(l.week, l.user, l.hash)
      BY <2>3 DEF RestoreRow, StatementFails
    <3>2. /\ links' = links \cup {l} /\ ForeignKeyOK(l.hash)
          /\ UNCHANGED <<rawPackets, rawSeq, checkins, checkinSeq,
                         observations>>
      BY <2>3, <3>1 DEF InsertCheckinPacket, storeVars, checkinVars
    <3>3. l \in LinkRows
      BY <3>1, RestoreSenderAssumption
      DEF Core, TypeOK, RestoreTypeOK, RawRows, LinkRows, Instants,
          MondayOf
    <3> HIDE DEF l
    <3> DEFINE new == {l}
    <3>4. \A x \in new : x \in LinkRows /\ ForeignKeyOK(x.hash)
      BY <3>2, <3>3
    <3>5. links' = links \cup new /\ now' = now
      BY <3>2
    <3> HIDE DEF new
    <3>6. StoreTypeOK' /\ Integrity'
      BY <3>2, <3>4, <3>5, LinksAdded
    <3> QED
      BY <3>2, <3>6
  <2> QED
    BY <2>1, <2>2, <2>3 DEF RestoreStep, QueryRawPackets, ExitTool
<1>2. RestoreTypeOK'
  BY DEF RestoreStep, OpenTool, QueryRawPackets, RestoreRow, ExitTool, Core,
     TypeOK, RestoreTypeOK, StoreTypeOK
<1>3. TypeOK'
  BY <1>1, <1>2 DEF Core, TypeOK, IngestTypeOK, RetentionTypeOK
<1>4. Timely' /\ HandlerRow' /\ NewCheckinsRecent'
  BY <1>1
  DEF Core, Timely, HandlerRow, YieldsCheckin, Stored, NewCheckinsRecent,
      FromMonday
<1>5. IdsAllocated' /\ OnlyUnretainedDoomed' /\ ScannedRowsRetained'
  BY <1>1, RowsUntouched
<1> QED
  BY <1>1, <1>3, <1>4, <1>5 DEF Core

LEMMA CrashCore == ASSUME Core, Crash PROVE Core'
<1> USE DEF Crash, DropHandlers, StopPrune, storeVars, checkinVars, restoreVars
<1>1. TypeOK'
  <2>1. StoreTypeOK' /\ RestoreTypeOK' /\ RetentionTypeOK'
    BY DEF Core, TypeOK, StoreTypeOK, RestoreTypeOK, RetentionTypeOK
  <2>2. IngestTypeOK'
    BY DEF IngestTypeOK
  <2> QED
    BY <2>1, <2>2 DEF Core, TypeOK
<1>2. Integrity'
  BY DEF Core, Integrity, HashesOf
<1>3. IdsAllocated'
  BY DEF Core, TypeOK, StoreTypeOK, IdsAllocated
<1>4. /\ Timely' /\ HandlerRow' /\ NewCheckinsRecent'
      /\ OnlyUnretainedDoomed' /\ ScannedRowsRetained'
  BY DEF Core, Timely, HandlerRow, NewCheckinsRecent, OnlyUnretainedDoomed,
     ScannedRowsRetained
<1> QED
  BY <1>1, <1>2, <1>3, <1>4 DEF Core

LEMMA RestartCore == ASSUME Core, Restart PROVE Core'
<1> USE DEF Restart, ingestVars, retentionVars, restoreVars
<1>1. TypeOK'
  BY MigrateKeeps DEF Core, TypeOK, IngestTypeOK, RetentionTypeOK, RestoreTypeOK
<1>2. Timely' /\ HandlerRow' /\ NewCheckinsRecent'
  BY MigrateAddsLinks
  DEF Core, Timely, HandlerRow, YieldsCheckin, Stored, NewCheckinsRecent,
      FromMonday
<1> QED
  BY <1>1, <1>2, MigrateKeeps, MigrateAddsLinks, RowsUntouched DEF Core

LEMMA IngestingCore ==
  ASSUME Core, NEW h \in Handlers, Ingesting(h) PROVE Core'
<1>1. HandlerFrame
  BY DEF Ingesting, HandlerFrame
<1> QED
  BY <1>1, ReceiveCore, StoreRawCore, ObserveCore, LinkCore, CheckinCore
  DEF Ingesting, HandleMessage

LEMMA StutterCore == ASSUME Core, UNCHANGED vars PROVE Core'
<1> USE DEF vars, processVars, storeVars, checkinVars, ingestVars,
            retentionVars, restoreVars
<1>1. TypeOK'
  BY DEF Core, TypeOK, StoreTypeOK, IngestTypeOK, RetentionTypeOK, RestoreTypeOK
<1>2. Integrity' /\ NewCheckinsRecent'
  BY DEF Core, Integrity, HashesOf, NewCheckinsRecent, FromMonday
<1>3. Timely' /\ HandlerRow'
  BY DEF Core, Timely, HandlerRow, YieldsCheckin, Stored
<1> QED
  BY <1>1, <1>2, <1>3, RowsUntouched DEF Core

LEMMA NextCore == Core /\ [Next]_vars => Core'
BY TickCore, IngestingCore, PruningCore, RestoringCore, CrashCore, RestartCore,
   StutterCore
DEF Next

-----------------------------------------------------------------------------
(* Check-ins and their packets *)

\* The effect of a step on packets and check-ins.
LEMMA StoreSteps ==
  ASSUME Core, [Next]_vars
  PROVE  \/ DeleteRows /\ Pruning
         \/ UNCHANGED <<rawPackets, checkins>>
         \/ \E h \in Handlers : StoreRaw(h) /\ UNCHANGED checkins
         \/ \E h \in Handlers : Checkin(h) /\ UNCHANGED rawPackets
<1> USE DEF storeVars, checkinVars
<1>1. ASSUME NEW h \in Handlers, Ingesting(h)
      PROVE  \/ UNCHANGED <<rawPackets, checkins>>
             \/ StoreRaw(h) /\ UNCHANGED checkins
             \/ Checkin(h) /\ UNCHANGED rawPackets
  BY <1>1
  DEF Ingesting, Receive, HandleMessage, StoreRaw, Observe, Link, Checkin,
      InsertRawPacket, InsertPacketObservation, InsertCheckinPacket,
      InsertCheckin, StatementFails
<1>2. CASE Pruning
  BY <1>2
  DEF Pruning, StartPrune, PruneStep, ReadProtected, ScanRows, FinishPrune,
      AbortPrune, StatementFails
<1>3. CASE Restoring
  BY <1>3, MigrateAddsLinks
  DEF Restoring, RestoreStep, OpenTool, QueryRawPackets, RestoreRow, ExitTool,
      InsertCheckinPacket, StatementFails
<1>4. CASE Tick \/ Crash \/ Restart \/ UNCHANGED vars
  BY <1>4, MigrateAddsLinks DEF Tick, Crash, Restart, vars
<1> QED
  BY <1>1, <1>2, <1>3, <1>4 DEF Next

\* The packet of a check-in is not deleted, and a new check-in has one.
LEMMA NextFromMonday ==
  ASSUME Core, CheckinFromMonday, [Next]_vars
  PROVE  CheckinFromMonday'
<1>1. CASE DeleteRows
  <2> SUFFICES ASSUME NEW c \in checkins
               PROVE  \A r \in rawPackets : r.hash = c.hash => r \in rawPackets'
    BY <1>1, DeletesNoCheckin DEF CheckinFromMonday
  <2> QED
    BY <1>1, DeletedRows, DeletedRowsNotOnBoard
<1>2. CASE UNCHANGED <<rawPackets, checkins>>
  BY <1>2 DEF CheckinFromMonday
<1>3. ASSUME NEW h \in Handlers, StoreRaw(h), UNCHANGED checkins
      PROVE  CheckinFromMonday'
  <2>1. rawPackets \subseteq rawPackets'
    BY <1>3 DEF StoreRaw, InsertRawPacket, StatementFails, storeVars
  <2> QED
    BY <1>3, <2>1 DEF CheckinFromMonday
<1>4. ASSUME NEW h \in Handlers, Checkin(h), UNCHANGED rawPackets
      PROVE  CheckinFromMonday'
  <2> DEFINE c == [id |-> checkinSeq + 1, hash |-> msg[h].packet,
                   user |-> IngestSender[msg[h].packet],
                   week |-> MondayOf(msg[h].at)]
  <2>1. UNCHANGED checkins \/ checkins' = checkins \cup {c}
    BY <1>4
    DEF Checkin, InsertCheckin, StatementFails, storeVars, checkinVars
  <2>2. Stored(msg[h]) /\ IsMonday(msg[h].at)
    BY <1>4 DEF Checkin, Core, HandlerRow, YieldsCheckin
  <2>3. \E r \in rawPackets : /\ r.hash = c.hash
                              /\ IngestSender[c.hash] = c.user
                              /\ IsMonday(r.at)
                              /\ MondayOf(r.at) = c.week
    BY <2>2 DEF Stored
  <2> HIDE DEF c
  <2> QED
    BY <1>4, <2>1, <2>3 DEF CheckinFromMonday
<1> QED
  BY <1>1, <1>2, <1>3, <1>4, StoreSteps

LEMMA InitIInv == Init => IInv
BY InitCore DEF IInv, Init, StoreInit, CheckinFromMonday

LEMMA NextIInv == IInv /\ [Next]_vars => IInv'
BY NextCore, NextFromMonday DEF IInv

\* Every reachable state satisfies the inductive invariant.
THEOREM Invariance == Spec => []IInv
BY InitIInv, NextIInv, PTL DEF Spec

\* In every reachable state: every variable has its type ...
THEOREM TypeCorrect == Spec => []TypeOK
BY Invariance, PTL DEF IInv, Core

\* ... no row dangles, and hashes and (user, week) pairs are unique ...
THEOREM IntegrityHolds == Spec => []Integrity
BY Invariance, PTL DEF IInv, Core

\* ... a check-in belongs to a packet heard on the Monday of its week ...
THEOREM CheckinsFromMondays == Spec => []CheckinFromMonday
BY Invariance, PTL DEF IInv

\* ... and a prune has passed over no row that it should delete.
THEOREM ScanSkipsNothing == Spec => []ScannedRowsRetained
BY Invariance, PTL DEF IInv, Core

-----------------------------------------------------------------------------
(* What a step may never do *)

LEMMA NextKeepsCheckins ==
  ASSUME Core, [Next]_vars PROVE checkins \subseteq checkins'
BY StoreSteps, DeletesNoCheckin
DEF Checkin, InsertCheckin, StatementFails, storeVars, checkinVars

\* No check-in is lost, whatever happens between the reading of the protected
\* hashes and the deletion of a row.
THEOREM NoCheckinLost == Spec => CheckinsKept
<1>1. IInv /\ [Next]_vars => [checkins \subseteq checkins']_vars
  BY NextKeepsCheckins DEF IInv
<1> QED
  BY <1>1, Invariance, PTL DEF Spec, CheckinsKept

\* Retention deletes no packet of a Monday that is to be retained.
THEOREM NoRecentMondayLost == Spec => RecentMondaysKept
<1> DEFINE Kept == \A r \in rawPackets \ rawPackets' :
             IsMonday(r.at) =>
               MondayOf(r.at) < MondayOf(now) - Retain
<1>1. IInv /\ [Next]_vars => [Kept]_vars
  <2> SUFFICES ASSUME IInv, [Next]_vars,
                      NEW r \in rawPackets, r \notin rawPackets', IsMonday(r.at)
               PROVE  MondayOf(r.at) < MondayOf(now) - Retain
    OBVIOUS
  <2>1. DeleteRows
    BY StoreSteps
    DEF IInv, StoreRaw, InsertRawPacket, StatementFails, storeVars
  <2>2. ~ShouldRetain(r) /\ prunePc = "delete"
    BY <2>1, DeletedRows DEF IInv
  <2> QED
    BY <2>2, RetentionAssumption
    DEF ShouldRetain, MondayOf, IInv, Core, Timely, TypeOK,
        RetentionTypeOK,
        StoreTypeOK, RawRows, Instants
<1> QED
  BY <1>1, Invariance, PTL DEF Spec, RecentMondaysKept

-----------------------------------------------------------------------------
(* Links, when the restore tool does not run beside the server *)

LEMMA InitLinksRecent == Init => LinksRecent
BY DEF Init, StoreInit, RetentionInit, LinksRecent

\* The row a link was made for is not deleted, nor is the link.
LEMMA DeletesNoLink == ASSUME Core, LinksRecent, DeleteRows PROVE links' = links
<1> SUFFICES ASSUME NEW l \in links,
                    NEW r \in rawPackets, r.id \in Chunk, r.hash = l.hash
             PROVE  FALSE
  BY DEF DeleteRows, DeleteRawPackets, NotOf, HashesOf
<1>1. PICK s \in rawPackets :
        s.hash = l.hash /\ IsMonday(s.at) /\ s.at.week = l.week
  BY DEF LinksRecent
<1>2. s = r
  BY <1>1 DEF Core, Integrity
<1>3. ShouldRetain(r)
  BY <1>1, <1>2, DeletedRows DEF LinksRecent, ShouldRetain, MondayOf
<1> QED
  BY <1>3, DeletedRows

LEMMA DeleteRowsLinksRecent ==
  ASSUME Core, LinksRecent, DeleteRows PROVE LinksRecent'
<1>1. /\ rawPackets' = {r \in rawPackets : r.id \notin Chunk} /\ links' = links
      /\ prunePc = "delete" /\ UNCHANGED <<protected, cutoff>>
  BY DeletesNoLink, DeletedRows DEF DeleteRows
<1>2. ASSUME NEW l \in links
      PROVE  \E r \in rawPackets' :
               r.hash = l.hash /\ IsMonday(r.at) /\ r.at.week = l.week
  <2>1. PICK r \in rawPackets :
          r.hash = l.hash /\ IsMonday(r.at) /\ r.at.week = l.week
    BY DEF LinksRecent
  <2>2. ShouldRetain(r)
    BY <1>1, <2>1 DEF LinksRecent, ShouldRetain, MondayOf
  <2> QED
    BY <1>1, <2>1, <2>2, DeletedRows
<1> QED
  BY <1>1, <1>2 DEF LinksRecent

LEMMA MigrateLinksRecent ==
  ASSUME IInv, LinksRecent, Migrate,
         \/ UNCHANGED <<prunePc, protected, cutoff>>
         \/ prunePc' = "idle"
  PROVE  links \subseteq links' /\ LinksRecent'
BY MigrateAddsLinks
DEF LinksRecent, IInv, Core, CheckinFromMonday, NewCheckinsRecent, LinkOf,
    MondayOf

LEMMA LinkLinksRecent ==
  ASSUME Core, LinksRecent, NEW h \in Handlers, Link(h),
         UNCHANGED <<prunePc, protected, cutoff>>
  PROVE  links \subseteq links' /\ LinksRecent'
<1> DEFINE l == [week |-> MondayOf(msg[h].at),
                 user |-> IngestSender[msg[h].packet], hash |-> msg[h].packet]
<1>1. UNCHANGED rawPackets /\ (links' = links \/ links' = links \cup {l})
  BY DEF Link, StatementFails, InsertCheckinPacket, storeVars
<1>2. Stored(msg[h]) /\ IsMonday(msg[h].at) /\ l.week = now.week
  BY DEF Link, Core, HandlerRow, YieldsCheckin, Timely, MondayOf
<1>3. prunePc \in {"scan", "delete"} => l.week >= cutoff
  BY <1>2, RetentionAssumption
  DEF Core, Timely, TypeOK, RetentionTypeOK, Instants
<1>4. \E r \in rawPackets :
        r.hash = l.hash /\ IsMonday(r.at) /\ r.at.week = l.week
  BY <1>2 DEF Stored, MondayOf
<1> HIDE DEF l
<1> QED
  BY <1>1, <1>3, <1>4 DEF LinksRecent

LEMMA NextLinksRecent ==
  ASSUME "restore" \notin Env, IInv, LinksRecent, restorePc = "idle",
         [Next]_vars
  PROVE  LinksRecent' /\ links \subseteq links' /\ restorePc' = "idle"
<1> USE DEF storeVars, checkinVars, retentionVars, restoreVars
<1>1. ASSUME NEW h \in Handlers, Ingesting(h)
      PROVE  LinksRecent' /\ links \subseteq links' /\ restorePc' = "idle"
  <2>1. UNCHANGED <<prunePc, protected, cutoff, restorePc>>
    BY <1>1 DEF Ingesting
  <2>2. CASE Link(h)
    BY <2>1, <2>2, LinkLinksRecent DEF IInv
  <2>3. CASE ~Link(h)
    <3>1. UNCHANGED links /\ rawPackets \subseteq rawPackets'
      BY <1>1, <2>3
      DEF Ingesting, Receive, HandleMessage, StoreRaw, Observe, Checkin,
          InsertRawPacket, InsertPacketObservation, InsertCheckin,
          StatementFails
    <3> QED
      BY <2>1, <3>1 DEF LinksRecent
  <2> QED
    BY <2>2, <2>3
<1>2. CASE Pruning
  <2>1. CASE DeleteRows
    BY <1>2, <2>1, DeletesNoLink, DeleteRowsLinksRecent DEF IInv, Pruning
  <2>2. CASE ReadProtected
    BY <1>2, <2>2
    DEF Pruning, ReadProtected, LinksRecent, ProtectedPacketHashes, HashesOf
  <2>3. CASE StartPrune \/ ScanRows \/ FinishPrune \/ AbortPrune
    BY <1>2, <2>3
    DEF Pruning, StartPrune, ScanRows, FinishPrune, AbortPrune, StopPrune,
        StatementFails, LinksRecent
  <2> QED
    BY <1>2, <2>1, <2>2, <2>3 DEF Pruning, PruneStep
<1>3. CASE Restoring
  BY <1>3
  DEF Restoring, RestoreStep, OpenTool, QueryRawPackets, RestoreRow, ExitTool
<1>4. CASE Crash
  BY <1>4 DEF Crash, StopPrune, LinksRecent
<1>5. CASE Restart
  BY <1>5, MigrateLinksRecent DEF Restart
<1>6. CASE Tick \/ UNCHANGED vars
  BY <1>6 DEF Tick, vars, processVars, LinksRecent
<1> QED
  BY <1>1, <1>2, <1>3, <1>4, <1>5, <1>6 DEF Next

\* The other half of the promise in the README: links are kept too, unless the
\* restore tool is at work (the run restore_race shows how it loses one).
THEOREM NoLinkLost ==
  ASSUME "restore" \notin Env
  PROVE  Spec => LinksKept
<1> DEFINE J == LinksRecent /\ restorePc = "idle"
<1>1. Init => J
  BY InitLinksRecent DEF Init, RestoreInit
<1>2. IInv /\ J /\ [Next]_vars => J' /\ [links \subseteq links']_vars
  BY NextLinksRecent
<1> QED
  BY <1>1, <1>2, Invariance, PTL DEF Spec, LinksKept

-----------------------------------------------------------------------------
(* MeshMonday implements the check-in board *)

LEMMA InitBoard == Init => CheckinBoard!Init
BY DEF Init, StoreInit, CheckinBoard!Init, Archive, Posted

LEMMA StoreRawRefines ==
  ASSUME Core, NEW h \in Handlers, StoreRaw(h), UNCHANGED checkins
  PROVE  (\E p \in Packets, w \in 0..MaxWeek : CheckinBoard!Hear(p, w))
         \/ UNCHANGED <<Archive, Posted>>
<1> DEFINE m == msg[h]
           row == [id |-> rawSeq + 1, hash |-> m.packet,
                   iata |-> m.iata, at |-> m.at]
           entry == [packet |-> m.packet, week |-> MondayOf(m.at)]
<1>0. UNCHANGED Posted
  BY DEF Posted
<1>1. CASE UNCHANGED rawPackets
  BY <1>0, <1>1 DEF Archive
<1>2. CASE /\ ~ForeignKeyOK(m.packet) /\ rawPackets' = rawPackets \cup {row}
           /\ ~IsMonday(m.at)
  BY <1>0, <1>2 DEF Archive
<1>3. CASE /\ ~ForeignKeyOK(m.packet) /\ rawPackets' = rawPackets \cup {row}
           /\ IsMonday(m.at)
  <2>1. Archive' = Archive \cup {entry}
    <3>1. row.hash = m.packet /\ row.at = m.at
      OBVIOUS
    <3> HIDE DEF row
    <3> QED
      BY <1>3, <3>1 DEF Archive
  <2>2. \A a \in Archive : a.packet # m.packet
    BY <1>3 DEF Archive, ForeignKeyOK, HashesOf
  <2>3. m.packet \in Packets /\ MondayOf(m.at) \in 0..MaxWeek
    BY MaxWeekAssumption
    DEF StoreRaw, Core, TypeOK, IngestTypeOK, Messages, Instants, Timely,
        MondayOf
  <2>4. CheckinBoard!Hear(m.packet, MondayOf(m.at))
    BY <1>0, <2>1, <2>2 DEF CheckinBoard!Hear
  <2> QED
    BY <2>3, <2>4
<1> QED
  BY <1>1, <1>2, <1>3 DEF StoreRaw, InsertRawPacket, StatementFails, storeVars

LEMMA CheckinRefines ==
  ASSUME Core, NEW h \in Handlers, Checkin(h), UNCHANGED rawPackets
  PROVE  (\E a \in Archive : CheckinBoard!Post(a))
         \/ UNCHANGED <<Archive, Posted>>
<1> DEFINE p == msg[h].packet
           w == MondayOf(msg[h].at)
           c == [id |-> checkinSeq + 1, hash |-> p,
                 user |-> IngestSender[p], week |-> w]
           a == [packet |-> p, week |-> w]
<1>0. UNCHANGED Archive
  BY DEF Archive
<1>1. CASE UNCHANGED checkins
  BY <1>0, <1>1 DEF Posted
<1>2. CASE /\ ~CheckinConflict(p, IngestSender[p], w)
           /\ checkins' = checkins \cup {c}
  <2>1. Posted' = Posted \cup
          {[packet |-> p, user |-> IngestSender[p], week |-> w]}
    <3>1. c.hash = p /\ c.user = IngestSender[p] /\ c.week = w
      OBVIOUS
    <3> HIDE DEF c
    <3> QED
      BY <1>2, <3>1 DEF Posted
  <2>2. Stored(msg[h]) /\ YieldsCheckin(h)
    BY DEF Checkin, Core, HandlerRow, YieldsCheckin
  <2>3. a \in Archive
    BY <2>2 DEF Archive, Stored, YieldsCheckin
  <2>4. \A b \in Posted : b.user # IngestSender[p] \/ b.week # w
    BY <1>2 DEF Posted, CheckinConflict
  <2>5. CheckinBoard!Post(a)
    BY <1>0, <2>1, <2>2, <2>4 DEF CheckinBoard!Post, YieldsCheckin
  <2> QED
    BY <2>3, <2>5
<1> QED
  BY <1>1, <1>2
  DEF Checkin, InsertCheckin, StatementFails, storeVars, checkinVars

LEMMA DeleteRowsRefines ==
  ASSUME Core, DeleteRows
  PROVE  \E old \in SUBSET Archive : CheckinBoard!Forget(old)
<1> DEFINE old == Archive \ Archive'
<1>1. UNCHANGED Posted
  BY DeletesNoCheckin DEF Posted
<1>2. Archive' \subseteq Archive
  BY DeletedRows DEF Archive
<1>3. ASSUME NEW a \in old, NEW b \in Posted PROVE b.packet # a.packet
  <2>1. PICK r \in rawPackets :
          /\ IsMonday(r.at)
          /\ a = [packet |-> r.hash, week |-> MondayOf(r.at)]
    BY DEF Archive
  <2>2. r.id \in Chunk
    BY <2>1, DeletedRows DEF Archive
  <2>3. PICK c \in checkins : b.packet = c.hash
    BY DEF Posted
  <2> QED
    BY <2>1, <2>2, <2>3, DeletedRowsNotOnBoard
<1>4. CheckinBoard!Forget(old)
  BY <1>1, <1>2, <1>3 DEF CheckinBoard!Forget, CheckinBoard!OnBoard
<1> QED
  BY <1>2, <1>4

\* Every step of the system is a step of the board or invisible on it: a packet
\* is heard once, a check-in is filed for an archived packet, once per user and
\* week, and what the board refers to is never forgotten.
THEOREM Implements == Spec => BoardSpec
<1>1. IInv /\ [Next]_vars => [CheckinBoard!Next]_<<Archive, Posted>>
  <2> SUFFICES ASSUME IInv, [Next]_vars
               PROVE  CheckinBoard!Next \/ UNCHANGED <<Archive, Posted>>
    OBVIOUS
  <2>1. CASE DeleteRows
    BY <2>1, DeleteRowsRefines DEF IInv, CheckinBoard!Next
  <2>2. CASE UNCHANGED <<rawPackets, checkins>>
    BY <2>2 DEF Archive, Posted
  <2>3. CASE \E h \in Handlers : StoreRaw(h) /\ UNCHANGED checkins
    BY <2>3, StoreRawRefines DEF IInv, CheckinBoard!Next
  <2>4. CASE \E h \in Handlers : Checkin(h) /\ UNCHANGED rawPackets
    BY <2>4, CheckinRefines DEF IInv, CheckinBoard!Next
  <2> QED
    BY <2>1, <2>2, <2>3, <2>4, StoreSteps DEF IInv
<1> QED
  BY <1>1, InitBoard, Invariance, PTL DEF Spec, BoardSpec, CheckinBoard!Spec
=============================================================================
