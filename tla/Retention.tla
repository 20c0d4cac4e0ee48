----------------------------- MODULE Retention -----------------------------
(***************************************************************************)
(* internal/storage/retention.go: PruneRawPackets, run by the retention    *)
(* loop of cmd/server.  The hashes to protect are read once, before the    *)
(* first batch; rows are then scanned and deleted in small pieces while    *)
(* the handlers go on inserting.                                           *)
(***************************************************************************)
EXTENDS Store

CONSTANTS
  Retain,       \* RAW_MONDAY_RETAIN_WEEKS
  ScanBatch,    \* pruneScanBatchSize
  DeleteChunk   \* pruneDeleteChunk

ASSUME RetentionAssumption ==
  /\ Retain \in Nat
  /\ ScanBatch \in Nat \ {0}
  /\ DeleteChunk \in Nat \ {0}

VARIABLES
  prunePc,    \* "idle", "protect", "scan" or "delete"
  cutoff,     \* cutoffWeekStart
  protected,  \* the hashes read at the start
  lastId,     \* rows up to this id have been looked at
  toDelete    \* ids of the current batch still to be deleted

retentionVars == <<prunePc, cutoff, protected, lastId, toDelete>>

RetentionTypeOK ==
  /\ prunePc \in {"idle", "protect", "scan", "delete"}
  /\ cutoff \in Int
  /\ protected \subseteq Packets
  /\ lastId \in Nat
  /\ toDelete \subseteq Nat

RetentionInit ==
  /\ prunePc = "idle" /\ cutoff = 0 /\ protected = {}
  /\ lastId = 0 /\ toDelete = {}

\* Mutant: the next run goes on where this one stopped.
StopPruneHere ==
  /\ prunePc' = "idle" /\ cutoff' = 0 /\ protected' = {}
  /\ toDelete' = {} /\ UNCHANGED lastId

\* PruneRawPackets returns; its locals are gone.
StopPrune ==
  /\ prunePc' = "idle" /\ cutoff' = 0 /\ protected' = {}
  /\ lastId' = 0 /\ toDelete' = {}

-----------------------------------------------------------------------------
\* Mutant: one week too few is retained.
StartPruneEarly ==
  /\ prunePc = "idle"
  /\ prunePc' = "protect"
  /\ cutoff' = MondayOf(now) - Retain + 1
  /\ UNCHANGED <<protected, lastId, toDelete, storeVars>>

\* A tick of the retention loop reads the clock ...
StartPrune ==
  /\ prunePc = "idle"
  /\ prunePc' = "protect"
  /\ cutoff' = MondayOf(now) - Retain
  /\ UNCHANGED <<protected, lastId, toDelete, storeVars>>

\* ... and then the hashes.
ReadProtected ==
  /\ prunePc = "protect"
  /\ prunePc' = "scan"
  /\ protected' = ProtectedPacketHashes
  /\ UNCHANGED <<cutoff, lastId, toDelete, storeVars>>

\* Mutant: recent Mondays are not retained for their own sake.
RetainProtected(r) == r.hash \in protected

ShouldRetain(r) ==
  \/ r.hash \in protected
  \/ IsMonday(r.at) /\ MondayOf(r.at) >= cutoff

\* Mutant: ORDER BY id DESC.
LastRows ==
  {r \in rawPackets :
     /\ r.id > lastId
     /\ Cardinality({s \in rawPackets : s.id > r.id}) < ScanBatch}

\* WHERE id > lastId ORDER BY id LIMIT ScanBatch
Batch ==
  {r \in rawPackets :
     /\ r.id > lastId
     /\ Cardinality({s \in rawPackets : s.id > lastId /\ s.id < r.id})
          < ScanBatch}

Doomed == {r \in Batch : ~ShouldRetain(r)}

\* A batch without a doomed row is passed over; after a batch with some, the
\* scan starts from the same lastId again.
ScanRows ==
  /\ prunePc = "scan"
  /\ Batch # {}
  /\ IF Doomed = {}
     THEN /\ \E r \in Batch : (\A s \in Batch : s.id =< r.id) /\ lastId' = r.id
          /\ UNCHANGED <<prunePc, toDelete>>
     ELSE /\ toDelete' = {r.id : r \in Doomed}
          /\ prunePc' = "delete"
          /\ UNCHANGED lastId
  /\ UNCHANGED <<cutoff, protected, storeVars>>

FinishPrune ==
  /\ prunePc = "scan"
  /\ Batch = {}
  /\ StopPrune
  /\ UNCHANGED storeVars

\* The next DeleteChunk ids, smallest first.
Chunk ==
  {i \in toDelete : Cardinality({j \in toDelete : j < i}) < DeleteChunk}

DeleteRows ==
  /\ prunePc = "delete"
  /\ DeleteRawPackets(Chunk)
  /\ toDelete' = toDelete \ Chunk
  /\ prunePc' = IF toDelete' = {} THEN "scan" ELSE "delete"
  /\ UNCHANGED <<cutoff, protected, lastId>>

\* A query fails, or a delete is still SQLITE_BUSY after its retries, or the
\* context is cancelled at shutdown: the run ends early.
AbortPrune ==
  /\ prunePc # "idle"
  /\ StatementFails
  /\ StopPrune

PruneStep == ReadProtected \/ ScanRows \/ FinishPrune \/ DeleteRows
=============================================================================
