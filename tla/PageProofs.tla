----------------------------- MODULE PageProofs -----------------------------
(***************************************************************************)
(* Proofs about the leaderboard page: the snapshots its requests write,    *)
(* for any number of requests and check-ins, and the rows that the script  *)
(* in the browser shows.                                                   *)
(***************************************************************************)
EXTENDS Snapshots, LeaderboardFilter, TLAPS

LEMMA InitSnapshotsInv == SnapshotsInit => SnapshotsInv
<1> SUFFICES ASSUME SnapshotsInit PROVE SnapshotsInv
  OBVIOUS
<1> USE SnapshotsAssumption DEF SnapshotsInit
<1>1. SnapshotsTypeOK
  BY DEF SnapshotsTypeOK
<1>2. OneTransaction /\ ReadsAreRecent
  BY DEF OneTransaction, ReadsAreRecent
<1>3. TableIsOneComputation
  <2>1. RowsOf(0) = {}
    BY DEF RowsOf
  <2> QED  BY <2>1 DEF TableIsOneComputation
<1> QED  BY <1>1, <1>2, <1>3 DEF SnapshotsInv

\* A step that leaves the table alone keeps it the rows of one computation.
LEMMA SameTable ==
  ASSUME SnapshotsInv, UNCHANGED <<table>>, filed' \in Nat, filed' >= filed
  PROVE  TableIsOneComputation'
<1>1. PICK n \in 0..filed : table = RowsOf(n)
  BY DEF SnapshotsInv, TableIsOneComputation
<1>2. n \in 0..filed' /\ table' = RowsOf(n)
  BY <1>1 DEF SnapshotsInv, SnapshotsTypeOK
<1> QED  BY <1>2 DEF TableIsOneComputation, RowsOf

LEMMA NextSnapshotsInv ==
  SnapshotsInv /\ [SnapshotsNext]_snapshotVars => SnapshotsInv'
<1> SUFFICES ASSUME SnapshotsInv, [SnapshotsNext]_snapshotVars
             PROVE  SnapshotsInv'
  OBVIOUS
<1> USE SnapshotsAssumption DEF requestVars, tableVars
<1>0. SnapshotsTypeOK /\ OneTransaction /\ ReadsAreRecent
      /\ TableIsOneComputation
  BY DEF SnapshotsInv
<1>1. CASE FileCheckin
  <2> USE DEF FileCheckin
  <2>1. SnapshotsTypeOK' /\ OneTransaction'
    BY <1>0, <1>1 DEF SnapshotsTypeOK, OneTransaction, RowsOf
  <2>2. ReadsAreRecent'
    BY <1>0, <1>1 DEF SnapshotsTypeOK, ReadsAreRecent
  <2>3. TableIsOneComputation'
    BY <1>0, <1>1, SameTable DEF SnapshotsTypeOK
  <2> QED  BY <2>1, <2>2, <2>3 DEF SnapshotsInv
<1>2. ASSUME NEW r \in Requests, Arrive(r) \/ Query(r) PROVE SnapshotsInv'
  <2> USE DEF Arrive, Query, MoveTo
  <2>1. SnapshotsTypeOK'
    BY <1>0, <1>2 DEF SnapshotsTypeOK
  <2>2. OneTransaction'
    BY <1>0, <1>2 DEF SnapshotsTypeOK, OneTransaction, RowsOf
  <2>3. ReadsAreRecent'
    BY <1>0, <1>2 DEF SnapshotsTypeOK, ReadsAreRecent
  <2>4. TableIsOneComputation'
    BY <1>0, <1>2, SameTable DEF SnapshotsTypeOK
  <2> QED  BY <2>1, <2>2, <2>3, <2>4 DEF SnapshotsInv
<1>3. ASSUME NEW r \in Requests, DeleteAll(r) PROVE SnapshotsInv'
  <2> USE DEF DeleteAll, MoveTo
  <2>1. SnapshotsTypeOK' /\ ReadsAreRecent'
    BY <1>0, <1>3 DEF SnapshotsTypeOK, ReadsAreRecent
  <2>2. OneTransaction'
    BY <1>0, <1>3 DEF SnapshotsTypeOK, OneTransaction
  <2>3. TableIsOneComputation'
    BY <1>0, <1>3, SameTable DEF SnapshotsTypeOK
  <2> QED  BY <2>1, <2>2, <2>3 DEF SnapshotsInv
<1>4. ASSUME NEW r \in Requests, InsertRow(r) PROVE SnapshotsInv'
  <2> USE DEF InsertRow
  <2>1. writer = r
    BY <1>0, <1>4 DEF OneTransaction
  <2>2. RowsOf(read[r]) \subseteq Rows
    BY <1>0 DEF SnapshotsTypeOK, RowsOf, Rows
  <2>3. SnapshotsTypeOK' /\ ReadsAreRecent'
    BY <1>0, <1>4, <2>2 DEF SnapshotsTypeOK, ReadsAreRecent
  <2>4. OneTransaction'
    BY <1>0, <1>4, <2>1 DEF OneTransaction, RowsOf
  <2>5. TableIsOneComputation'
    BY <1>0, <1>4, SameTable DEF SnapshotsTypeOK
  <2> QED  BY <2>3, <2>4, <2>5 DEF SnapshotsInv
<1>5. ASSUME NEW r \in Requests, Commit(r) PROVE SnapshotsInv'
  <2> USE DEF Commit, MoveTo
  <2>1. writer = r
    BY <1>0, <1>5 DEF OneTransaction
  <2>2. SnapshotsTypeOK' /\ ReadsAreRecent'
    BY <1>0, <1>5 DEF SnapshotsTypeOK, ReadsAreRecent
  <2>3. OneTransaction'
    BY <1>0, <1>5, <2>1 DEF SnapshotsTypeOK, OneTransaction
  <2>4. read[r] \in 0..filed' /\ table' = RowsOf(read[r])
    BY <1>0, <1>5 DEF SnapshotsTypeOK, ReadsAreRecent
  <2>5. TableIsOneComputation'
    BY <2>4 DEF TableIsOneComputation, RowsOf
  <2> QED  BY <2>2, <2>3, <2>5 DEF SnapshotsInv
<1>6. ASSUME NEW r \in Requests, Fail(r) PROVE SnapshotsInv'
  <2> USE DEF Fail, Rollback, MoveTo
  <2>1. SnapshotsTypeOK' /\ ReadsAreRecent'
    BY <1>0, <1>6 DEF SnapshotsTypeOK, ReadsAreRecent
  <2>2. OneTransaction'
    BY <1>0, <1>6 DEF SnapshotsTypeOK, OneTransaction, RowsOf
  <2>3. TableIsOneComputation'
    BY <1>0, <1>6, SameTable DEF SnapshotsTypeOK
  <2> QED  BY <2>1, <2>2, <2>3 DEF SnapshotsInv
<1>7. ASSUME NEW r \in Requests, Respond(r) PROVE SnapshotsInv'
  <2> USE DEF Respond, MoveTo
  <2>1. SnapshotsTypeOK' /\ ReadsAreRecent'
    BY <1>0, <1>7 DEF SnapshotsTypeOK, ReadsAreRecent
  <2>2. OneTransaction'
    BY <1>0, <1>7 DEF SnapshotsTypeOK, OneTransaction, RowsOf
  <2>3. TableIsOneComputation'
    BY <1>0, <1>7, SameTable DEF SnapshotsTypeOK
  <2> QED  BY <2>1, <2>2, <2>3 DEF SnapshotsInv
<1>8. CASE CrashAndRestart
  <2> USE DEF CrashAndRestart
  <2>1. SnapshotsTypeOK' /\ ReadsAreRecent'
    BY <1>0, <1>8 DEF SnapshotsTypeOK, ReadsAreRecent
  <2>2. OneTransaction'
    BY <1>0, <1>8 DEF OneTransaction
  <2>3. TableIsOneComputation'
    BY <1>0, <1>8, SameTable DEF SnapshotsTypeOK
  <2> QED  BY <2>1, <2>2, <2>3 DEF SnapshotsInv
<1>9. CASE UNCHANGED snapshotVars
  BY <1>0, <1>9 DEF snapshotVars, SnapshotsInv, SnapshotsTypeOK,
     OneTransaction, ReadsAreRecent, TableIsOneComputation, RowsOf
<1> QED
  BY <1>1, <1>2, <1>3, <1>4, <1>5, <1>6, <1>7, <1>8, <1>9
  DEF SnapshotsNext, Serve

LEMMA SnapshotsInvariant == SnapshotsSpec => []SnapshotsInv
BY InitSnapshotsInv, NextSnapshotsInv, PTL DEF SnapshotsSpec

\* Overlapping, failing and dying requests never leave a mixture of two
\* computations, or half of one, in leaderboard_snapshots.
THEOREM TableIsWhole == SnapshotsSpec => []TableIsOneComputation
BY SnapshotsInvariant, PTL DEF SnapshotsInv

\* No request answers with less than what had been answered when it came.
THEOREM AnswersGoForward == SnapshotsSpec => AnswersNeverGoBack
<1>1. SnapshotsInv /\ [SnapshotsNext]_snapshotVars
        => [\A r \in Requests : Respond(r) => answer'[r] >= floor[r]
           ]_snapshotVars
  BY DEF SnapshotsInv, SnapshotsTypeOK, ReadsAreRecent, Respond
<1> QED
  BY <1>1, SnapshotsInvariant, PTL DEF SnapshotsSpec, AnswersNeverGoBack

-----------------------------------------------------------------------------
(***************************************************************************)
(* What the leaderboard shows, for any set of people and any queries, and  *)
(* however late the browser draws its frames.                              *)
(***************************************************************************)
\* The classes follow the query, but for the rows of overtaken frames.  Rows
\* that do not match are filtered out, the others are so only as long as their
\* frame is pending; pending frames of rows that do not match are overtaken.
ClassesFollowQuery ==
  /\ rows \ query \subseteq filteredOut \cup overtaken
  /\ filteredOut \cap query \subseteq showFrames
  /\ showFrames \subseteq query \cup overtaken

FilterInv ==
  FilterTypeOK /\ ClassesFollowQuery /\ SaysWhatMatches /\ MatchesKeepPlace

LEMMA FilterInitInv == FilterInit => FilterInv
BY FilterAssumption
   DEF FilterInit, FilterInv, FilterTypeOK, ClassesFollowQuery,
       SaysWhatMatches, MatchesKeepPlace

LEMMA FilterStepInv ==
  ASSUME FilterInv, [FilterNext]_filterVars
  PROVE  FilterInv'
<1> USE DEF FilterInv, FilterTypeOK, ClassesFollowQuery, SaysWhatMatches,
            MatchesKeepPlace
<1>1. CASE Input
  BY <1>1 DEF Input, Apply
<1>2. CASE Frame
  BY <1>2 DEF Frame, CommitGone
<1>3. CASE TimerFires
  BY <1>3 DEF TimerFires, CommitGone
<1>4. ASSUME NEW r \in People, FadeOut(r) \/ FadeIn(r)
      PROVE  FilterInv'
  <2>1. FilterTypeOK'
    BY <1>4 DEF FadeOut, FadeIn, frameVars
  <2>2. ClassesFollowQuery' /\ SaysWhatMatches' /\ MatchesKeepPlace'
    BY <1>4 DEF FadeOut, FadeIn, frameVars
  <2> QED BY <2>1, <2>2
<1>5. CASE ReplaceMain
  BY <1>5 DEF ReplaceMain, Wire, Apply
<1>6. CASE StartRefresh \/ RefreshFails
  <2>1. UNCHANGED <<rows, query, filteredOut, gone, ariaHidden, faded, noMatch,
                    showFrames, flipFrame, timer, overtaken>>
    BY <1>6 DEF StartRefresh, RefreshFails, rowVars, frameVars
  <2>2. fetching' \in BOOLEAN
    BY <1>6 DEF StartRefresh, RefreshFails
  <2>3. FilterTypeOK'
    BY <2>1, <2>2
  <2>4. ClassesFollowQuery' /\ SaysWhatMatches' /\ MatchesKeepPlace'
    BY <2>1
  <2> QED BY <2>3, <2>4
<1>7. CASE UNCHANGED filterVars
  BY <1>7 DEF filterVars, rowVars, frameVars
<1> QED BY <1>1, <1>2, <1>3, <1>4, <1>5, <1>6, <1>7 DEF FilterNext

\* Between frames the page shows exactly the rows that match, but for rows of
\* overtaken frames, whatever inputs, refreshes, fades and timers come in
\* between and however late the frames are; and it says so at any time.
THEOREM FilterIsRespected ==
  FilterSpec => [](FilterTypeOK /\ ShowsMatches /\ SaysWhatMatches
                     /\ MatchesKeepPlace)
<1>1. FilterInv => FilterTypeOK /\ ShowsMatches /\ SaysWhatMatches
                     /\ MatchesKeepPlace
  BY DEF FilterInv, FilterTypeOK, ClassesFollowQuery, MatchesKeepPlace,
         ShowsMatches, Shown
<1>2. FilterInv /\ [FilterNext]_filterVars => FilterInv'
  BY FilterStepInv
<1> QED BY <1>1, <1>2, FilterInitInv, PTL DEF FilterSpec
=============================================================================
