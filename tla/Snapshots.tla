----------------------------- MODULE Snapshots -----------------------------
(***************************************************************************)
(* computeLeaderboard of internal/web, run by concurrent requests of the   *)
(* leaderboard page and its API: a request reads the check-ins, computes   *)
(* its entries, and replaces the table leaderboard_snapshots by them in a  *)
(* transaction, before it answers with the entries it computed.            *)
(*                                                                         *)
(* The check-ins are numbered in the order they are filed, each by a user  *)
(* of its own, so a computation is the number of check-ins it read.        *)
(***************************************************************************)
EXTENDS Naturals

CONSTANTS
  Requests,    \* requests that may be in progress
  Nobody,      \* no request
  MaxCheckins  \* bound: check-ins filed

ASSUME SnapshotsAssumption == Nobody \notin Requests /\ MaxCheckins \in Nat

VARIABLES
  filed,    \* check-ins stored
  at,       \* per request: "idle", "query", "replace", "insert" or "respond"
  read,     \* per request: the check-ins its query returned
  writer,   \* the request whose transaction holds the write lock
  draft,    \* the table as that transaction sees it
  table,    \* leaderboard_snapshots as committed
  answer,   \* per request: what it answered last
  floor     \* history, per request: the newest answer given before it came

requestVars == <<at, read, answer, floor>>
tableVars == <<writer, draft, table>>
snapshotVars == <<filed, requestVars, tableVars>>

Metrics == {"most_checkins", "longest_streak"}
Rows == [metric : Metrics, user : Nat, of : Nat]

\* What the computation over the first n check-ins puts into the table.
RowsOf(n) == [metric : Metrics, user : 1..n, of : {n}]

SnapshotsInit ==
  /\ filed = 0
  /\ at = [r \in Requests |-> "idle"]
  /\ read = [r \in Requests |-> 0]
  /\ writer = Nobody /\ draft = {} /\ table = {}
  /\ answer = [r \in Requests |-> 0]
  /\ floor = [r \in Requests |-> 0]

MoveTo(r, next) == at' = [at EXCEPT ![r] = next]

-----------------------------------------------------------------------------
\* Ingest files a check-in.
FileCheckin ==
  /\ filed < MaxCheckins
  /\ filed' = filed + 1
  /\ UNCHANGED <<requestVars, tableVars>>

\* GET or HEAD: another method is refused before anything is read.
Arrive(r) ==
  /\ at[r] = "idle"
  /\ MoveTo(r, "query")
  /\ \E n \in {answer[q] : q \in Requests} :
       /\ \A q \in Requests : answer[q] =< n
       /\ floor' = [floor EXCEPT ![r] = n]
  /\ UNCHANGED <<filed, read, answer, tableVars>>

\* ListCheckinsSince and Compute; a failing query is a 500.
Query(r) ==
  /\ at[r] = "query"
  /\ \/ /\ read' = [read EXCEPT ![r] = filed]
        /\ MoveTo(r, "replace")
     \/ /\ MoveTo(r, "idle")
        /\ UNCHANGED read
  /\ UNCHANGED <<filed, answer, floor, tableVars>>

\* The deferred Rollback: before a Commit it drops the draft and the lock.
Rollback(r) ==
  /\ writer' = IF writer = r THEN Nobody ELSE writer
  /\ draft' = IF writer = r THEN {} ELSE draft
  /\ UNCHANGED table

\* DELETE FROM leaderboard_snapshots takes the write lock.
DeleteAll(r) ==
  /\ at[r] = "replace"
  /\ writer = Nobody
  /\ writer' = r /\ draft' = {}
  /\ MoveTo(r, "insert")
  /\ UNCHANGED <<filed, read, answer, floor, table>>

\* Mutant: no transaction; each statement commits.
InsertCommitted(r) ==
  /\ at[r] = "insert"
  /\ \E row \in RowsOf(read[r]) \ draft :
       draft' = draft \cup {row} /\ table' = table \cup {row}
  /\ UNCHANGED <<filed, requestVars, writer>>

InsertRow(r) ==
  /\ at[r] = "insert"
  /\ \E row \in RowsOf(read[r]) \ draft : draft' = draft \cup {row}
  /\ UNCHANGED <<filed, requestVars, writer, table>>

Commit(r) ==
  /\ at[r] = "insert"
  /\ draft = RowsOf(read[r])
  /\ table' = draft
  /\ writer' = Nobody /\ draft' = {}
  /\ MoveTo(r, "respond")
  /\ UNCHANGED <<filed, read, answer, floor>>

\* Mutant: an error returns without Rollback.
FailLocked(r) ==
  /\ at[r] \in {"replace", "insert"}
  /\ MoveTo(r, "respond")
  /\ UNCHANGED <<filed, read, answer, floor, tableVars>>

\* A statement fails (SQLITE_BUSY, a client that went away): a warning.
Fail(r) ==
  /\ at[r] \in {"replace", "insert"}
  /\ Rollback(r)
  /\ MoveTo(r, "respond")
  /\ UNCHANGED <<filed, read, answer, floor>>

\* Mutant: the answer is what the table holds.
RespondFromTable(r) ==
  /\ at[r] = "respond"
  /\ \E n \in {0} \cup {row.of : row \in table} :
       /\ table = RowsOf(n)
       /\ answer' = [answer EXCEPT ![r] = n]
  /\ MoveTo(r, "idle")
  /\ UNCHANGED <<filed, read, floor, tableVars>>

Respond(r) ==
  /\ at[r] = "respond"
  /\ answer' = [answer EXCEPT ![r] = read[r]]
  /\ MoveTo(r, "idle")
  /\ UNCHANGED <<filed, read, floor, tableVars>>

Serve(r) ==
  Query(r) \/ DeleteAll(r) \/ InsertRow(r) \/ Commit(r) \/ Fail(r) \/ Respond(r)

\* The server dies and is started again; SQLite rolls the open transaction
\* back, and no client waits any more.
CrashAndRestart ==
  /\ at' = [r \in Requests |-> "idle"]
  /\ writer' = Nobody /\ draft' = {}
  /\ UNCHANGED <<filed, read, answer, floor, table>>

SnapshotsNext ==
  \/ FileCheckin
  \/ \E r \in Requests : Arrive(r) \/ Serve(r)
  \/ CrashAndRestart

SnapshotsSpec == SnapshotsInit /\ [][SnapshotsNext]_snapshotVars

\* A request that is being served goes on; busy_timeout bounds its wait for
\* the lock (Fail).
SnapshotsFairness == \A r \in Requests : WF_snapshotVars(Serve(r))

-----------------------------------------------------------------------------
\* Whatever requests overlap, fail or die half-way: the table holds the rows of
\* one computation, all of them, and both metrics.
TableIsOneComputation == \E n \in 0..filed : table = RowsOf(n)

\* An older computation may replace a newer one in the table.  No answer goes
\* back in time with it: a request never answers with fewer check-ins than
\* an answer that had been given before it came.
AnswersNeverGoBack ==
  [][\A r \in Requests : Respond(r) => answer'[r] >= floor[r]]_snapshotVars

SnapshotsTypeOK ==
  /\ filed \in Nat
  /\ at \in [Requests -> {"idle", "query", "replace", "insert", "respond"}]
  /\ read \in [Requests -> Nat]
  /\ writer \in Requests \cup {Nobody}
  /\ draft \subseteq Rows /\ table \subseteq Rows
  /\ answer \in [Requests -> Nat] /\ floor \in [Requests -> Nat]

\* Who holds the lock is inserting the rows of what it has read, and nobody
\* else has a transaction open.
OneTransaction ==
  \A r \in Requests :
    IF writer = r THEN at[r] = "insert" /\ draft \subseteq RowsOf(read[r])
                  ELSE at[r] # "insert"

\* What was read or answered had been filed, and a request has read at least
\* what had been answered when it came.
ReadsAreRecent ==
  \A r \in Requests :
    /\ read[r] =< filed /\ answer[r] =< filed /\ floor[r] =< filed
    /\ at[r] \in {"replace", "insert", "respond"} => read[r] >= floor[r]

\* The inductive invariant.
SnapshotsInv ==
  /\ SnapshotsTypeOK
  /\ OneTransaction
  /\ ReadsAreRecent
  /\ TableIsOneComputation

\* No request keeps the lock, under which no handler could file a check-in.
LockIsReleased ==
  \A r \in Requests : writer = r ~> writer # r
=============================================================================
