------------------------------- MODULE Backup ------------------------------
(***************************************************************************)
(* scripts/backup_sqlite.sh copies the database file while the server      *)
(* commits to the write-ahead log beside it (journal_mode=WAL) and moves   *)
(* the log into the file at checkpoints.  cp reads the file page by page;  *)
(* of SQLite, only which version of a page is in the file is modelled.     *)
(***************************************************************************)
EXTENDS Naturals, Sequences, FiniteSetsExt

CONSTANTS
  PageCount,   \* pages of the database file
  MaxCommits   \* bound: transactions committed

ASSUME BackupAssumption == PageCount \in Nat \ {0} /\ MaxCommits \in Nat

Pages == 1..PageCount

VARIABLES
  commits,    \* the transactions so far, each the set of pages it wrote
  file,       \* per page of the file: the transaction whose version it holds
  target,     \* the checkpoint in progress moves the log up to here; 0: none
  copied,     \* how many pages cp has read
  copy,       \* what it read
  overlapped  \* history: a checkpoint was under way while cp was reading

backupVars == <<commits, file, target, copied, copy, overlapped>>

\* Page p after the first n transactions.
Version(n, p) == Max({0} \cup {k \in 1..n : p \in commits[k]})

\* The database as the first n transactions left it.
DatabaseAt(n) == [p \in Pages |-> Version(n, p)]

BackupInit ==
  /\ commits = << >>
  /\ file = [p \in Pages |-> 0]
  /\ target = 0
  /\ copied = 0
  /\ copy = [p \in Pages |-> 0]
  /\ overlapped = FALSE

\* Mutant: no journal_mode(WAL); a commit writes to the file.
CommitInPlace ==
  /\ Len(commits) < MaxCommits
  /\ \E pages \in SUBSET Pages \ {{}} : commits' = Append(commits, pages)
  /\ file' = [p \in Pages |-> Version(Len(commits), p)']
  /\ UNCHANGED <<target, copied, copy, overlapped>>

\* With journal_mode(WAL) a commit goes to the log only.
Commit ==
  /\ Len(commits) < MaxCommits
  /\ \E pages \in SUBSET Pages \ {{}} : commits' = Append(commits, pages)
  /\ UNCHANGED <<file, target, copied, copy, overlapped>>

\* PRAGMA wal_checkpoint, after a prune that deleted rows.
CheckpointWal ==
  /\ target = 0
  /\ target' = Len(commits)
  /\ UNCHANGED <<commits, file, copied, copy, overlapped>>

\* The checkpoint writes a page to the file; with the last it is over.
MovePage ==
  /\ target > 0
  /\ \E p \in Pages : file' = [file EXCEPT ![p] = Version(target, p)]
  /\ target' = IF file' = DatabaseAt(target) THEN 0 ELSE target
  /\ overlapped' = (overlapped \/ copied \in 1..PageCount - 1)
  /\ UNCHANGED <<commits, copied, copy>>

\* cp reads the next page.
CopyPage ==
  /\ copied < PageCount
  /\ copied' = copied + 1
  /\ copy' = [copy EXCEPT ![copied'] = file[copied']]
  /\ overlapped' = (overlapped \/ target > 0)
  /\ UNCHANGED <<commits, file, target>>

BackupNext == Commit \/ CheckpointWal \/ MovePage \/ CopyPage

BackupSpec == BackupInit /\ [][BackupNext]_backupVars

-----------------------------------------------------------------------------
\* "backups/ is where scripts/backup_sqlite.sh writes snapshots": a finished
\* backup is the database as some transaction left it, whatever was committed
\* meanwhile.  Of checkpoints this is not true: neither of one that moves
\* pages while cp reads, nor of one that cp finds half done.
BackupIsASnapshot ==
  copied = PageCount /\ ~overlapped =>
    \E n \in 0..Len(commits) : copy = DatabaseAt(n)
=============================================================================
