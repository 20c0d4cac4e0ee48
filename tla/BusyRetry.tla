----------------------------- MODULE BusyRetry -----------------------------
(***************************************************************************)
(* How long a call of HandleMessage can last: withBusyRetry executes each  *)
(* of its statements again while SQLite reports SQLITE_BUSY, which it does *)
(* after waiting up to busy_timeout for the lock.  Ingest models no time   *)
(* and only takes from here that a handler returns, and returns within the *)
(* week in which it heard its packet.                                      *)
(***************************************************************************)
EXTENDS Naturals

CONSTANTS
  Statements,    \* statements of the call: raw packet, observation, ...
  Retries,       \* busyRetryAttempts
  BusyTimeout,   \* the pragma of sqliteDSN
  RetryDelay     \* busyRetryDelay

ASSUME BusyRetryAssumption ==
  /\ Statements \in Nat \ {0} /\ Retries \in Nat
  /\ BusyTimeout \in Nat /\ RetryDelay \in Nat

VARIABLES
  statement,  \* the statement being executed; above Statements: returned
  attempt,    \* of that statement, from 0
  phase,      \* "try" or "delay"
  elapsed,    \* time since the call began
  inserted    \* the first statement stored a new row

busyVars == <<statement, attempt, phase, elapsed, inserted>>

BusyInit ==
  /\ statement = 1 /\ attempt = 0 /\ phase = "try"
  /\ elapsed = 0 /\ inserted = FALSE

Returned == statement > Statements

\* Executing the statement takes until it gets the lock, or BusyTimeout.
Wait == \E t \in 0..BusyTimeout : elapsed' = elapsed + t

GoOn(next) == statement' = next /\ attempt' = 0 /\ phase' = "try"

\* The first statement succeeds with a new row or a duplicate; a duplicate
\* gets its observation and no more.
Succeed ==
  /\ phase = "try" /\ ~Returned
  /\ Wait
  /\ IF statement = 1
     THEN inserted' \in BOOLEAN /\ GoOn(2)
     ELSE /\ GoOn(IF inserted THEN statement + 1 ELSE Statements + 1)
          /\ UNCHANGED inserted

\* An error is final when it is not SQLITE_BUSY, or after the last attempt.
\* Without its raw packet the call returns; other errors are logged.
GiveUp ==
  /\ phase = "try" /\ ~Returned
  /\ Wait
  /\ GoOn(IF statement > 1 /\ inserted THEN statement + 1 ELSE Statements + 1)
  /\ UNCHANGED inserted

\* Mutant: the attempts are not counted.
BusyForEver ==
  /\ phase = "try" /\ ~Returned
  /\ Wait
  /\ phase' = "delay"
  /\ UNCHANGED <<statement, attempt, inserted>>

Busy ==
  /\ phase = "try" /\ ~Returned
  /\ attempt < Retries
  /\ Wait
  /\ phase' = "delay"
  /\ UNCHANGED <<statement, attempt, inserted>>

Retry ==
  /\ phase = "delay"
  /\ elapsed' = elapsed + RetryDelay
  /\ attempt' = attempt + 1
  /\ phase' = "try"
  /\ UNCHANGED <<statement, inserted>>

BusyNext == Succeed \/ GiveUp \/ Busy \/ Retry

BusySpec == BusyInit /\ [][BusyNext]_busyVars

-----------------------------------------------------------------------------
\* What one attempt can take, with the delay after it, and one statement.
AttemptBudget == BusyTimeout + RetryDelay
StatementBudget == (Retries + 1) * AttemptBudget

\* Half an hour in numbers (4 * 16 * 30.05 s): no handler that heard a packet
\* on Monday is still at work on the next one, although every attempt of every
\* statement may wait for the lock as long as it can.
HandlerIsBrief == elapsed =< Statements * StatementBudget

BusyTypeOK ==
  /\ statement \in 1..Statements + 1
  /\ attempt \in 0..Retries
  /\ phase \in {"try", "delay"}
  /\ elapsed \in Nat
  /\ inserted \in BOOLEAN
  /\ phase = "delay" => ~Returned /\ attempt < Retries
  /\ Returned => attempt = 0

\* The time that has passed was spent on the statements before this one and on
\* the earlier attempts of this one.
TimeIsAccounted ==
  elapsed =< (statement - 1) * StatementBudget + attempt * AttemptBudget
             + (IF phase = "delay" THEN BusyTimeout ELSE 0)

BusyInv == BusyTypeOK /\ TimeIsAccounted
=============================================================================
