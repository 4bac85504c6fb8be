---------------------------- MODULE OutboxQueue ----------------------------
(***************************************************************************)
(* The table google_sync_outbox and what one SQL statement of outbox.py    *)
(* does to it: which row a claim may take, and the row each helper writes. *)
(* There is no state here: a table is an argument or the row it yields is  *)
(* the value, so that every module that owns a table can use the same      *)
(* operators.                                                              *)
(*                                                                         *)
(* Instants are kept relative to "now", because the code only ever         *)
(* compares them with the clock: waitTime is available_at - now (never     *)
(* below 0) and lockAge is now - locked_at (never above Lease).            *)
(***************************************************************************)
EXTENDS Naturals

CONSTANTS
  Job,               \* the rows the table can hold (a bound of the model)
  Key,               \* the idempotency keys
  Worker,            \* the worker processes
  NoKey, NoWorker,   \* "no value" of the two columns
  Priority,          \* OPERATION_PRIORITIES of the operation behind each key
  Lease,             \* PROCESSING_LEASE_TIMEOUT, in ticks
  MaxAttempts,       \* MAX_ATTEMPTS
  RetryBackoff,      \* get_retry_backoff for each attempts value, in ticks
  ContinuationDelay  \* google_reconcile_continuation_delay_seconds, in ticks

ASSUME QueueAssumption ==
  /\ NoKey \notin Key
  /\ NoWorker \notin Worker
  /\ Priority \in [Key -> Nat]
  /\ Lease \in Nat \ {0}
  /\ MaxAttempts \in Nat \ {0}
  /\ RetryBackoff \in [1 .. MaxAttempts -> Nat]
  /\ ContinuationDelay \in Nat

Open == {"pending", "failed", "processing"}   \* what enqueue_sync_job folds into
Final == {"done", "dead"}                     \* no claim takes these

Row == [key: Key \cup {NoKey},
        status: Open \cup Final \cup {"none"},
        attempts: Nat,
        waitTime: Nat,
        lockAge: 0 .. Lease,
        lockedBy: Worker \cup {NoWorker},
        progress: Nat]

NoRow == [key |-> NoKey, status |-> "none", attempts |-> 0, waitTime |-> 0,
          lockAge |-> 0, lockedBy |-> NoWorker, progress |-> 0]

OpenRowsMissed(table, k) ==   \* mutant: "processing" left out of the SELECT
  {j \in Job : table[j].key = k /\ table[j].status \in {"pending", "failed"}}

OpenRows(table, k) == {j \in Job : table[j].key = k /\ table[j].status \in Open}

NewRow(k) == [NoRow EXCEPT !.key = k, !.status = "pending"]

(***************************************************************************)
(* The UPDATE a folded enqueue commits: available_at becomes the earlier   *)
(* of the value read and the clock.  The ORM writes the column only when   *)
(* the value read was in the future (wake); status and progress_state are  *)
(* never written, whatever became of the row since it was read.            *)
(***************************************************************************)
FoldRow(row, wake) == IF wake THEN [row EXCEPT !.waitTime = 0] ELSE row

ClaimableEarly(row) ==        \* mutant: locked_at is not compared
  \/ row.status \in {"pending", "failed"} /\ row.waitTime = 0
  \/ row.status = "processing"

ClaimableDead(row) ==         \* mutant: RETRYABLE_STATUSES with "dead"
  \/ row.status \in {"pending", "failed", "dead"} /\ row.waitTime = 0
  \/ row.status = "processing" /\ row.lockAge = Lease

ClaimableOnce(row) ==         \* mutant: no clause for a stale lease
  row.status \in {"pending", "failed"} /\ row.waitTime = 0

Claimable(row) ==
  \/ row.status \in {"pending", "failed"} /\ row.waitTime = 0
  \/ row.status = "processing" /\ row.lockAge = Lease

(***************************************************************************)
(* ORDER BY priority DESC.  Rows of one priority are then taken by age;    *)
(* that order is left open here.                                           *)
(***************************************************************************)
ClaimCandidates(table) ==
  {j \in Job : /\ Claimable(table[j])
               /\ \A i \in Job : Claimable(table[i])
                     => Priority[table[i].key] <= Priority[table[j].key]}

ClaimRow(row, w) ==
  [row EXCEPT !.status = "processing", !.lockAge = 0, !.lockedBy = w]

Unlocked(row) == [row EXCEPT !.lockAge = 0, !.lockedBy = NoWorker]

DoneRow(row) == [Unlocked(row) EXCEPT !.status = "done", !.progress = 0]

PendingRowDone(row, progress) ==   \* mutant: a continuation is a completion
  DoneRow(row)

PendingRow(row, progress) ==
  [Unlocked(row) EXCEPT !.status = "pending", !.progress = progress,
                        !.waitTime = ContinuationDelay]

FailedRowLate(row, retryable) ==   \* mutant: ">" for ">="
  LET attempts == row.attempts + 1
      failed == [Unlocked(row) EXCEPT !.attempts = attempts]
  IN  IF ~retryable \/ attempts > MaxAttempts
      THEN [failed EXCEPT !.status = "dead"]
      ELSE [failed EXCEPT !.status = "failed",
                          !.waitTime = RetryBackoff[attempts]]

FailedRowMisnamed(row, retryable) ==   \* mutant: the connection's status word
  [Unlocked(row) EXCEPT !.attempts = @ + 1, !.status = "error"]

FailedRow(row, retryable) ==
  LET attempts == row.attempts + 1
      failed == [Unlocked(row) EXCEPT !.attempts = attempts]
  IN  IF ~retryable \/ attempts >= MaxAttempts
      THEN [failed EXCEPT !.status = "dead"]
      ELSE [failed EXCEPT !.status = "failed",
                          !.waitTime = RetryBackoff[attempts]]

(***************************************************************************)
(* One unit of time passes for a row.                                      *)
(***************************************************************************)
AgeRow(row) ==
  [row EXCEPT
     !.waitTime = IF @ = 0 THEN 0 ELSE @ - 1,
     !.lockAge = IF row.status = "processing" /\ @ < Lease THEN @ + 1 ELSE @]

Ages(row) == AgeRow(row) # row
=============================================================================
