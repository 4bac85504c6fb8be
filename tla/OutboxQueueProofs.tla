-------------------------- MODULE OutboxQueueProofs --------------------------
(***************************************************************************)
(* What each statement on one row of the outbox (outbox.py) leaves alone   *)
(* and what it writes.                                                     *)
(***************************************************************************)
EXTENDS OutboxQueue, TLAPS

LEMMA ZeroInLease == 0 \in 0 .. Lease
  BY QueueAssumption

LEMMA NewRowLemma ==
  ASSUME NEW k \in Key
  PROVE  /\ NewRow(k) \in Row
         /\ NewRow(k).key = k /\ NewRow(k).status = "pending"
         /\ NewRow(k).attempts = 0 /\ NewRow(k).progress = 0
<1>1. NoRow \in Row
  BY QueueAssumption DEF NoRow, Row
<1>2. NewRow(k) \in Row
  BY <1>1 DEF NewRow, Row, Open
<1>3. QED
  BY <1>2 DEF NewRow, NoRow

LEMMA FoldRowLemma ==
  ASSUME NEW row \in Row, NEW wake \in BOOLEAN
  PROVE  /\ FoldRow(row, wake) \in Row
         /\ FoldRow(row, wake).key = row.key
         /\ FoldRow(row, wake).status = row.status
         /\ FoldRow(row, wake).attempts = row.attempts
         /\ FoldRow(row, wake).progress = row.progress
         /\ FoldRow(row, wake).lockedBy = row.lockedBy
<1>1. FoldRow(row, wake) \in Row
  BY DEF FoldRow, Row
<1>2. QED
  BY <1>1 DEF FoldRow, Row

LEMMA UnlockedLemma ==
  ASSUME NEW row \in Row
  PROVE  /\ Unlocked(row) \in Row
         /\ Unlocked(row).key = row.key
         /\ Unlocked(row).attempts = row.attempts
         /\ Unlocked(row).progress = row.progress
<1>1. Unlocked(row) \in Row
  BY ZeroInLease DEF Unlocked, Row
<1>2. QED
  BY <1>1 DEF Unlocked, Row

LEMMA ClaimRowLemma ==
  ASSUME NEW row \in Row, NEW w \in Worker
  PROVE  /\ ClaimRow(row, w) \in Row
         /\ ClaimRow(row, w).key = row.key
         /\ ClaimRow(row, w).status = "processing"
         /\ ClaimRow(row, w).lockedBy = w
         /\ ClaimRow(row, w).attempts = row.attempts
         /\ ClaimRow(row, w).progress = row.progress
<1>1. ClaimRow(row, w) \in Row
  BY ZeroInLease DEF ClaimRow, Row, Open
<1>2. QED
  BY <1>1 DEF ClaimRow, Row

LEMMA DoneRowLemma ==
  ASSUME NEW row \in Row
  PROVE  /\ DoneRow(row) \in Row
         /\ DoneRow(row).key = row.key
         /\ DoneRow(row).status = "done"
         /\ DoneRow(row).attempts = row.attempts
         /\ DoneRow(row).progress = 0
<1>1. DoneRow(row) \in Row
  BY UnlockedLemma DEF DoneRow, Row, Final
<1>2. QED
  BY UnlockedLemma, <1>1 DEF DoneRow, Row

LEMMA PendingRowLemma ==
  ASSUME NEW row \in Row, NEW page \in Nat
  PROVE  /\ PendingRow(row, page) \in Row
         /\ PendingRow(row, page).key = row.key
         /\ PendingRow(row, page).status = "pending"
         /\ PendingRow(row, page).attempts = row.attempts
         /\ PendingRow(row, page).progress = page
<1> DEFINE paused == [Unlocked(row) EXCEPT !.status = "pending"]
<1>1. paused \in Row
  BY UnlockedLemma DEF Row, Open
<1>2. [paused EXCEPT !.progress = page, !.waitTime = ContinuationDelay] \in Row
  <2> HIDE DEF paused
  <2>1. QED
    BY <1>1, QueueAssumption DEF Row
<1>3. PendingRow(row, page) \in Row
  BY <1>2 DEF PendingRow
<1>4. QED
  BY <1>3, UnlockedLemma DEF PendingRow, Row

LEMMA FailedRowLemma ==
  ASSUME NEW row \in Row, NEW retryable \in BOOLEAN
  PROVE  /\ FailedRow(row, retryable) \in Row
         /\ FailedRow(row, retryable).key = row.key
         /\ FailedRow(row, retryable).status \in {"failed", "dead"}
         /\ FailedRow(row, retryable).attempts = row.attempts + 1
         /\ FailedRow(row, retryable).progress = row.progress
         /\ FailedRow(row, retryable).status = "failed"
              => row.attempts + 1 < MaxAttempts
<1> DEFINE attempts == row.attempts + 1
           failed == [Unlocked(row) EXCEPT !.attempts = attempts]
<1>1. attempts \in Nat
  BY DEF Row
<1>2. /\ failed \in Row /\ failed.key = row.key
      /\ failed.attempts = attempts /\ failed.progress = row.progress
  <2> HIDE DEF attempts
  <2>1. QED
    BY <1>1, UnlockedLemma DEF Row
<1> HIDE DEF failed
<1>3. CASE ~retryable \/ attempts >= MaxAttempts
  <2>1. FailedRow(row, retryable) = [failed EXCEPT !.status = "dead"]
    BY <1>3 DEF FailedRow, failed
  <2>2. QED
    BY <1>2, <2>1 DEF Row, Final
<1>4. CASE ~(~retryable \/ attempts >= MaxAttempts)
  <2>1. FailedRow(row, retryable) = [failed EXCEPT !.status = "failed",
                                        !.waitTime = RetryBackoff[attempts]]
    BY <1>4 DEF FailedRow, failed
  <2>2. attempts < MaxAttempts /\ RetryBackoff[attempts] \in Nat
    BY <1>1, <1>4, QueueAssumption DEF Row
  <2>3. QED
    BY <1>2, <2>1, <2>2 DEF Row, Open
<1>5. QED
  BY <1>3, <1>4

LEMMA AgeRowLemma ==
  ASSUME NEW row \in Row
  PROVE  /\ AgeRow(row) \in Row
         /\ AgeRow(row).key = row.key
         /\ AgeRow(row).status = row.status
         /\ AgeRow(row).attempts = row.attempts
         /\ AgeRow(row).progress = row.progress
         /\ AgeRow(row).lockedBy = row.lockedBy
<1>1. /\ (IF row.waitTime = 0 THEN 0 ELSE row.waitTime - 1) \in Nat
      /\ (IF row.status = "processing" /\ row.lockAge < Lease
          THEN row.lockAge + 1 ELSE row.lockAge) \in 0 .. Lease
  BY QueueAssumption DEF Row
<1>2. AgeRow(row) \in Row
  BY <1>1 DEF AgeRow, Row
<1>3. AgeRow(row).key = row.key /\ AgeRow(row).status = row.status
  BY DEF AgeRow, Row
<1>4. AgeRow(row).attempts = row.attempts /\ AgeRow(row).progress = row.progress
  BY DEF AgeRow, Row
<1>5. AgeRow(row).lockedBy = row.lockedBy
  BY DEF AgeRow, Row
<1>6. QED
  BY <1>2, <1>3, <1>4, <1>5
=============================================================================
