----------------------------- MODULE DailyTodo -----------------------------
(***************************************************************************)
(* The daily digest: notification workers that scan for users whose        *)
(* working hours begin, and then claim, prepare, post and finalize the     *)
(* rows of daily_todo_notifications.  Every worker has a worker_id of its  *)
(* own; a process that is restarted is another worker.                     *)
(*                                                                         *)
(* Instants are relative to the clock: due is available_at - now, held is  *)
(* now - locked_at and lag is the age of the now_utc with which a worker   *)
(* began its loop.  They stop at Horizon.                                  *)
(***************************************************************************)
EXTENDS Integers, FiniteSets

CONSTANTS
  User, Day, Worker,
  NoWorker, NoDay, NoRecord,
  Lease,          \* PROCESSING_LEASE_TIMEOUT, in ticks
  MaxAttempts,    \* MAX_ATTEMPTS
  RetryBackoff,   \* get_retry_backoff for each attempts value, in ticks
  MaxJobs,        \* DAILY_NOTIFICATION_MAX_JOBS_PER_LOOP
  Horizon,        \* bound: no instant is told apart beyond it
  MaxChanges,     \* bound: changes of settings and of the local time
  MaxErrors       \* bound: crashes, failing statements and claims of a row
                  \* whose worker is still at it

Record == User \X Day   \* the unique constraint: one row per user and date

ASSUME DailyAssumption ==
  /\ NoWorker \notin Worker /\ NoDay \notin Day /\ NoRecord \notin Record
  /\ Lease \in Nat \ {0} /\ MaxAttempts \in Nat \ {0} /\ MaxJobs \in Nat \ {0}
  /\ RetryBackoff \in [1 .. MaxAttempts -> Nat]
  /\ Horizon \in Nat /\ Horizon >= Lease
  /\ MaxChanges \in Nat /\ MaxErrors \in Nat

Open == {"pending", "failed", "processing"}
Closed == {"sent", "skipped", "cancelled", "dead"}

(***************************************************************************)
(* What prepare_daily_notification_delivery makes of a user: the digest is *)
(* disabled; there is nothing to post or nowhere to post it; the webhook   *)
(* is not a URL; or a message is ready.                                    *)
(***************************************************************************)
Verdict == [disabled |-> "cancelled", nothing |-> "skipped", invalid |-> "dead"]
Settings == {"disabled", "nothing", "invalid", "ready"}

VARIABLES
  settings,
  window,     \* the local date whose creation window is open for a user now
  records,    \* daily_todo_notifications
  workers,
  delivered,  \* the attempts of each record whose message the webhook took
  budget,     \* changes and errors still to come (bounds of the model)
  history     \* unconfirmed: a message was taken, but the attempt did not
              \* end as "sent"; relet: a row was claimed while "processing";
              \* overran: and its former worker was still at it

vars == <<settings, window, records, workers, delivered, budget, history>>

NoRow == [status |-> "none", attempts |-> 0, due |-> 0, held |-> 0,
          lockedBy |-> NoWorker]
Idle == [phase |-> "idle", todo |-> {}, lag |-> 0, left |-> 0,
         record |-> NoRecord, attempt |-> 0, outcome |-> "none", raised |-> FALSE]

Phase == {"idle", "scan", "loop", "claimed", "prepared", "closing", "gone"}

Row == [status: Open \cup Closed \cup {"none"}, attempts: Nat, due: Int, held: Nat,
        lockedBy: Worker \cup {NoWorker}]
State == [phase: Phase, todo: SUBSET Record, lag: Nat, left: Nat,
          record: Record \cup {NoRecord}, attempt: Nat,
          outcome: Closed \cup {"failed", "none"}, raised: BOOLEAN]

TypeOK ==
  /\ settings \in [User -> Settings]
  /\ window \in [User -> Day \cup {NoDay}]
  /\ records \in [Record -> Row]
  /\ workers \in [Worker -> State]
  /\ delivered \in [Record -> SUBSET Nat]
  /\ budget \in [changes: Nat, errors: Nat]
  /\ history \in [unconfirmed: SUBSET Record, relet: SUBSET Record,
                  overran: SUBSET Record]

Init ==
  /\ settings \in [User -> Settings]
  /\ window = [u \in User |-> NoDay]
  /\ records = [r \in Record |-> NoRow]
  /\ workers = [w \in Worker |-> Idle]
  /\ delivered = [r \in Record |-> {}]
  /\ budget = [changes |-> MaxChanges, errors |-> MaxErrors]
  /\ history = [unconfirmed |-> {}, relet |-> {}, overran |-> {}]

AtMost(n, m) == IF n < m THEN n ELSE m
AtLeast(n, m) == IF n > m THEN n ELSE m

Working == {"claimed", "prepared", "closing"}
At(w, r) == workers[w].phase \in Working /\ workers[w].record = r

-----------------------------------------------------------------------------
(***************************************************************************)
(* The user changes the settings or the tasks; the local time goes on, or  *)
(* the user changes the time zone or the working hours.                    *)
(***************************************************************************)
Change(u) ==
  /\ budget.changes > 0
  /\ budget' = [budget EXCEPT !.changes = @ - 1]
  /\ \/ /\ \E s \in Settings \ {settings[u]} :
             settings' = [settings EXCEPT ![u] = s]
        /\ UNCHANGED window
     \/ /\ \E d \in (Day \cup {NoDay}) \ {window[u]} :
             window' = [window EXCEPT ![u] = d]
        /\ UNCHANGED settings
  /\ UNCHANGED <<records, workers, delivered, history>>

(***************************************************************************)
(* enqueue_due_daily_todo_notifications selects the enabled users, then    *)
(* creates what is missing, one transaction for each record.               *)
(***************************************************************************)
ScanRead(w) ==
  /\ workers[w].phase = "idle"
  /\ workers' = [workers EXCEPT ![w] =
       [Idle EXCEPT !.phase = "scan",
          !.todo = {r \in Record : window[r[1]] = r[2] /\ settings[r[1]] # "disabled"}]]
  /\ UNCHANGED <<settings, window, records, delivered, budget, history>>

ScanRecord(w) ==
  /\ workers[w].phase = "scan"
  /\ \E r \in workers[w].todo :
       /\ workers' = [workers EXCEPT ![w].todo = @ \ {r}]
       /\ IF records[r].status # "none" THEN UNCHANGED records
          ELSE \E late \in 0 .. Horizon :
                 records' = [records EXCEPT ![r] =
                   [NoRow EXCEPT !.status = "pending", !.due = -late]]
  /\ UNCHANGED <<settings, window, delivered, budget, history>>

(***************************************************************************)
(* The scan is over, or it raised.  The loop keeps one now_utc.            *)
(***************************************************************************)
StartLoop(w) ==
  /\ workers[w].phase = "scan"
  /\ workers' = [workers EXCEPT ![w] = [Idle EXCEPT !.phase = "loop", !.left = MaxJobs]]
  /\ UNCHANGED <<settings, window, records, delivered, budget, history>>

-----------------------------------------------------------------------------
Stale(row, lag) == row.held - lag >= Lease

ClaimableEarly(row, lag) ==   \* mutant: locked_at is not compared
  \/ row.status \in {"pending", "failed"} /\ row.due <= -lag
  \/ row.status = "processing"

ClaimableOnce(row, lag) ==    \* mutant: no clause for a stale lease
  row.status \in {"pending", "failed"} /\ row.due <= -lag

Claimable(row, lag) ==
  \/ row.status \in {"pending", "failed"} /\ row.due <= -lag
  \/ row.status = "processing" /\ Stale(row, lag)

Candidates(lag) ==   \* ORDER BY available_at
  {r \in Record : /\ Claimable(records[r], lag)
                  /\ \A q \in Record : Claimable(records[q], lag)
                                         => records[r].due <= records[q].due}

ClaimRow(row, w, lag) ==
  [row EXCEPT !.status = "processing", !.held = lag, !.lockedBy = w, !.attempts = @ + 1]

AtWork(worker, r, n) ==
  [worker EXCEPT !.phase = "claimed", !.record = r, !.attempt = n, !.left = @ - 1]

Claim(w) ==
  LET lag == workers[w].lag
  IN  /\ workers[w].phase = "loop" /\ workers[w].left > 0
      /\ \E r \in Candidates(lag) :
           /\ IF \E v \in Worker : At(v, r)
              THEN /\ budget.errors > 0
                   /\ budget' = [budget EXCEPT !.errors = @ - 1]
              ELSE UNCHANGED budget
           /\ records' = [records EXCEPT ![r] = ClaimRow(@, w, lag)]
           /\ workers' = [workers EXCEPT ![w] = AtWork(@, r, records[r].attempts + 1)]
           /\ history' = [history EXCEPT
                !.relet = IF records[r].status = "processing" THEN @ \cup {r} ELSE @,
                !.overran = IF Stale(records[r], lag) /\ \E v \in Worker : At(v, r)
                            THEN @ \cup {r} ELSE @]
      /\ UNCHANGED <<settings, window, delivered>>

ClaimMiss(w) ==
  /\ workers[w].phase = "loop"
  /\ workers[w].left = 0 \/ Candidates(workers[w].lag) = {}
  /\ workers' = [workers EXCEPT ![w] = Idle]
  /\ UNCHANGED <<settings, window, records, delivered, budget, history>>

(***************************************************************************)
(* The row finalize_daily_notification writes, and the one                 *)
(* mark_daily_notification_failed does, with the now_utc of the loop.      *)
(***************************************************************************)
FailedRowLate(row, lag) ==    \* mutant: ">" for ">="
  IF row.attempts > MaxAttempts THEN [row EXCEPT !.status = "dead"]
  ELSE [row EXCEPT !.status = "failed", !.due = 0]

FailedRow(row, lag) ==
  IF row.attempts >= MaxAttempts THEN [row EXCEPT !.status = "dead"]
  ELSE [row EXCEPT !.status = "failed",
                   !.due = AtLeast(RetryBackoff[row.attempts] - lag, -Horizon)]

FinalRow(row, outcome, lag) ==
  LET unlocked == [row EXCEPT !.lockedBy = NoWorker, !.held = 0]
  IN  IF outcome = "failed" THEN FailedRow(unlocked, lag)
      ELSE [unlocked EXCEPT !.status = outcome]

(***************************************************************************)
(* get_claimed_record_for_update, and the test at the start of prepare:    *)
(* only the worker that still holds the row goes on with it or writes it.  *)
(***************************************************************************)
HoldsById(w) == TRUE          \* mutant: the row is looked up by its id alone

Holds(w) ==
  LET row == records[workers[w].record]
  IN  row.status = "processing" /\ row.lockedBy = w

BackToLoop(record) ==
  [record EXCEPT !.phase = "loop", !.record = NoRecord, !.attempt = 0,
                 !.outcome = "none", !.raised = FALSE]

PrepareOn(w) ==           \* mutant: no return after the digest is cancelled
  /\ workers[w].phase = "claimed" /\ Holds(w)
  /\ records' = [records EXCEPT ![workers[w].record] =
       IF settings[workers[w].record[1]] = "disabled"
       THEN FinalRow(@, "cancelled", workers[w].lag) ELSE @]
  /\ workers' = [workers EXCEPT ![w].phase = "prepared"]
  /\ UNCHANGED <<settings, window, delivered, budget, history>>

Prepare(w) ==
  LET s == settings[workers[w].record[1]]
  IN  /\ workers[w].phase = "claimed"
      /\ workers' = [workers EXCEPT ![w] =
           IF ~Holds(w) THEN BackToLoop(@)
           ELSE IF s = "ready" THEN [@ EXCEPT !.phase = "prepared"]
           ELSE [@ EXCEPT !.phase = "closing", !.outcome = Verdict[s]]]
      /\ UNCHANGED <<settings, window, records, delivered, budget, history>>

(***************************************************************************)
(* The sender: it returns, raises a retryable error (the message may have  *)
(* been taken all the same) or a permanent one.                            *)
(***************************************************************************)
Send(w) ==
  LET r == workers[w].record
  IN  /\ workers[w].phase = "prepared"
      /\ \E taken \in BOOLEAN, outcome \in {"sent", "failed", "dead"} :
           /\ outcome = "sent" => taken
           /\ outcome = "dead" => ~taken
           /\ delivered' = IF taken
                THEN [delivered EXCEPT ![r] = @ \cup {workers[w].attempt}]
                ELSE delivered
           /\ workers' = [workers EXCEPT ![w] =
                [@ EXCEPT !.phase = "closing", !.outcome = outcome,
                          !.raised = outcome # "sent"]]
           /\ history' = [history EXCEPT !.unconfirmed =
                IF taken /\ outcome # "sent" THEN @ \cup {r} ELSE @]
      /\ UNCHANGED <<settings, window, records, budget>>

Finalize(w) ==
  /\ workers[w].phase = "closing"
  /\ records' = IF Holds(w)
       THEN [records EXCEPT ![workers[w].record] =
               FinalRow(@, workers[w].outcome, workers[w].lag)]
       ELSE records
  /\ workers' = [workers EXCEPT ![w] = BackToLoop(@)]
  /\ UNCHANGED <<settings, window, delivered, budget, history>>

-----------------------------------------------------------------------------
Unconfirmed(w) ==
  IF workers[w].phase = "closing" /\ workers[w].outcome = "sent"
  THEN history.unconfirmed \cup {workers[w].record} ELSE history.unconfirmed

(***************************************************************************)
(* A statement fails.  In the try block this leads to                      *)
(* mark_daily_notification_failed; in an except clause it ends the loop,   *)
(* or, in the last one, only the job; in a claim it ends the loop.         *)
(***************************************************************************)
StatementFails(w) ==
  /\ budget.errors > 0
  /\ budget' = [budget EXCEPT !.errors = @ - 1]
  /\ \/ /\ workers[w].phase \in {"claimed", "closing"} /\ ~workers[w].raised
        /\ workers' = [workers EXCEPT ![w] =
             [@ EXCEPT !.phase = "closing", !.outcome = "failed", !.raised = TRUE]]
     \/ /\ workers[w].phase = "closing" /\ workers[w].raised
        /\ \E next \in {Idle, BackToLoop(workers[w])} :
             workers' = [workers EXCEPT ![w] = next]
     \/ /\ workers[w].phase = "loop"
        /\ workers' = [workers EXCEPT ![w] = Idle]
  /\ history' = [history EXCEPT !.unconfirmed = Unconfirmed(w)]
  /\ UNCHANGED <<settings, window, records, delivered>>

(***************************************************************************)
(* A process ends for good; the model keeps one that goes on.              *)
(***************************************************************************)
Crash(w) ==
  /\ budget.errors > 0
  /\ workers[w].phase # "gone"
  /\ \E v \in Worker \ {w} : workers[v].phase # "gone"
  /\ workers' = [workers EXCEPT ![w] = [Idle EXCEPT !.phase = "gone"]]
  /\ budget' = [budget EXCEPT !.errors = @ - 1]
  /\ history' = [history EXCEPT !.unconfirmed = Unconfirmed(w)]
  /\ UNCHANGED <<settings, window, records, delivered>>

Older(row) ==
  [row EXCEPT
     !.due = IF row.status \in Open THEN AtLeast(@ - 1, -Horizon) ELSE @,
     !.held = IF row.status = "processing" THEN AtMost(@ + 1, 2 * Horizon) ELSE @]

OlderWorker(record) ==
  [record EXCEPT !.lag = IF record.phase \in Working \cup {"loop"}
                         THEN AtMost(@ + 1, Horizon) ELSE @]

Tick ==
  /\ records' = [r \in Record |-> Older(records[r])]
  /\ workers' = [w \in Worker |-> OlderWorker(workers[w])]
  /\ <<records, workers>>' # <<records, workers>>
  /\ UNCHANGED <<settings, window, delivered, budget, history>>

-----------------------------------------------------------------------------
WorkerStep(w) ==
  \/ ScanRead(w) \/ ScanRecord(w) \/ StartLoop(w) \/ Claim(w) \/ ClaimMiss(w)
  \/ Prepare(w) \/ Send(w) \/ Finalize(w)

Next ==
  \/ \E u \in User : Change(u)
  \/ \E w \in Worker : WorkerStep(w) \/ StatementFails(w) \/ Crash(w)
  \/ Tick

Spec == Init /\ [][Next]_vars

(***************************************************************************)
(* run_notification_worker runs its steps again and again, and posting a   *)
(* message ends, by its timeout if need be; time passes.                   *)
(***************************************************************************)
FairSpec ==
  Spec /\ WF_vars(Tick) /\ \A w \in Worker : WF_vars(WorkerStep(w))

-----------------------------------------------------------------------------
(***************************************************************************)
(* The rows and the messages implement the ledger: no worker, however      *)
(* late, reopens what is closed, closes it twice, calls it sent when       *)
(* nothing was taken, or posts two messages under one attempt.             *)
(***************************************************************************)
StateOf(status) == IF status \in Open THEN "open" ELSE status

Ledger == INSTANCE DigestLedger WITH
  state <- [r \in Record |-> StateOf(records[r].status)],
  attempts <- [r \in Record |-> records[r].attempts]

LedgerKept == Ledger!Spec

(***************************************************************************)
(* A user gets one digest for a local date, also when the time zone brings *)
(* the date back: a second message needs an attempt whose outcome was not  *)
(* written down, or a worker that outlived its lease.                      *)
(***************************************************************************)
OneDigest ==
  \A r \in Record :
    Cardinality(delivered[r]) > 1 => r \in history.unconfirmed \cup history.overran

(***************************************************************************)
(* Nothing is posted for a digest that is closed (cancelled because the    *)
(* user disabled it, for instance), unless a worker outlived its lease.    *)
(***************************************************************************)
ClosedQuiet ==
  [][\A r \in Record :
       delivered'[r] # delivered[r]
         => records[r].status = "processing" \/ r \in history.overran]_vars

(***************************************************************************)
(* MAX_ATTEMPTS bounds the attempts at a digest unless a row is claimed    *)
(* while "processing"; what waits for a retry always has an attempt left.  *)
(***************************************************************************)
RetryBudget ==
  \A r \in Record :
    /\ records[r].status \in {"pending", "failed"} => records[r].attempts < MaxAttempts
    /\ r \notin history.relet => records[r].attempts <= MaxAttempts

(***************************************************************************)
(* "Daily todo digest delivery should remain durable and idempotent"       *)
(* (docs/decisions.md:28).                                                 *)
(***************************************************************************)
Idempotent == \A r \in Record : Cardinality(delivered[r]) <= 1

(***************************************************************************)
(* Every digest that was created is sent or given up.                      *)
(***************************************************************************)
DigestsSettle ==
  \A r \in Record : records[r].status \in Open ~> records[r].status \in Closed
=============================================================================
