------------------------- MODULE NotificationProofs -------------------------
(***************************************************************************)
(* What holds of the two things the notification thread sends: first the   *)
(* daily digests, for every number of users, dates and workers, of retries *)
(* and of errors; then the reminders, for any tasks, any clock and any     *)
(* bounds.                                                                 *)
(***************************************************************************)
EXTENDS DailyTodo, Reminders, FiniteSetTheorems, TLAPS

(***************************************************************************)
(* A worker at a record works under an attempt that was counted, and two   *)
(* workers at one record under different ones.                             *)
(***************************************************************************)
Leases ==
  /\ \A w \in Worker : workers[w].phase \in Working =>
       /\ workers[w].record \in Record
       /\ workers[w].attempt \in 1 .. records[workers[w].record].attempts
  /\ \A v, w \in Worker :
       /\ v # w
       /\ workers[v].phase \in Working /\ workers[w].phase \in Working
       /\ workers[v].record = workers[w].record
       => workers[v].attempt # workers[w].attempt

(***************************************************************************)
(* Messages belong to attempts; the attempt of a worker that has not       *)
(* posted yet has no message, and one that is to be closed as sent has.    *)
(***************************************************************************)
Messages ==
  /\ \A r \in Record : delivered[r] \subseteq 1 .. records[r].attempts
  /\ \A r \in Record : records[r].status = "none" => records[r].attempts = 0
  /\ \A w \in Worker :
       /\ workers[w].phase \in {"claimed", "prepared"} =>
            workers[w].attempt \notin delivered[workers[w].record]
       /\ workers[w].phase = "closing" =>
            /\ workers[w].outcome # "none"
            /\ workers[w].outcome = "sent" =>
                 workers[w].attempt \in delivered[workers[w].record]

(***************************************************************************)
(* While no worker outlives its lease, a record has one worker, which      *)
(* holds it.                                                               *)
(***************************************************************************)
HolderOwns ==
  \A r \in Record \ history.overran : \A w \in Worker :
    At(w, r) => records[r].status = "processing" /\ records[r].lockedBy = w

(***************************************************************************)
(* And if every message taken was written down, a record with a message    *)
(* has one, and is "sent" or about to be.                                  *)
(***************************************************************************)
Pending(w, r) ==
  At(w, r) /\ workers[w].phase = "closing" /\ workers[w].outcome = "sent"

Posted(r) ==
  \E n \in delivered[r] :
    /\ delivered[r] = {n}
    /\ records[r].status = "sent" \/ \E w \in Worker : Pending(w, r)

PostedOnce ==
  \A r \in Record \ (history.overran \cup history.unconfirmed) :
    delivered[r] = {} \/ Posted(r)

IInv == TypeOK /\ Leases /\ Messages /\ RetryBudget /\ HolderOwns /\ PostedOnce

-----------------------------------------------------------------------------
(***************************************************************************)
(* The rows the statements write.                                          *)
(***************************************************************************)
LEMMA NoRowLemma == NoRow \in Row
  BY DailyAssumption DEF NoRow, Row

LEMMA IdleLemma ==
  /\ Idle \in State
  /\ Idle.phase = "idle" /\ Idle.outcome = "none"
  BY DailyAssumption DEF Idle, State, Phase, Closed

LEMMA ClaimRowLemma ==
  ASSUME NEW row \in Row, NEW w \in Worker, NEW lag \in Nat
  PROVE  /\ ClaimRow(row, w, lag) \in Row
         /\ ClaimRow(row, w, lag).status = "processing"
         /\ ClaimRow(row, w, lag).lockedBy = w
         /\ ClaimRow(row, w, lag).attempts = row.attempts + 1
<1> DEFINE taken == [row EXCEPT !.status = "processing", !.held = lag]
           owned == [taken EXCEPT !.lockedBy = w]
           n == row.attempts + 1
<1>1. taken \in Row /\ taken.status = "processing" /\ taken.attempts = row.attempts
  BY DEF Row, Open
<1>2. n \in Nat
  BY DEF Row
<1>3. ClaimRow(row, w, lag) = [owned EXCEPT !.attempts = n]
  BY DEF ClaimRow
<1> HIDE DEF taken, n
<1>4. owned \in Row /\ owned.status = "processing" /\ owned.lockedBy = w
  BY <1>1 DEF Row
<1> HIDE DEF owned
<1>5. /\ ClaimRow(row, w, lag) \in Row
      /\ ClaimRow(row, w, lag).status = "processing"
      /\ ClaimRow(row, w, lag).lockedBy = w
      /\ ClaimRow(row, w, lag).attempts = n
  BY <1>2, <1>3, <1>4 DEF Row
<1>6. QED
  BY <1>5 DEF n

LEMMA FailedRowLemma ==
  ASSUME NEW row \in Row, row.attempts > 0, NEW lag \in Nat
  PROVE  /\ FailedRow(row, lag) \in Row
         /\ FailedRow(row, lag).attempts = row.attempts
         /\ \/ /\ FailedRow(row, lag).status = "dead"
            \/ /\ FailedRow(row, lag).status = "failed"
               /\ row.attempts < MaxAttempts
<1>1. CASE row.attempts >= MaxAttempts
  BY <1>1 DEF FailedRow, Row, Closed
<1>2. CASE row.attempts < MaxAttempts
  <2>1. RetryBackoff[row.attempts] \in Nat /\ Horizon \in Nat
    BY <1>2, DailyAssumption DEF Row
  <2>2. AtLeast(RetryBackoff[row.attempts] - lag, -Horizon) \in Int
    BY <2>1 DEF AtLeast
  <2> DEFINE due == AtLeast(RetryBackoff[row.attempts] - lag, -Horizon)
  <2>3. FailedRow(row, lag) = [row EXCEPT !.status = "failed", !.due = due]
    BY <1>2, DailyAssumption DEF FailedRow, Row
  <2> HIDE DEF due
  <2>4. due \in Int
    BY <2>2 DEF due
  <2>5. QED
    BY <1>2, <2>3, <2>4 DEF Row, Open
<1>3. QED
  BY <1>1, <1>2, DailyAssumption DEF Row

LEMMA FinalRowLemma ==
  ASSUME NEW row \in Row, row.attempts > 0, NEW lag \in Nat,
         NEW outcome \in Closed \cup {"failed"}
  PROVE  /\ FinalRow(row, outcome, lag) \in Row
         /\ FinalRow(row, outcome, lag).attempts = row.attempts
         /\ outcome # "failed" => FinalRow(row, outcome, lag).status = outcome
         /\ outcome = "failed" =>
              \/ FinalRow(row, outcome, lag).status = "dead"
              \/ /\ FinalRow(row, outcome, lag).status = "failed"
                 /\ row.attempts < MaxAttempts
<1> DEFINE unlocked == [row EXCEPT !.lockedBy = NoWorker, !.held = 0]
<1>1. unlocked \in Row /\ unlocked.attempts = row.attempts
  BY DEF Row
<1>2. FinalRow(row, outcome, lag) =
        IF outcome = "failed" THEN FailedRow(unlocked, lag)
        ELSE [unlocked EXCEPT !.status = outcome]
  BY DEF FinalRow
<1> HIDE DEF unlocked
<1>3. CASE outcome = "failed"
  BY <1>1, <1>2, <1>3, FailedRowLemma
<1>4. CASE outcome # "failed"
  BY <1>1, <1>2, <1>4 DEF Row
<1>5. QED
  BY <1>3, <1>4

LEMMA OlderLemma ==
  ASSUME NEW row \in Row
  PROVE  /\ Older(row) \in Row
         /\ Older(row).status = row.status /\ Older(row).attempts = row.attempts
         /\ Older(row).lockedBy = row.lockedBy
<1> DEFINE due == IF row.status \in Open THEN AtLeast(row.due - 1, -Horizon) ELSE row.due
           held == IF row.status = "processing" THEN AtMost(row.held + 1, 2 * Horizon)
                   ELSE row.held
<1>1. due \in Int
  BY DailyAssumption DEF Row, AtLeast
<1>2. held \in Nat
  BY DailyAssumption DEF Row, AtMost
<1>3. Older(row) = [row EXCEPT !.due = due, !.held = held]
  BY DEF Older
<1> HIDE DEF due, held
<1>4. QED
  BY <1>1, <1>2, <1>3 DEF Row

LEMMA OlderWorkerLemma ==
  ASSUME NEW s \in State
  PROVE  /\ OlderWorker(s) \in State
         /\ OlderWorker(s).phase = s.phase /\ OlderWorker(s).record = s.record
         /\ OlderWorker(s).attempt = s.attempt /\ OlderWorker(s).outcome = s.outcome
<1> DEFINE lag == IF s.phase \in Working \cup {"loop"} THEN AtMost(s.lag + 1, Horizon)
                  ELSE s.lag
<1>1. lag \in Nat
  BY DailyAssumption DEF State, AtMost
<1>2. OlderWorker(s) = [s EXCEPT !.lag = lag]
  BY DEF OlderWorker
<1> HIDE DEF lag
<1>3. QED
  BY <1>1, <1>2 DEF State

LEMMA AtWorkLemma ==
  ASSUME NEW s \in State, s.left > 0, NEW r \in Record, NEW n \in Nat
  PROVE  /\ AtWork(s, r, n) \in State
         /\ AtWork(s, r, n).phase = "claimed"
         /\ AtWork(s, r, n).record = r /\ AtWork(s, r, n).attempt = n
<1> DEFINE left == s.left - 1
<1>1. left \in Nat
  BY DEF State
<1>2. AtWork(s, r, n) =
        [s EXCEPT !.phase = "claimed", !.record = r, !.attempt = n, !.left = left]
  BY DEF AtWork
<1> HIDE DEF left
<1>3. QED
  BY <1>1, <1>2 DEF State, Phase

LEMMA OutcomeLemma ==
  ASSUME NEW s \in State, NEW outcome \in Closed \cup {"failed"}
  PROVE  [s EXCEPT !.phase = "closing", !.outcome = outcome] \in State
  BY DEF State, Phase

LEMMA RaisedLemma ==
  ASSUME NEW s \in State, NEW outcome \in Closed \cup {"failed"}, NEW raised \in BOOLEAN
  PROVE  [s EXCEPT !.phase = "closing", !.outcome = outcome, !.raised = raised] \in State
  BY DEF State, Phase

LEMMA TodoLemma ==
  ASSUME NEW s \in State, NEW todo \in SUBSET Record
  PROVE  [s EXCEPT !.todo = todo] \in State
  BY DEF State

LEMMA NewRecordLemma ==
  ASSUME NEW due \in Int
  PROVE  /\ [NoRow EXCEPT !.status = "pending", !.due = due] \in Row
         /\ [NoRow EXCEPT !.status = "pending", !.due = due].status = "pending"
         /\ [NoRow EXCEPT !.status = "pending", !.due = due].attempts = 0
<1> DEFINE pending == [NoRow EXCEPT !.status = "pending"]
<1>1. pending \in Row /\ pending.status = "pending" /\ pending.attempts = 0
  BY NoRowLemma DEF NoRow, Row, Open
<1> HIDE DEF pending
<1>2. [pending EXCEPT !.due = due] \in Row
  BY <1>1 DEF Row
<1>3. QED
  BY <1>1, <1>2 DEF pending, Row

LEMMA BackToLoopLemma ==
  ASSUME NEW s \in State
  PROVE  /\ BackToLoop(s) \in State
         /\ BackToLoop(s).phase = "loop" /\ BackToLoop(s).outcome = "none"
  BY DEF BackToLoop, State, Phase, Closed

-----------------------------------------------------------------------------
(***************************************************************************)
(* The types, one action after the other.                                  *)
(***************************************************************************)
LEMMA InitLemma == Init => IInv
<1> SUFFICES ASSUME Init PROVE IInv
  OBVIOUS
<1>1. TypeOK
  <2>1. records \in [Record -> Row] /\ workers \in [Worker -> State]
    BY NoRowLemma, IdleLemma DEF Init
  <2>2. QED
    BY <2>1, DailyAssumption DEF Init, TypeOK
<1>2. \A w \in Worker : workers[w].phase = "idle"
  BY IdleLemma DEF Init
<1>3. \A r \in Record : /\ records[r].status = "none" /\ records[r].attempts = 0
                         /\ delivered[r] = {}
  BY DEF Init, NoRow
<1>4. Leases /\ Messages
  BY <1>2, <1>3 DEF Leases, Messages, Working
<1>5. RetryBudget
  BY <1>3, DailyAssumption DEF RetryBudget
<1>6. HolderOwns /\ PostedOnce
  BY <1>2, <1>3 DEF HolderOwns, PostedOnce, At, Working
<1>7. QED
  BY <1>1, <1>4, <1>5, <1>6 DEF IInv

LEMMA TypeStep ==
  ASSUME TypeOK, Leases, Messages, [Next]_vars
  PROVE  TypeOK'
<1> USE DEF TypeOK
<1>1. ASSUME NEW u \in User, Change(u) PROVE TypeOK'
  BY <1>1 DEF Change
<1>2. ASSUME NEW w \in Worker, ScanRead(w) PROVE TypeOK'
  <2> DEFINE todo == {r \in Record : window[r[1]] = r[2] /\ settings[r[1]] # "disabled"}
  <2>1. workers' = [workers EXCEPT ![w] = [Idle EXCEPT !.phase = "scan", !.todo = todo]]
    BY <1>2 DEF ScanRead
  <2>2. todo \in SUBSET Record
    OBVIOUS
  <2> HIDE DEF todo
  <2>3. workers' \in [Worker -> State]
    BY <2>1, <2>2, IdleLemma DEF State, Phase
  <2>4. QED
    BY <2>3, <1>2 DEF ScanRead
<1>3. ASSUME NEW w \in Worker, ScanRecord(w) PROVE TypeOK'
  <2>1. PICK r \in workers[w].todo :
          /\ workers' = [workers EXCEPT ![w].todo = @ \ {r}]
          /\ IF records[r].status # "none" THEN UNCHANGED records
             ELSE \E late \in 0 .. Horizon :
                    records' = [records EXCEPT ![r] =
                      [NoRow EXCEPT !.status = "pending", !.due = -late]]
    BY <1>3 DEF ScanRecord
  <2>2. workers[w].todo \in SUBSET Record /\ r \in Record
    BY DEF State
  <2>3. workers' \in [Worker -> State]
    <3>1. [workers[w] EXCEPT !.todo = @ \ {r}] \in State
      BY <2>2, TodoLemma
    <3>2. QED
      BY <2>1, <3>1
  <2>4. records' \in [Record -> Row]
    <3>1. ASSUME NEW late \in 0 .. Horizon
          PROVE  [NoRow EXCEPT !.status = "pending", !.due = -late] \in Row
      <4>1. PICK due \in Int : due = -late
        BY DailyAssumption
      <4>2. QED
        BY <4>1, NewRecordLemma
    <3>2. PICK row \in Row : records' \in {records, [records EXCEPT ![r] = row]}
      BY <2>1, <2>2, <3>1, ZenonT(30)
    <3>3. QED
      BY <2>2, <3>2
  <2>5. QED
    BY <2>3, <2>4, <1>3 DEF ScanRecord
<1>4. ASSUME NEW w \in Worker, StartLoop(w) PROVE TypeOK'
  <2>1. [Idle EXCEPT !.phase = "loop", !.left = MaxJobs] \in State
    BY IdleLemma, DailyAssumption DEF State, Phase
  <2>2. QED
    BY <1>4, <2>1 DEF StartLoop
<1>5. ASSUME NEW w \in Worker, Claim(w) PROVE TypeOK'
  <2>1. PICK r \in Record :
          /\ IF \E v \in Worker : At(v, r)
             THEN /\ budget.errors > 0
                  /\ budget' = [budget EXCEPT !.errors = @ - 1]
             ELSE UNCHANGED budget
          /\ records' = [records EXCEPT ![r] = ClaimRow(@, w, workers[w].lag)]
          /\ workers' = [workers EXCEPT ![w] = AtWork(@, r, records[r].attempts + 1)]
          /\ history' = [history EXCEPT
               !.relet = IF records[r].status = "processing" THEN @ \cup {r} ELSE @,
               !.overran = IF /\ Stale(records[r], workers[w].lag)
                              /\ \E v \in Worker : At(v, r)
                           THEN @ \cup {r} ELSE @]
    BY <1>5 DEF Claim, Candidates
  <2>2. workers[w].lag \in Nat /\ workers[w].left \in Nat /\ workers[w].left > 0
    BY <1>5 DEF Claim, State
  <2>3. records' \in [Record -> Row]
    BY <2>1, <2>2, ClaimRowLemma
  <2>4. workers' \in [Worker -> State]
    <3>1. PICK n \in Nat : n = records[r].attempts + 1
      BY DEF Row
    <3>2. AtWork(workers[w], r, n) \in State
      BY <2>2, AtWorkLemma
    <3>3. QED
      BY <2>1, <3>1, <3>2
  <2>5. history' \in [unconfirmed: SUBSET Record, relet: SUBSET Record,
                      overran: SUBSET Record]
    BY <2>1
  <2>6. budget' \in [changes: Nat, errors: Nat]
    BY <2>1
  <2>7. QED
    BY <2>3, <2>4, <2>5, <2>6, <1>5 DEF Claim
<1>6. ASSUME NEW w \in Worker, ClaimMiss(w) PROVE TypeOK'
  BY <1>6, IdleLemma DEF ClaimMiss
<1>7. ASSUME NEW w \in Worker, Prepare(w) PROVE TypeOK'
  <2>1. workers[w].record \in Record
    BY <1>7 DEF Prepare, Leases, Working
  <2>2. PICK s \in Settings : s = settings[workers[w].record[1]]
    BY <2>1 DEF Record
  <2>3. s # "ready" => Verdict[s] \in Closed
    BY DEF Settings, Verdict, Closed
  <2>4. workers'[w] \in State
    <3>1. CASE ~Holds(w)
      BY <3>1, <1>7, BackToLoopLemma DEF Prepare
    <3>2. CASE Holds(w) /\ s = "ready"
      BY <3>2, <2>2, <1>7 DEF Prepare, State, Phase
    <3>3. CASE Holds(w) /\ s # "ready"
      <4>1. workers'[w] = [workers[w] EXCEPT !.phase = "closing", !.outcome = Verdict[s]]
        BY <3>3, <2>2, <1>7 DEF Prepare
      <4>2. QED
        <5>1. PICK outcome \in Closed \cup {"failed"} : outcome = Verdict[s]
          BY <2>3, <3>3
        <5>2. workers'[w] = [workers[w] EXCEPT !.phase = "closing", !.outcome = outcome]
          BY <4>1, <5>1
        <5>3. [workers[w] EXCEPT !.phase = "closing", !.outcome = outcome] \in State
          BY OutcomeLemma
        <5>4. QED
          BY <5>2, <5>3
    <3>4. QED
      BY <3>1, <3>2, <3>3
  <2>5. workers' = [workers EXCEPT ![w] = workers'[w]]
    BY <1>7 DEF Prepare
  <2>6. workers' \in [Worker -> State]
    BY <2>4, <2>5
  <2>7. QED
    BY <2>6, <1>7 DEF Prepare
<1>8. ASSUME NEW w \in Worker, Send(w) PROVE TypeOK'
  <2>1. workers[w].record \in Record /\ workers[w].attempt \in Nat
    BY <1>8 DEF Send, Leases, Working, State
  <2>2. PICK taken \in BOOLEAN, outcome \in {"sent", "failed", "dead"} :
          /\ delivered' = IF taken
               THEN [delivered EXCEPT ![workers[w].record] = @ \cup {workers[w].attempt}]
               ELSE delivered
          /\ workers' = [workers EXCEPT ![w] =
               [@ EXCEPT !.phase = "closing", !.outcome = outcome,
                         !.raised = outcome # "sent"]]
          /\ history' = [history EXCEPT !.unconfirmed =
               IF taken /\ outcome # "sent" THEN @ \cup {workers[w].record} ELSE @]
    BY <1>8 DEF Send
  <2>3. delivered' \in [Record -> SUBSET Nat]
    BY <2>1, <2>2
  <2>4. workers' \in [Worker -> State]
    <3> DEFINE raised == outcome # "sent"
    <3>1. workers' = [workers EXCEPT ![w] =
            [@ EXCEPT !.phase = "closing", !.outcome = outcome, !.raised = raised]]
      BY <2>2
    <3>2. raised \in BOOLEAN
      OBVIOUS
    <3> HIDE DEF raised
    <3>3. outcome \in Closed \cup {"failed"}
      BY DEF Closed
    <3>4. [workers[w] EXCEPT !.phase = "closing", !.outcome = outcome, !.raised = raised]
            \in State
      BY <3>2, <3>3, RaisedLemma
    <3>5. QED
      BY <3>1, <3>4
  <2>5. history' \in [unconfirmed: SUBSET Record, relet: SUBSET Record,
                      overran: SUBSET Record]
    BY <2>1, <2>2
  <2>6. QED
    BY <2>3, <2>4, <2>5, <1>8 DEF Send
<1>9. ASSUME NEW w \in Worker, Finalize(w) PROVE TypeOK'
  <2>1. /\ workers[w].record \in Record /\ records[workers[w].record].attempts > 0
        /\ workers[w].outcome \in Closed \cup {"failed"} /\ workers[w].lag \in Nat
    BY <1>9 DEF Finalize, Leases, Messages, Working, State, Row
  <2>2. records' \in [Record -> Row]
    BY <1>9, <2>1, FinalRowLemma DEF Finalize
  <2>3. workers' \in [Worker -> State]
    BY <1>9, BackToLoopLemma DEF Finalize
  <2>4. QED
    BY <2>2, <2>3, <1>9 DEF Finalize
<1>10. ASSUME NEW w \in Worker, StatementFails(w) PROVE TypeOK'
  <2>1. workers' \in [Worker -> State]
    <3>1. [workers[w] EXCEPT !.phase = "closing", !.outcome = "failed", !.raised = TRUE]
            \in State
      BY RaisedLemma
    <3>2. QED
      BY <3>1, <1>10, IdleLemma, BackToLoopLemma DEF StatementFails
  <2>2. Unconfirmed(w) \in SUBSET Record
    BY DEF Unconfirmed, Leases, Working
  <2>3. QED
    BY <2>1, <2>2, <1>10 DEF StatementFails
<1>11. ASSUME NEW w \in Worker, Crash(w) PROVE TypeOK'
  <2>1. [Idle EXCEPT !.phase = "gone"] \in State
    BY IdleLemma DEF State, Phase
  <2>2. Unconfirmed(w) \in SUBSET Record
    BY DEF Unconfirmed, Leases, Working
  <2>3. QED
    BY <2>1, <2>2, <1>11 DEF Crash
<1>12. CASE Tick
  BY <1>12, OlderLemma, OlderWorkerLemma DEF Tick
<1>13. CASE UNCHANGED vars
  BY <1>13 DEF vars
<1>14. QED
  BY <1>1, <1>2, <1>3, <1>4, <1>5, <1>6, <1>7, <1>8, <1>9, <1>10, <1>11, <1>12, <1>13
     DEF Next, WorkerStep

-----------------------------------------------------------------------------
(***************************************************************************)
(* What each step does to the workers, the rows and the messages, in the   *)
(* terms of the invariant.                                                 *)
(***************************************************************************)
Others(w) == \A v \in Worker \ {w} : workers'[v] = workers[v]

LEMMA ScanReadEffect ==
  ASSUME TypeOK, NEW w \in Worker, ScanRead(w)
  PROVE  /\ Others(w) /\ workers'[w].phase = "scan"
         /\ UNCHANGED <<records, delivered, history>>
<1> DEFINE todo == {r \in Record : window[r[1]] = r[2] /\ settings[r[1]] # "disabled"}
<1>1. workers' = [workers EXCEPT ![w] = [Idle EXCEPT !.phase = "scan", !.todo = todo]]
  BY DEF ScanRead
<1> HIDE DEF todo
<1>2. QED
  BY <1>1 DEF ScanRead, TypeOK, Others, Idle

LEMMA ScanRecordEffect ==
  ASSUME TypeOK, NEW w \in Worker, ScanRecord(w)
  PROVE  /\ Others(w) /\ workers'[w].phase = "scan"
         /\ UNCHANGED <<delivered, history>>
         /\ \/ UNCHANGED records
            \/ \E r \in Record :
                 /\ records[r].status = "none"
                 /\ records'[r].status = "pending" /\ records'[r].attempts = 0
                 /\ \A q \in Record \ {r} : records'[q] = records[q]
<1>1. PICK r \in workers[w].todo :
        /\ workers' = [workers EXCEPT ![w].todo = @ \ {r}]
        /\ IF records[r].status # "none" THEN UNCHANGED records
           ELSE \E late \in 0 .. Horizon :
                  records' = [records EXCEPT ![r] =
                    [NoRow EXCEPT !.status = "pending", !.due = -late]]
  BY DEF ScanRecord
<1>2. r \in Record
  BY DEF TypeOK, State
<1>3. Others(w) /\ workers'[w].phase = "scan"
  <2> DEFINE todo == workers[w].todo \ {r}
  <2>1. workers' = [workers EXCEPT ![w].todo = todo]
    BY <1>1
  <2>2. workers[w].phase = "scan"
    BY DEF ScanRecord
  <2> HIDE DEF todo
  <2>3. QED
    BY <2>1, <2>2 DEF TypeOK, State, Others
<1>4. CASE records[r].status # "none"
  BY <1>1, <1>3, <1>4 DEF ScanRecord
<1>5. CASE records[r].status = "none"
  <2>1. PICK due \in Int : records' = [records EXCEPT ![r] =
                             [NoRow EXCEPT !.status = "pending", !.due = due]]
    <3>1. PICK late \in 0 .. Horizon : records' = [records EXCEPT ![r] =
                                          [NoRow EXCEPT !.status = "pending", !.due = -late]]
      BY <1>1, <1>5
    <3>2. PICK due \in Int : due = -late
      BY DailyAssumption
    <3>3. QED
      BY <3>1, <3>2
  <2>2. records'[r].status = "pending" /\ records'[r].attempts = 0
    BY <2>1, <1>2, NewRecordLemma DEF TypeOK
  <2>3. \A q \in Record \ {r} : records'[q] = records[q]
    BY <2>1, <1>2 DEF TypeOK
  <2>4. QED
    BY <1>2, <1>3, <1>5, <2>2, <2>3 DEF ScanRecord
<1>6. QED
  BY <1>4, <1>5

LEMMA StartLoopEffect ==
  ASSUME TypeOK, NEW w \in Worker, StartLoop(w)
  PROVE  /\ Others(w) /\ workers'[w].phase = "loop"
         /\ UNCHANGED <<records, delivered, history>>
  BY DEF StartLoop, TypeOK, Others, Idle

LEMMA ClaimMissEffect ==
  ASSUME TypeOK, NEW w \in Worker, ClaimMiss(w)
  PROVE  /\ Others(w) /\ workers'[w].phase = "idle"
         /\ UNCHANGED <<records, delivered, history>>
  BY DEF ClaimMiss, TypeOK, Others, Idle

LEMMA ClaimEffect ==
  ASSUME TypeOK, NEW w \in Worker, Claim(w)
  PROVE  \E r \in Record :
           /\ records[r].status \in Open
           /\ records'[r].status = "processing" /\ records'[r].lockedBy = w
           /\ records'[r].attempts = records[r].attempts + 1
           /\ \A q \in Record \ {r} : records'[q] = records[q]
           /\ Others(w) /\ workers[w].phase = "loop"
           /\ workers'[w].phase = "claimed" /\ workers'[w].record = r
           /\ workers'[w].attempt = records[r].attempts + 1
           /\ UNCHANGED delivered /\ history'.unconfirmed = history.unconfirmed
           /\ history.relet \subseteq history'.relet
           /\ history.overran \subseteq history'.overran
           /\ records[r].status = "processing" => r \in history'.relet
           /\ records[r].status = "processing" /\ (\E v \in Worker : At(v, r))
                => r \in history'.overran
<1>1. PICK r \in Record :
        /\ Claimable(records[r], workers[w].lag)
        /\ records' = [records EXCEPT ![r] = ClaimRow(@, w, workers[w].lag)]
        /\ workers' = [workers EXCEPT ![w] = AtWork(@, r, records[r].attempts + 1)]
        /\ history' = [history EXCEPT
             !.relet = IF records[r].status = "processing" THEN @ \cup {r} ELSE @,
             !.overran = IF /\ Stale(records[r], workers[w].lag)
                            /\ \E v \in Worker : At(v, r)
                         THEN @ \cup {r} ELSE @]
  BY DEF Claim, Candidates
<1>2. /\ workers[w] \in State /\ workers[w].lag \in Nat
      /\ workers[w].left > 0 /\ workers[w].phase = "loop" /\ UNCHANGED delivered
  BY DEF Claim, TypeOK, State
<1>3. /\ records[r].status \in Open
      /\ records[r].status = "processing" => Stale(records[r], workers[w].lag)
  BY <1>1 DEF Claimable, Open
<1>4. /\ records'[r].status = "processing" /\ records'[r].lockedBy = w
      /\ records'[r].attempts = records[r].attempts + 1
      /\ \A q \in Record \ {r} : records'[q] = records[q]
  BY <1>1, <1>2, ClaimRowLemma DEF TypeOK
<1>5. /\ Others(w)
      /\ workers'[w].phase = "claimed" /\ workers'[w].record = r
      /\ workers'[w].attempt = records[r].attempts + 1
  <2>1. PICK n \in Nat : n = records[r].attempts + 1
    BY DEF TypeOK, Row
  <2>2. workers' = [workers EXCEPT ![w] = AtWork(@, r, n)]
    BY <1>1, <2>1
  <2>3. QED
    BY <1>2, <2>1, <2>2, AtWorkLemma DEF TypeOK, Others
<1>6. /\ history'.unconfirmed = history.unconfirmed
      /\ history.relet \subseteq history'.relet
      /\ history.overran \subseteq history'.overran
      /\ records[r].status = "processing" => r \in history'.relet
      /\ records[r].status = "processing" /\ (\E v \in Worker : At(v, r))
           => r \in history'.overran
  <2> DEFINE late == Stale(records[r], workers[w].lag) /\ \E v \in Worker : At(v, r)
  <2>1. history' = [history EXCEPT
          !.relet = IF records[r].status = "processing" THEN @ \cup {r} ELSE @,
          !.overran = IF late THEN @ \cup {r} ELSE @]
    BY <1>1
  <2>2. records[r].status = "processing" /\ (\E v \in Worker : At(v, r)) => late
    BY <1>3
  <2> HIDE DEF late
  <2>3. QED
    BY <2>1, <2>2 DEF TypeOK
<1>7. QED
  BY <1>2, <1>3, <1>4, <1>5, <1>6

KeepsRecord(w) == /\ workers'[w].record = workers[w].record
            /\ workers'[w].attempt = workers[w].attempt

LEMMA PrepareEffect ==
  ASSUME TypeOK, Leases, NEW w \in Worker, Prepare(w)
  PROVE  /\ Others(w) /\ workers[w].phase = "claimed"
         /\ UNCHANGED <<records, delivered, history>>
         /\ \/ workers'[w].phase = "loop"
            \/ workers'[w].phase = "prepared" /\ KeepsRecord(w)
            \/ /\ workers'[w].phase = "closing" /\ KeepsRecord(w)
               /\ workers'[w].outcome \in Closed \ {"sent"}
<1>1. workers[w].record \in Record /\ workers[w] \in State
  BY DEF Prepare, Leases, Working, TypeOK
<1>2. PICK s \in Settings : s = settings[workers[w].record[1]]
  BY <1>1 DEF Record, TypeOK
<1>3. s # "ready" => Verdict[s] \in Closed \ {"sent"}
  BY DEF Settings, Verdict, Closed
<1>4. /\ Others(w) /\ workers[w].phase = "claimed"
      /\ UNCHANGED <<records, delivered, history>>
  BY DEF Prepare, Others, TypeOK
<1>5. CASE ~Holds(w)
  BY <1>1, <1>4, <1>5, BackToLoopLemma DEF Prepare, TypeOK
<1>6. CASE Holds(w) /\ s = "ready"
  BY <1>1, <1>2, <1>4, <1>6 DEF Prepare, TypeOK, State, KeepsRecord
<1>7. CASE Holds(w) /\ s # "ready"
  <2>1. PICK outcome \in Closed \ {"sent"} : outcome = Verdict[s]
    BY <1>3, <1>7
  <2>2. workers' = [workers EXCEPT ![w] = [@ EXCEPT !.phase = "closing",
                                                    !.outcome = Verdict[s]]]
    BY <1>2, <1>7 DEF Prepare
  <2>3. workers' = [workers EXCEPT ![w] = [@ EXCEPT !.phase = "closing",
                                                    !.outcome = outcome]]
    BY <2>1, <2>2
  <2>4. QED
    BY <1>1, <1>4, <2>1, <2>3 DEF TypeOK, State, KeepsRecord
<1>8. QED
  BY <1>5, <1>6, <1>7

LEMMA SendEffect ==
  ASSUME TypeOK, Leases, NEW w \in Worker, Send(w)
  PROVE  LET r == workers[w].record IN
         /\ Others(w) /\ KeepsRecord(w) /\ UNCHANGED records
         /\ workers[w].phase = "prepared" /\ workers'[w].phase = "closing"
         /\ \/ /\ workers'[w].outcome \in {"failed", "dead"}
               /\ UNCHANGED <<delivered, history>>
            \/ /\ workers'[w].outcome \in {"sent", "failed"}
               /\ delivered'[r] = delivered[r] \cup {workers[w].attempt}
               /\ \A q \in Record \ {r} : delivered'[q] = delivered[q]
               /\ history'.overran = history.overran /\ history'.relet = history.relet
               /\ history.unconfirmed \subseteq history'.unconfirmed
               /\ workers'[w].outcome = "failed" => r \in history'.unconfirmed
<1>1. workers[w].record \in Record /\ workers[w] \in State
  BY DEF Send, Leases, Working, TypeOK
<1>2. PICK taken \in BOOLEAN, outcome \in {"sent", "failed", "dead"} :
        /\ outcome = "sent" => taken
        /\ outcome = "dead" => ~taken
        /\ delivered' = IF taken
             THEN [delivered EXCEPT ![workers[w].record] = @ \cup {workers[w].attempt}]
             ELSE delivered
        /\ workers' = [workers EXCEPT ![w] =
             [@ EXCEPT !.phase = "closing", !.outcome = outcome,
                       !.raised = outcome # "sent"]]
        /\ history' = [history EXCEPT !.unconfirmed =
             IF taken /\ outcome # "sent" THEN @ \cup {workers[w].record} ELSE @]
  BY DEF Send
<1>3. /\ Others(w) /\ KeepsRecord(w) /\ UNCHANGED records
      /\ workers[w].phase = "prepared" /\ workers'[w].phase = "closing"
      /\ workers'[w].outcome = outcome
  BY <1>1, <1>2 DEF Send, TypeOK, State, Others, KeepsRecord
<1>4. CASE taken
  <2>1. /\ delivered'[workers[w].record] =
             delivered[workers[w].record] \cup {workers[w].attempt}
        /\ \A q \in Record \ {workers[w].record} : delivered'[q] = delivered[q]
    BY <1>1, <1>2, <1>4 DEF TypeOK
  <2>2. /\ history'.overran = history.overran /\ history'.relet = history.relet
        /\ history.unconfirmed \subseteq history'.unconfirmed
        /\ outcome = "failed" => workers[w].record \in history'.unconfirmed
    BY <1>2, <1>4 DEF TypeOK
  <2>3. QED
    BY <1>2, <1>3, <1>4, <2>1, <2>2
<1>5. CASE ~taken
  <2>1. UNCHANGED <<delivered, history>> /\ outcome \in {"failed", "dead"}
    BY <1>2, <1>5 DEF TypeOK
  <2>2. QED
    BY <1>3, <2>1
<1>6. QED
  BY <1>4, <1>5

LEMMA FinalizeEffect ==
  ASSUME TypeOK, Leases, Messages, NEW w \in Worker, Finalize(w)
  PROVE  LET r == workers[w].record IN
         /\ Others(w) /\ UNCHANGED <<delivered, history>>
         /\ workers[w].phase = "closing" /\ workers'[w].phase = "loop"
         /\ \/ ~Holds(w) /\ UNCHANGED records
            \/ /\ Holds(w) /\ records'[r].attempts = records[r].attempts
               /\ \A q \in Record \ {r} : records'[q] = records[q]
               /\ \/ /\ workers[w].outcome \in Closed
                     /\ records'[r].status = workers[w].outcome
                  \/ /\ workers[w].outcome = "failed"
                     /\ \/ records'[r].status = "dead"
                        \/ /\ records'[r].status = "failed"
                           /\ records[r].attempts < MaxAttempts
<1>1. /\ workers[w].record \in Record /\ records[workers[w].record].attempts > 0
      /\ workers[w].outcome \in Closed \cup {"failed"} /\ workers[w].lag \in Nat
  BY DEF Finalize, Leases, Messages, Working, TypeOK, State, Row
<1>2. /\ Others(w) /\ UNCHANGED <<delivered, history>>
      /\ workers[w].phase = "closing" /\ workers'[w].phase = "loop"
  BY BackToLoopLemma DEF Finalize, TypeOK, Others
<1>3. CASE ~Holds(w)
  BY <1>2, <1>3 DEF Finalize
<1>4. CASE Holds(w)
  <2>1. records' = [records EXCEPT ![workers[w].record] =
                      FinalRow(@, workers[w].outcome, workers[w].lag)]
    BY <1>4 DEF Finalize
  <2>2. records'[workers[w].record] =
          FinalRow(records[workers[w].record], workers[w].outcome, workers[w].lag)
    BY <1>1, <2>1 DEF TypeOK
  <2>3. \A q \in Record \ {workers[w].record} : records'[q] = records[q]
    BY <1>1, <2>1 DEF TypeOK
  <2>4. records[workers[w].record] \in Row
    BY <1>1 DEF TypeOK
  <2>5. QED
    <3>1. PICK row \in Row : row = records[workers[w].record]
      BY <2>4
    <3>2. PICK final : final = FinalRow(row, workers[w].outcome, workers[w].lag)
      OBVIOUS
    <3>3. records'[workers[w].record] = final
      BY <2>2, <3>1, <3>2
    <3>4. /\ final.attempts = row.attempts
          /\ workers[w].outcome # "failed" => final.status = workers[w].outcome
          /\ workers[w].outcome = "failed" =>
               \/ final.status = "dead"
               \/ final.status = "failed" /\ row.attempts < MaxAttempts
      BY <1>1, <3>1, <3>2, FinalRowLemma
    <3>5. QED
      BY <1>1, <1>2, <1>4, <2>3, <3>1, <3>3, <3>4 DEF Closed
<1>5. QED
  BY <1>3, <1>4

LEMMA UnconfirmedEffect ==
  ASSUME TypeOK, NEW w \in Worker,
         history' = [history EXCEPT !.unconfirmed = Unconfirmed(w)]
  PROVE  /\ history'.overran = history.overran /\ history'.relet = history.relet
         /\ history.unconfirmed \subseteq history'.unconfirmed
         /\ workers[w].phase = "closing" /\ workers[w].outcome = "sent"
              => workers[w].record \in history'.unconfirmed
  BY DEF TypeOK, Unconfirmed

LEMMA StatementFailsEffect ==
  ASSUME TypeOK, NEW w \in Worker, StatementFails(w)
  PROVE  /\ Others(w) /\ UNCHANGED <<records, delivered>>
         /\ \/ workers'[w].phase \notin Working
            \/ /\ workers[w].phase \in {"claimed", "closing"}
               /\ workers'[w].phase = "closing" /\ workers'[w].outcome = "failed"
               /\ KeepsRecord(w)
<1>1. Others(w) /\ UNCHANGED <<records, delivered>> /\ workers[w] \in State
  BY DEF StatementFails, Others, TypeOK
<1>2. CASE /\ workers[w].phase \in {"claimed", "closing"}
           /\ workers' = [workers EXCEPT ![w] =
                [@ EXCEPT !.phase = "closing", !.outcome = "failed", !.raised = TRUE]]
  BY <1>1, <1>2 DEF TypeOK, State, KeepsRecord
<1>3. CASE workers' = [workers EXCEPT ![w] = Idle]
  BY <1>1, <1>3, IdleLemma DEF TypeOK, Working
<1>4. CASE workers' = [workers EXCEPT ![w] = BackToLoop(workers[w])]
  BY <1>1, <1>4, BackToLoopLemma DEF TypeOK, Working
<1>5. QED
  BY <1>2, <1>3, <1>4 DEF StatementFails

LEMMA CrashEffect ==
  ASSUME TypeOK, NEW w \in Worker, Crash(w)
  PROVE  /\ Others(w) /\ UNCHANGED <<records, delivered>>
         /\ workers'[w].phase = "gone"
  BY DEF Crash, TypeOK, Others, Idle

LEMMA TickEffect ==
  ASSUME TypeOK, Tick
  PROVE  /\ UNCHANGED <<delivered, history>>
         /\ \A r \in Record :
              /\ records'[r].status = records[r].status
              /\ records'[r].attempts = records[r].attempts
              /\ records'[r].lockedBy = records[r].lockedBy
         /\ \A w \in Worker :
              /\ workers'[w].phase = workers[w].phase
              /\ workers'[w].outcome = workers[w].outcome
              /\ KeepsRecord(w)
  BY OlderLemma, OlderWorkerLemma DEF Tick, TypeOK, KeepsRecord

-----------------------------------------------------------------------------
(***************************************************************************)
(* The parts of the invariant, one after the other.                        *)
(***************************************************************************)
LEMMA LeasesStep ==
  ASSUME IInv, [Next]_vars
  PROVE  Leases'
<1> USE DEF IInv
<1>0. \A r \in Record : records[r].attempts \in Nat
  BY DEF TypeOK, Row
<1>1. CASE UNCHANGED vars
  BY <1>1 DEF vars, Leases
<1>2. ASSUME NEW u \in User, Change(u) PROVE Leases'
  BY <1>2 DEF Change, Leases
<1>3. ASSUME NEW w \in Worker, Others(w), workers'[w].phase \notin Working,
             \A r \in Record : records'[r].attempts = records[r].attempts
      PROVE  Leases'
  <2>1. \A v \in Worker : workers'[v].phase \in Working =>
          v # w /\ workers'[v] = workers[v]
    BY <1>3 DEF Others
  <2>2. QED
    BY <1>3, <2>1 DEF Leases
<1>4. ASSUME NEW w \in Worker, Others(w), KeepsRecord(w), workers[w].phase \in Working,
             \A r \in Record : records'[r].attempts = records[r].attempts
      PROVE  Leases'
  <2>1. \A v \in Worker : /\ workers'[v].phase \in Working => workers[v].phase \in Working
                          /\ workers'[v].record = workers[v].record
                          /\ workers'[v].attempt = workers[v].attempt
    BY <1>4 DEF Others, KeepsRecord
  <2>2. QED
    BY <1>4, <2>1 DEF Leases
<1>5. ASSUME NEW w \in Worker, ScanRecord(w) PROVE Leases'
  <2>1. \A r \in Record : records'[r].attempts = records[r].attempts
    BY <1>5, ScanRecordEffect DEF Messages
  <2>2. QED
    BY <1>5, <2>1, <1>3, ScanRecordEffect DEF Working
<1>6. ASSUME NEW w \in Worker, Claim(w) PROVE Leases'
  <2>1. PICK r \in Record :
          /\ records'[r].attempts = records[r].attempts + 1
          /\ \A q \in Record \ {r} : records'[q] = records[q]
          /\ Others(w) /\ workers'[w].phase = "claimed" /\ workers'[w].record = r
          /\ workers'[w].attempt = records[r].attempts + 1
    BY <1>6, ClaimEffect
  <2>2. \A v \in Worker \ {w} : workers'[v] = workers[v]
    BY <2>1 DEF Others
  <2>3. ASSUME NEW v \in Worker, workers'[v].phase \in Working
        PROVE  /\ workers'[v].record \in Record
               /\ workers'[v].attempt \in 1 .. records'[workers'[v].record].attempts
    BY <2>1, <2>2, <2>3, <1>0 DEF Leases
  <2>4. ASSUME NEW v \in Worker \ {w}, workers'[v].phase \in Working,
               workers'[v].record = r
        PROVE  workers'[v].attempt # workers'[w].attempt
    BY <2>1, <2>2, <2>4, <1>0 DEF Leases
  <2>5. QED
    BY <2>1, <2>2, <2>3, <2>4 DEF Leases
<1>7. ASSUME NEW w \in Worker, Prepare(w) PROVE Leases'
  BY <1>7, <1>3, <1>4, PrepareEffect DEF Working
<1>8. ASSUME NEW w \in Worker, Send(w) PROVE Leases'
  BY <1>8, <1>4, SendEffect DEF Working
<1>9. ASSUME NEW w \in Worker, Finalize(w) PROVE Leases'
  <2>1. \A r \in Record : records'[r].attempts = records[r].attempts
    BY <1>9, FinalizeEffect
  <2>2. QED
    BY <1>9, <2>1, <1>3, FinalizeEffect DEF Working
<1>10. ASSUME NEW w \in Worker, StatementFails(w) PROVE Leases'
  BY <1>10, <1>3, <1>4, StatementFailsEffect DEF Working
<1>11. ASSUME NEW w \in Worker, ScanRead(w) \/ StartLoop(w) \/ ClaimMiss(w) \/ Crash(w)
       PROVE  Leases'
  BY <1>11, <1>3, ScanReadEffect, StartLoopEffect, ClaimMissEffect, CrashEffect
     DEF Working
<1>12. CASE Tick
  <2>1. /\ \A r \in Record : records'[r].attempts = records[r].attempts
        /\ \A w \in Worker : workers'[w].phase = workers[w].phase /\ KeepsRecord(w)
    BY <1>12, TickEffect
  <2>2. QED
    BY <2>1 DEF Leases, KeepsRecord
<1>13. QED
  BY <1>1, <1>2, <1>5, <1>6, <1>7, <1>8, <1>9, <1>10, <1>11, <1>12
     DEF Next, WorkerStep

LEMMA MessagesStep ==
  ASSUME IInv, [Next]_vars
  PROVE  Messages'
<1> USE DEF IInv
<1>0. \A r \in Record : records[r].attempts \in Nat /\ delivered[r] \subseteq Nat
  BY DEF TypeOK, Row
<1>1. CASE UNCHANGED vars
  BY <1>1 DEF vars, Messages
<1>2. ASSUME NEW u \in User, Change(u) PROVE Messages'
  BY <1>2 DEF Change, Messages
<1>3. ASSUME NEW w \in Worker, Others(w), workers'[w].phase \notin Working,
             UNCHANGED delivered,
             \A r \in Record : /\ records'[r].attempts = records[r].attempts
                               /\ records'[r].status = "none" => records[r].status = "none"
      PROVE  Messages'
  <2>1. \A v \in Worker : workers'[v].phase \in Working =>
          v # w /\ workers'[v] = workers[v]
    BY <1>3 DEF Others
  <2>2. QED
    BY <1>3, <2>1 DEF Messages, Working
<1>4. ASSUME NEW w \in Worker, Others(w), KeepsRecord(w), UNCHANGED <<records, delivered>>,
             \/ workers[w].phase = "claimed" /\ workers'[w].phase = "prepared"
             \/ workers'[w].phase = "closing" /\ workers'[w].outcome \notin {"none", "sent"}
      PROVE  Messages'
  <2>1. \A v \in Worker : v # w => workers'[v] = workers[v]
    BY <1>4 DEF Others
  <2>2. QED
    BY <1>4, <2>1 DEF Messages, KeepsRecord
<1>5. ASSUME NEW w \in Worker, ScanRecord(w) PROVE Messages'
  <2>1. \A r \in Record : /\ records'[r].attempts = records[r].attempts
                          /\ records'[r].status = "none" => records[r].status = "none"
    BY <1>5, ScanRecordEffect DEF Messages
  <2>2. QED
    BY <1>5, <2>1, <1>3, ScanRecordEffect DEF Working
<1>6. ASSUME NEW w \in Worker, Claim(w) PROVE Messages'
  <2>1. PICK r \in Record :
          /\ records'[r].status = "processing"
          /\ records'[r].attempts = records[r].attempts + 1
          /\ \A q \in Record \ {r} : records'[q] = records[q]
          /\ Others(w) /\ workers'[w].phase = "claimed" /\ workers'[w].record = r
          /\ workers'[w].attempt = records[r].attempts + 1
          /\ UNCHANGED delivered
    BY <1>6, ClaimEffect
  <2>2. \A v \in Worker \ {w} : workers'[v] = workers[v]
    BY <2>1 DEF Others
  <2>3. records[r].attempts + 1 \notin delivered[r]
    BY <1>0 DEF Messages
  <2>4. \A q \in Record : delivered'[q] \subseteq 1 .. records'[q].attempts
    BY <2>1, <1>0 DEF Messages
  <2>5. \A q \in Record : records'[q].status = "none" => records'[q].attempts = 0
    BY <2>1 DEF Messages
  <2>6. ASSUME NEW v \in Worker
        PROVE  /\ workers'[v].phase \in {"claimed", "prepared"} =>
                    workers'[v].attempt \notin delivered'[workers'[v].record]
               /\ workers'[v].phase = "closing" =>
                    /\ workers'[v].outcome # "none"
                    /\ workers'[v].outcome = "sent" =>
                         workers'[v].attempt \in delivered'[workers'[v].record]
    BY <2>1, <2>2, <2>3 DEF Messages
  <2>7. QED
    BY <2>4, <2>5, <2>6 DEF Messages
<1>7. ASSUME NEW w \in Worker, Prepare(w) PROVE Messages'
  <2>1. CASE workers'[w].phase = "loop"
    BY <1>7, <2>1, <1>3, PrepareEffect DEF Working
  <2>2. CASE workers'[w].phase # "loop"
    BY <1>7, <2>2, <1>4, PrepareEffect DEF Closed
  <2>3. QED
    BY <2>1, <2>2
<1>8. ASSUME NEW w \in Worker, Send(w) PROVE Messages'
  <2>1. CASE workers'[w].outcome \in {"failed", "dead"} /\ UNCHANGED <<delivered, history>>
    BY <1>8, <2>1, <1>4, SendEffect
  <2>2. CASE ~(workers'[w].outcome \in {"failed", "dead"}
              /\ UNCHANGED <<delivered, history>>)
    <3> DEFINE r == workers[w].record
               n == workers[w].attempt
    <3>1. /\ Others(w) /\ KeepsRecord(w) /\ UNCHANGED records
          /\ workers[w].phase = "prepared" /\ workers'[w].phase = "closing"
          /\ workers'[w].outcome \in {"sent", "failed"}
          /\ delivered'[r] = delivered[r] \cup {n}
          /\ \A q \in Record \ {r} : delivered'[q] = delivered[q]
      BY <1>8, <2>2, SendEffect
    <3>2. r \in Record /\ n \in 1 .. records[r].attempts
      BY <3>1 DEF Leases, Working
    <3>3. \A q \in Record : /\ delivered'[q] \subseteq 1 .. records'[q].attempts
                            /\ records'[q].status = "none" => records'[q].attempts = 0
      BY <3>1, <3>2 DEF Messages
    <3>4. \A v \in Worker \ {w} :
            workers[v].phase \in Working /\ workers[v].record = r
              => workers[v].attempt # n
      BY <3>1 DEF Leases, Working
    <3>5. ASSUME NEW v \in Worker \ {w}, workers[v].phase \in Working
          PROVE  /\ workers'[v] = workers[v] /\ workers[v].record \in Record
                 /\ workers[v].attempt \in delivered'[workers[v].record]
                      <=> workers[v].attempt \in delivered[workers[v].record]
      BY <3>1, <3>4, <3>5 DEF Others, Leases
    <3>6. ASSUME NEW v \in Worker
          PROVE  /\ workers'[v].phase \in {"claimed", "prepared"} =>
                      workers'[v].attempt \notin delivered'[workers'[v].record]
                 /\ workers'[v].phase = "closing" =>
                      /\ workers'[v].outcome # "none"
                      /\ workers'[v].outcome = "sent" =>
                           workers'[v].attempt \in delivered'[workers'[v].record]
      <4>1. CASE v = w
        BY <4>1, <3>1 DEF KeepsRecord
      <4>2. CASE v # w
        BY <4>2, <3>1, <3>5 DEF Others, Messages, Working
      <4>3. QED
        BY <4>1, <4>2
    <3>7. QED
      BY <3>3, <3>6 DEF Messages
  <2>3. QED
    BY <2>1, <2>2
<1>9. ASSUME NEW w \in Worker, Finalize(w) PROVE Messages'
  <2>1. \A r \in Record : /\ records'[r].attempts = records[r].attempts
                          /\ records'[r].status = "none" => records[r].status = "none"
    BY <1>9, FinalizeEffect DEF Closed
  <2>2. QED
    BY <1>9, <2>1, <1>3, FinalizeEffect DEF Working
<1>10. ASSUME NEW w \in Worker, StatementFails(w) PROVE Messages'
  BY <1>10, <1>3, <1>4, StatementFailsEffect
<1>11. ASSUME NEW w \in Worker, ScanRead(w) \/ StartLoop(w) \/ ClaimMiss(w) \/ Crash(w)
       PROVE  Messages'
  BY <1>11, <1>3, ScanReadEffect, StartLoopEffect, ClaimMissEffect, CrashEffect
     DEF Working
<1>12. CASE Tick
  BY <1>12, TickEffect DEF Messages, KeepsRecord
<1>13. QED
  BY <1>1, <1>2, <1>5, <1>6, <1>7, <1>8, <1>9, <1>10, <1>11, <1>12
     DEF Next, WorkerStep

LEMMA RetryBudgetStep ==
  ASSUME IInv, [Next]_vars
  PROVE  RetryBudget'
<1> USE DEF IInv
<1>0. \A r \in Record : records[r].attempts \in Nat
  BY DEF TypeOK, Row
<1>1. ASSUME history'.relet = history.relet,
             \A r \in Record :
               \/ /\ records'[r].status = records[r].status
                  /\ records'[r].attempts = records[r].attempts
               \/ /\ records'[r].attempts <= records[r].attempts
                  /\ records'[r].attempts \in Nat
                  /\ records'[r].status \in {"pending", "failed"}
                       => records'[r].attempts < MaxAttempts
      PROVE  RetryBudget'
  <2>1. ASSUME NEW r \in Record
        PROVE  /\ records'[r].status \in {"pending", "failed"}
                    => records'[r].attempts < MaxAttempts
               /\ r \notin history'.relet => records'[r].attempts <= MaxAttempts
    BY <1>1, <1>0, DailyAssumption DEF RetryBudget
  <2>2. QED
    BY <2>1 DEF RetryBudget
<1>2. CASE UNCHANGED vars
  BY <1>2, <1>1 DEF vars
<1>3. ASSUME NEW u \in User, Change(u) PROVE RetryBudget'
  BY <1>3, <1>1 DEF Change
<1>4. ASSUME NEW w \in Worker, ScanRecord(w) PROVE RetryBudget'
  <2>1. \A r \in Record :
          \/ /\ records'[r].status = records[r].status
             /\ records'[r].attempts = records[r].attempts
          \/ records'[r].attempts = 0
    BY <1>4, ScanRecordEffect
  <2>2. QED
    BY <1>4, <2>1, <1>0, <1>1, ScanRecordEffect, DailyAssumption
<1>5. ASSUME NEW w \in Worker, Claim(w) PROVE RetryBudget'
  <2>1. PICK r \in Record :
          /\ records[r].status \in Open
          /\ records'[r].status = "processing"
          /\ records'[r].attempts = records[r].attempts + 1
          /\ \A q \in Record \ {r} : records'[q] = records[q]
          /\ history.relet \subseteq history'.relet
          /\ records[r].status = "processing" => r \in history'.relet
    BY <1>5, ClaimEffect
  <2>2. r \notin history'.relet => records'[r].attempts <= MaxAttempts
    BY <2>1, <1>0, DailyAssumption DEF RetryBudget, Open
  <2>3. QED
    BY <2>1, <2>2 DEF RetryBudget
<1>6. ASSUME NEW w \in Worker, Finalize(w) PROVE RetryBudget'
  <2>1. \A r \in Record :
          \/ /\ records'[r].status = records[r].status
             /\ records'[r].attempts = records[r].attempts
          \/ /\ records'[r].attempts = records[r].attempts
             /\ records'[r].status \in {"pending", "failed"}
                  => records[r].attempts < MaxAttempts
    BY <1>6, FinalizeEffect DEF Closed
  <2>2. QED
    BY <1>6, <2>1, <1>0, <1>1, FinalizeEffect
<1>7. ASSUME NEW w \in Worker,
             \/ ScanRead(w) \/ StartLoop(w) \/ ClaimMiss(w) \/ Prepare(w)
      PROVE  RetryBudget'
  BY <1>7, <1>1, ScanReadEffect, StartLoopEffect, ClaimMissEffect, PrepareEffect
<1>8. ASSUME NEW w \in Worker, Send(w) PROVE RetryBudget'
  BY <1>8, <1>1, SendEffect
<1>9. ASSUME NEW w \in Worker, StatementFails(w) \/ Crash(w) PROVE RetryBudget'
  <2>1. UNCHANGED records
    BY <1>9, StatementFailsEffect, CrashEffect
  <2>2. history'.relet = history.relet
    BY <1>9, UnconfirmedEffect DEF StatementFails, Crash
  <2>3. QED
    BY <2>1, <2>2, <1>1
<1>10. CASE Tick
  BY <1>10, <1>1, TickEffect
<1>11. QED
  BY <1>2, <1>3, <1>4, <1>5, <1>6, <1>7, <1>8, <1>9, <1>10
     DEF Next, WorkerStep

LEMMA HolderOwnsStep ==
  ASSUME IInv, [Next]_vars
  PROVE  HolderOwns'
<1> USE DEF IInv
<1>1. ASSUME history'.overran = history.overran, UNCHANGED records,
             \A v \in Worker, r \in Record : At(v, r)' => At(v, r)
      PROVE  HolderOwns'
  BY <1>1 DEF HolderOwns
<1>2. ASSUME NEW w \in Worker, Others(w), workers'[w].phase \notin Working
      PROVE  \A v \in Worker, r \in Record : At(v, r)' => v # w /\ At(v, r)
  BY <1>2 DEF Others, At
<1>3. ASSUME NEW w \in Worker, Others(w), KeepsRecord(w), workers[w].phase \in Working
      PROVE  \A v \in Worker, r \in Record : At(v, r)' => At(v, r)
  BY <1>3 DEF Others, At, KeepsRecord
<1>4. CASE UNCHANGED vars
  BY <1>4, <1>1 DEF vars, At
<1>5. ASSUME NEW u \in User, Change(u) PROVE HolderOwns'
  BY <1>5, <1>1 DEF Change, At
<1>6. ASSUME NEW w \in Worker, ScanRecord(w) PROVE HolderOwns'
  <2>1. /\ Others(w) /\ workers'[w].phase \notin Working /\ history' = history
        /\ \A q \in Record : records[q].status = "none" \/ records'[q] = records[q]
    BY <1>6, ScanRecordEffect DEF Working
  <2>2. ASSUME NEW r \in Record \ history'.overran, NEW v \in Worker, At(v, r)'
        PROVE  records'[r].status = "processing" /\ records'[r].lockedBy = v
    BY <2>1, <2>2, <1>2 DEF HolderOwns
  <2>3. QED
    BY <2>2 DEF HolderOwns
<1>7. ASSUME NEW w \in Worker, Claim(w) PROVE HolderOwns'
  <2>1. PICK r \in Record :
          /\ records[r].status \in Open
          /\ records'[r].status = "processing" /\ records'[r].lockedBy = w
          /\ \A q \in Record \ {r} : records'[q] = records[q]
          /\ Others(w) /\ workers'[w].phase = "claimed" /\ workers'[w].record = r
          /\ history.overran \subseteq history'.overran
          /\ records[r].status = "processing" /\ (\E v \in Worker : At(v, r))
               => r \in history'.overran
    BY <1>7, ClaimEffect
  <2>2. \A v \in Worker \ {w}, q \in Record : At(v, q)' => At(v, q)
    BY <2>1 DEF Others, At
  <2>3. \A q \in Record : At(w, q)' => q = r
    BY <2>1 DEF At
  <2>4. ASSUME NEW q \in Record \ history'.overran, NEW v \in Worker, At(v, q)'
        PROVE  records'[q].status = "processing" /\ records'[q].lockedBy = v
    <3>1. CASE q = r /\ v = w
      BY <3>1, <2>1
    <3>2. CASE q = r /\ v # w
      BY <3>2, <2>1, <2>2, <2>4 DEF HolderOwns
    <3>3. CASE q # r
      BY <3>3, <2>1, <2>2, <2>3, <2>4 DEF HolderOwns
    <3>4. QED
      BY <3>1, <3>2, <3>3
  <2>5. QED
    BY <2>4 DEF HolderOwns
<1>8. ASSUME NEW w \in Worker, Prepare(w) PROVE HolderOwns'
  BY <1>8, <1>1, <1>2, <1>3, PrepareEffect DEF Working
<1>9. ASSUME NEW w \in Worker, Send(w) PROVE HolderOwns'
  BY <1>9, <1>1, <1>3, SendEffect DEF Working
<1>10. ASSUME NEW w \in Worker, Finalize(w) PROVE HolderOwns'
  <2> DEFINE r == workers[w].record
  <2>1. /\ Others(w) /\ workers'[w].phase \notin Working /\ history' = history
        /\ workers[w].phase = "closing"
        /\ ~Holds(w) => UNCHANGED records
        /\ \A q \in Record \ {r} : records'[q] = records[q]
    BY <1>10, FinalizeEffect DEF Working
  <2>2. r \in Record /\ At(w, r)
    BY <2>1 DEF Leases, At, Working
  <2>3. ASSUME NEW q \in Record \ history'.overran, NEW v \in Worker, At(v, q)'
        PROVE  records'[q].status = "processing" /\ records'[q].lockedBy = v
    <3>1. v # w /\ At(v, q)
      BY <2>1, <2>3, <1>2
    <3>2. records[q].status = "processing" /\ records[q].lockedBy = v
      BY <3>1, <2>1, <2>3 DEF HolderOwns
    <3>3. CASE q = r
      BY <3>1, <3>2, <3>3, <2>1, <2>2, <2>3 DEF HolderOwns
    <3>4. CASE q # r
      BY <3>2, <3>4, <2>1
    <3>5. QED
      BY <3>3, <3>4
  <2>4. QED
    BY <2>3 DEF HolderOwns
<1>11. ASSUME NEW w \in Worker, StatementFails(w) PROVE HolderOwns'
  <2>1. history'.overran = history.overran
    BY <1>11, UnconfirmedEffect DEF StatementFails
  <2>2. QED
    BY <1>11, <2>1, <1>1, <1>2, <1>3, StatementFailsEffect DEF Working
<1>12. ASSUME NEW w \in Worker, Crash(w) PROVE HolderOwns'
  <2>1. history'.overran = history.overran
    BY <1>12, UnconfirmedEffect DEF Crash
  <2>2. QED
    BY <1>12, <2>1, <1>1, <1>2, CrashEffect DEF Working
<1>13. ASSUME NEW w \in Worker, ScanRead(w) \/ StartLoop(w) \/ ClaimMiss(w)
       PROVE  HolderOwns'
  BY <1>13, <1>1, <1>2, ScanReadEffect, StartLoopEffect, ClaimMissEffect DEF Working
<1>14. CASE Tick
  BY <1>14, TickEffect DEF HolderOwns, At, KeepsRecord
<1>15. QED
  BY <1>4, <1>5, <1>6, <1>7, <1>8, <1>9, <1>10, <1>11, <1>12, <1>13, <1>14
     DEF Next, WorkerStep

LEMMA PostedKept ==
  ASSUME PostedOnce, NEW w \in Worker, Others(w),
         NEW r \in Record, r \notin history.overran \cup history.unconfirmed,
         delivered'[r] = delivered[r],
         records[r].status = "sent" => records'[r].status = "sent",
         Pending(w, r) => records'[r].status = "sent"
  PROVE  delivered'[r] = {} \/ Posted(r)'
<1>1. \A v \in Worker : v # w /\ Pending(v, r) => Pending(v, r)'
  BY DEF Others, Pending, At
<1>2. CASE delivered[r] = {}
  BY <1>2
<1>3. CASE Posted(r)
  BY <1>1, <1>3 DEF Posted
<1>4. QED
  BY <1>2, <1>3 DEF PostedOnce

LEMMA PostedOnceStep ==
  ASSUME IInv, [Next]_vars
  PROVE  PostedOnce'
<1> USE DEF IInv
<1>0. \A w \in Worker, r \in Record \ history.overran :
        At(w, r) => records[r].status = "processing" /\ records[r].lockedBy = w
  BY DEF HolderOwns
<1>1. CASE UNCHANGED vars
  BY <1>1 DEF vars, PostedOnce, Posted, Pending, At
<1>2. ASSUME NEW u \in User, Change(u) PROVE PostedOnce'
  BY <1>2 DEF Change, PostedOnce, Posted, Pending, At
<1>3. ASSUME NEW w \in Worker, Others(w), UNCHANGED <<delivered, history>>,
             workers[w].phase # "closing",
             \A r \in Record : records[r].status = "sent" => records'[r].status = "sent"
      PROVE  PostedOnce'
  <2>1. \A r \in Record : ~Pending(w, r)
    BY <1>3 DEF Pending
  <2>2. ASSUME NEW r \in Record \ (history'.overran \cup history'.unconfirmed)
        PROVE  delivered'[r] = {} \/ Posted(r)'
    BY <1>3, <2>1, PostedKept
  <2>3. QED
    BY <2>2 DEF PostedOnce
<1>4. ASSUME NEW w \in Worker,
             ScanRead(w) \/ StartLoop(w) \/ ClaimMiss(w) \/ Prepare(w)
      PROVE  PostedOnce'
  <2>1. workers[w].phase # "closing"
    BY <1>4 DEF ScanRead, StartLoop, ClaimMiss, Prepare
  <2>2. QED
    BY <1>4, <2>1, <1>3, ScanReadEffect, StartLoopEffect, ClaimMissEffect, PrepareEffect
<1>5. ASSUME NEW w \in Worker, ScanRecord(w) PROVE PostedOnce'
  <2>1. workers[w].phase # "closing"
    BY <1>5 DEF ScanRecord
  <2>2. \A r \in Record : records[r].status = "sent" => records'[r].status = "sent"
    BY <1>5, ScanRecordEffect
  <2>3. QED
    BY <1>5, <2>1, <2>2, <1>3, ScanRecordEffect
<1>6. ASSUME NEW w \in Worker, Claim(w) PROVE PostedOnce'
  <2>1. PICK r \in Record :
          /\ records[r].status \in Open
          /\ \A q \in Record \ {r} : records'[q] = records[q]
          /\ Others(w) /\ workers[w].phase = "loop"
          /\ UNCHANGED delivered /\ history'.unconfirmed = history.unconfirmed
          /\ history.overran \subseteq history'.overran
          /\ records[r].status = "processing" /\ (\E v \in Worker : At(v, r))
               => r \in history'.overran
    BY <1>6, ClaimEffect
  <2>2. \A q \in Record : ~Pending(w, q)
    BY <2>1 DEF Pending
  <2>3. ASSUME NEW q \in Record \ (history'.overran \cup history'.unconfirmed)
        PROVE  delivered'[q] = {} \/ Posted(q)'
    <3>1. CASE q = r
      <4>1. ~Posted(r)
        BY <3>1, <2>1, <2>3, <1>0 DEF Posted, Pending, Open
      <4>2. QED
        BY <3>1, <4>1, <2>1, <2>3 DEF PostedOnce
    <3>2. CASE q # r
      BY <3>2, <2>1, <2>2, <2>3, PostedKept
    <3>3. QED
      BY <3>1, <3>2
  <2>4. QED
    BY <2>3 DEF PostedOnce
<1>7. ASSUME NEW w \in Worker, Send(w) PROVE PostedOnce'
  <2> DEFINE r == workers[w].record
             n == workers[w].attempt
  <2>1. /\ Others(w) /\ KeepsRecord(w) /\ UNCHANGED records
        /\ workers[w].phase = "prepared" /\ workers'[w].phase = "closing"
    BY <1>7, SendEffect
  <2>2. r \in Record /\ At(w, r)
    BY <2>1 DEF Leases, At, Working
  <2>3. CASE UNCHANGED <<delivered, history>>
    BY <2>1, <2>3, <1>3
  <2>4. CASE ~UNCHANGED <<delivered, history>>
    <3>1. /\ workers'[w].outcome \in {"sent", "failed"}
          /\ delivered'[r] = delivered[r] \cup {n}
          /\ \A q \in Record \ {r} : delivered'[q] = delivered[q]
          /\ history'.overran = history.overran
          /\ history.unconfirmed \subseteq history'.unconfirmed
          /\ workers'[w].outcome = "failed" => r \in history'.unconfirmed
      BY <1>7, <2>4, SendEffect
    <3>2. ASSUME NEW q \in Record \ (history'.overran \cup history'.unconfirmed)
          PROVE  delivered'[q] = {} \/ Posted(q)'
      <4>1. CASE q = r
        <5>1. ~Posted(r)
          BY <4>1, <3>1, <3>2, <2>1, <2>2, <1>0 DEF Posted, Pending
        <5>2. delivered[r] = {}
          BY <5>1, <4>1, <3>1, <3>2 DEF PostedOnce
        <5>3. Pending(w, q)'
          BY <4>1, <3>1, <3>2, <2>1 DEF Pending, At, KeepsRecord, Working
        <5>4. delivered'[q] = {n}
          BY <4>1, <3>1, <5>2
        <5>5. QED
          BY <5>3, <5>4 DEF Posted
      <4>2. CASE q # r
        <5>1. ~Pending(w, q)
          BY <2>1 DEF Pending
        <5>2. QED
          BY <4>2, <5>1, <3>1, <3>2, <2>1, PostedKept
      <4>3. QED
        BY <4>1, <4>2
    <3>3. QED
      BY <3>2 DEF PostedOnce
  <2>5. QED
    BY <2>3, <2>4
<1>8. ASSUME NEW w \in Worker, Finalize(w) PROVE PostedOnce'
  <2> DEFINE r == workers[w].record
  <2>1. /\ Others(w) /\ UNCHANGED <<delivered, history>>
        /\ workers[w].phase = "closing"
        /\ \/ ~Holds(w) /\ UNCHANGED records
           \/ /\ Holds(w)
              /\ \A q \in Record \ {r} : records'[q] = records[q]
              /\ workers[w].outcome = "sent" => records'[r].status = "sent"
    BY <1>8, FinalizeEffect
  <2>2. \A q \in Record : records[q].status = "sent" => records'[q].status = "sent"
    BY <2>1 DEF Holds
  <2>3. ASSUME NEW q \in Record \ (history'.overran \cup history'.unconfirmed)
        PROVE  delivered'[q] = {} \/ Posted(q)'
    <3>1. Pending(w, q) => records'[q].status = "sent"
      BY <1>0, <2>1, <2>3 DEF Pending, At, Holds
    <3>2. QED
      BY <3>1, <2>1, <2>2, <2>3, PostedKept
  <2>4. QED
    BY <2>3 DEF PostedOnce
<1>9. ASSUME NEW w \in Worker, StatementFails(w) \/ Crash(w) PROVE PostedOnce'
  <2>1. Others(w) /\ UNCHANGED <<records, delivered>>
    BY <1>9, StatementFailsEffect, CrashEffect
  <2>2. /\ history'.overran = history.overran
        /\ history.unconfirmed \subseteq history'.unconfirmed
        /\ workers[w].phase = "closing" /\ workers[w].outcome = "sent"
             => workers[w].record \in history'.unconfirmed
    BY <1>9, UnconfirmedEffect DEF StatementFails, Crash
  <2>3. ASSUME NEW r \in Record \ (history'.overran \cup history'.unconfirmed)
        PROVE  delivered'[r] = {} \/ Posted(r)'
    <3>1. ~Pending(w, r)
      BY <2>2, <2>3 DEF Pending, At
    <3>2. QED
      BY <3>1, <2>1, <2>2, <2>3, PostedKept
  <2>4. QED
    BY <2>3 DEF PostedOnce
<1>10. CASE Tick
  BY <1>10, TickEffect DEF PostedOnce, Posted, Pending, At, KeepsRecord
<1>11. QED
  BY <1>1, <1>2, <1>4, <1>5, <1>6, <1>7, <1>8, <1>9, <1>10 DEF Next, WorkerStep

-----------------------------------------------------------------------------
(***************************************************************************)
(* IInv is an inductive invariant of the daily digests.                    *)
(***************************************************************************)
THEOREM Inductive == Spec => []IInv
<1>1. IInv /\ [Next]_vars => IInv'
  BY TypeStep, LeasesStep, MessagesStep, RetryBudgetStep, HolderOwnsStep, PostedOnceStep
     DEF IInv
<1>2. QED
  BY <1>1, InitLemma, PTL DEF Spec

(***************************************************************************)
(* The rows and the workers' variables keep their types.                   *)
(***************************************************************************)
THEOREM TypeCorrect == Spec => []TypeOK
<1>1. IInv => TypeOK
  BY DEF IInv
<1>2. QED
  BY <1>1, Inductive, PTL

(***************************************************************************)
(* A digest is tried MAX_ATTEMPTS times at most, unless its row was        *)
(* claimed from a worker that did not finish.                              *)
(***************************************************************************)
THEOREM BoundedRetries == Spec => []RetryBudget
<1>1. IInv => RetryBudget
  BY DEF IInv
<1>2. QED
  BY <1>1, Inductive, PTL

(***************************************************************************)
(* One message for a user and a local date, when every message that was    *)
(* taken was written down and no worker outlived its lease.                *)
(***************************************************************************)
THEOREM OneDigestOnly == Spec => []OneDigest
<1>1. ASSUME IInv PROVE OneDigest
  <2>1. ASSUME NEW r \in Record, r \notin history.unconfirmed \cup history.overran
        PROVE  ~(Cardinality(delivered[r]) > 1)
    <3>1. CASE delivered[r] = {}
      BY <3>1, FS_EmptySet
    <3>2. CASE Posted(r)
      <4>1. PICK n : delivered[r] = {n}
        BY <3>2 DEF Posted
      <4>2. Cardinality(delivered[r]) = 1
        BY <4>1, FS_Singleton
      <4>3. QED
        BY <4>2
    <3>3. QED
      BY <1>1, <2>1, <3>1, <3>2 DEF IInv, PostedOnce
  <2>2. QED
    BY <2>1 DEF OneDigest
<1>2. QED
  BY <1>1, Inductive, PTL

(***************************************************************************)
(* A worker posts a message only for a row in "processing": a digest that  *)
(* is closed stays quiet unless a worker outlived its lease.               *)
(***************************************************************************)
THEOREM QuietWhenClosed == Spec => ClosedQuiet
<1>1. ASSUME IInv, [Next]_vars, NEW r \in Record, delivered'[r] # delivered[r]
      PROVE  records[r].status = "processing" \/ r \in history.overran
  <2> USE <1>1 DEF IInv
  <2>1. \A w \in Worker : WorkerStep(w) \/ StatementFails(w) \/ Crash(w) => Send(w)
    BY ScanReadEffect, ScanRecordEffect, StartLoopEffect, ClaimMissEffect, ClaimEffect,
       PrepareEffect, FinalizeEffect, StatementFailsEffect, CrashEffect DEF WorkerStep
  <2>2. PICK w \in Worker : Send(w)
    BY <2>1, TickEffect DEF Next, Change, vars
  <2>3. At(w, r)
    BY <2>2, SendEffect DEF At, Working
  <2>4. QED
    BY <2>3 DEF HolderOwns
<1>2. IInv /\ [Next]_vars
        => [\A r \in Record :
              delivered'[r] # delivered[r]
                => records[r].status = "processing" \/ r \in history.overran]_vars
  BY <1>1
<1>3. QED
  BY <1>2, Inductive, PTL DEF Spec, ClosedQuiet

-----------------------------------------------------------------------------
(***************************************************************************)
(* The refinement: each step of the workers is one step of the ledger, or  *)
(* none.                                                                   *)
(***************************************************************************)
LEMMA LedgerInit == Init => Ledger!Init
<1> SUFFICES ASSUME Init PROVE Ledger!Init
  OBVIOUS
<1>1. \A r \in Record : StateOf(records[r].status) = "none" /\ records[r].attempts = 0
  BY DEF Init, NoRow, StateOf, Open
<1>2. QED
  BY <1>1 DEF Init, Ledger!Init

LEMMA LedgerStutter ==
  ASSUME UNCHANGED delivered,
         \A r \in Record :
           /\ StateOf(records'[r].status) = StateOf(records[r].status)
           /\ records'[r].attempts = records[r].attempts
  PROVE  UNCHANGED Ledger!vars
  BY DEF Ledger!vars

LEMMA LedgerCreate ==
  ASSUME NEW r \in Record, UNCHANGED delivered,
         records[r].status = "none", records'[r].status = "pending",
         records[r].attempts = 0, records'[r].attempts = 0,
         \A q \in Record \ {r} : records'[q] = records[q]
  PROVE  Ledger!Create(r)
<1>1. StateOf(records[r].status) = "none" /\ StateOf(records'[r].status) = "open"
  BY DEF StateOf, Open
<1>2. QED
  BY <1>1 DEF Ledger!Create

LEMMA LedgerAttempt ==
  ASSUME NEW r \in Record, UNCHANGED delivered,
         records[r].status \in Open, records'[r].status = "processing",
         records'[r].attempts = records[r].attempts + 1,
         \A q \in Record \ {r} : records'[q] = records[q]
  PROVE  Ledger!Attempt(r)
<1>1. StateOf(records[r].status) = "open" /\ StateOf(records'[r].status) = "open"
  BY DEF StateOf, Open
<1>2. QED
  BY <1>1 DEF Ledger!Attempt

LEMMA LedgerDeliver ==
  ASSUME TypeOK, TypeOK', NEW r \in Record, NEW n \in 1 .. records[r].attempts,
         n \notin delivered[r], UNCHANGED records,
         delivered'[r] = delivered[r] \cup {n},
         \A q \in Record \ {r} : delivered'[q] = delivered[q]
  PROVE  Ledger!Deliver(r)
<1>1. delivered' = [delivered EXCEPT ![r] = @ \cup {n}]
  BY DEF TypeOK
<1>2. QED
  BY <1>1 DEF Ledger!Deliver

LEMMA LedgerClose ==
  ASSUME NEW r \in Record, NEW how \in Closed, UNCHANGED delivered,
         records[r].status = "processing", records'[r].status = how,
         records[r].attempts > 0, records'[r].attempts = records[r].attempts,
         how = "sent" => delivered[r] # {},
         \A q \in Record \ {r} : records'[q] = records[q]
  PROVE  Ledger!Close(r, how)
<1>1. StateOf(records[r].status) = "open" /\ StateOf(records'[r].status) = how
  BY DEF StateOf, Open, Closed
<1>2. QED
  BY <1>1 DEF Ledger!Close

LEMMA LedgerStep ==
  ASSUME IInv, [Next]_vars
  PROVE  [Ledger!Next]_(Ledger!vars)
<1> USE DEF IInv
<1>1. ASSUME UNCHANGED <<records, delivered>> PROVE UNCHANGED Ledger!vars
  BY <1>1, LedgerStutter
<1>2. ASSUME NEW w \in Worker, ScanRecord(w) PROVE [Ledger!Next]_(Ledger!vars)
  <2>1. CASE UNCHANGED records
    BY <1>1, <1>2, <2>1, ScanRecordEffect
  <2>2. CASE ~UNCHANGED records
    <3>1. PICK r \in Record :
            /\ records[r].status = "none"
            /\ records'[r].status = "pending" /\ records'[r].attempts = 0
            /\ \A q \in Record \ {r} : records'[q] = records[q]
      BY <1>2, <2>2, ScanRecordEffect
    <3>2. records[r].attempts = 0 /\ UNCHANGED delivered
      BY <1>2, <3>1, ScanRecordEffect DEF Messages
    <3>3. Ledger!Create(r)
      BY <3>1, <3>2, LedgerCreate
    <3>4. QED
      BY <3>3 DEF Ledger!Next
  <2>3. QED
    BY <2>1, <2>2
<1>3. ASSUME NEW w \in Worker, Claim(w) PROVE [Ledger!Next]_(Ledger!vars)
  <2>1. PICK r \in Record : Ledger!Attempt(r)
    BY <1>3, ClaimEffect, LedgerAttempt
  <2>2. QED
    BY <2>1 DEF Ledger!Next
<1>4. ASSUME NEW w \in Worker, Send(w) PROVE [Ledger!Next]_(Ledger!vars)
  <2> DEFINE r == workers[w].record
             n == workers[w].attempt
  <2>1. UNCHANGED records /\ workers[w].phase = "prepared"
    BY <1>4, SendEffect
  <2>2. r \in Record /\ n \in 1 .. records[r].attempts /\ n \notin delivered[r]
    BY <2>1 DEF Leases, Messages, Working
  <2>3. CASE UNCHANGED delivered
    BY <1>1, <2>1, <2>3
  <2>4. CASE ~UNCHANGED delivered
    <3>1. /\ delivered'[r] = delivered[r] \cup {n}
          /\ \A q \in Record \ {r} : delivered'[q] = delivered[q]
      BY <1>4, <2>4, SendEffect
    <3>2. TypeOK'
      BY TypeStep
    <3>3. PICK q \in Record : q = r
      BY <2>2
    <3>4. PICK m \in 1 .. records[q].attempts : m = n
      BY <2>2, <3>3
    <3> HIDE DEF r, n
    <3>5. Ledger!Deliver(q)
      BY <2>1, <2>2, <3>1, <3>2, <3>3, <3>4, LedgerDeliver
    <3>6. QED
      BY <3>5 DEF Ledger!Next
  <2>5. QED
    BY <2>3, <2>4
<1>5. ASSUME NEW w \in Worker, Finalize(w) PROVE [Ledger!Next]_(Ledger!vars)
  <2> DEFINE r == workers[w].record
  <2>1. UNCHANGED delivered /\ workers[w].phase = "closing"
    BY <1>5, FinalizeEffect
  <2>2. /\ r \in Record /\ records[r].attempts > 0
        /\ workers[w].outcome = "sent" => delivered[r] # {}
    BY <2>1 DEF Leases, Messages, Working, TypeOK, Row
  <2>3. CASE UNCHANGED records
    BY <1>1, <2>1, <2>3
  <2>4. CASE ~UNCHANGED records
    <3>1. /\ records[r].status = "processing"
          /\ records'[r].attempts = records[r].attempts
          /\ \A q \in Record \ {r} : records'[q] = records[q]
          /\ \/ workers[w].outcome \in Closed /\ records'[r].status = workers[w].outcome
             \/ records'[r].status \in {"dead", "failed"}
      BY <1>5, <2>4, FinalizeEffect DEF Holds
    <3>2. PICK q \in Record : q = r
      BY <2>2
    <3> HIDE DEF r
    <3>3. CASE records'[q].status = "failed"
      <4>1. StateOf(records[q].status) = "open" /\ StateOf(records'[q].status) = "open"
        BY <3>1, <3>2, <3>3 DEF StateOf, Open
      <4>2. QED
        BY <2>1, <3>1, <3>2, <4>1, LedgerStutter
    <3>4. CASE records'[q].status # "failed"
      <4>1. PICK how \in Closed :
              records'[q].status = how /\ (how = "sent" => workers[w].outcome = "sent")
        BY <3>1, <3>2, <3>4 DEF Closed
      <4>2. Ledger!Close(q, how)
        BY <2>1, <2>2, <3>1, <3>2, <4>1, LedgerClose
      <4>3. how \in Ledger!Closed
        BY DEF Closed, Ledger!Closed
      <4>4. QED
        BY <4>2, <4>3 DEF Ledger!Next
    <3>5. QED
      BY <3>3, <3>4
  <2>5. QED
    BY <2>3, <2>4
<1>6. ASSUME NEW w \in Worker,
             \/ ScanRead(w) \/ StartLoop(w) \/ ClaimMiss(w) \/ Prepare(w)
             \/ StatementFails(w) \/ Crash(w)
      PROVE  UNCHANGED <<records, delivered>>
  BY <1>6, ScanReadEffect, StartLoopEffect, ClaimMissEffect, PrepareEffect,
     StatementFailsEffect, CrashEffect
<1>7. CASE Tick
  BY <1>7, TickEffect, LedgerStutter
<1>8. QED
  BY <1>1, <1>2, <1>3, <1>4, <1>5, <1>6, <1>7 DEF Next, WorkerStep, Change, vars

(***************************************************************************)
(* The daily digests implement the ledger.                                 *)
(***************************************************************************)
THEOREM Refines == Spec => LedgerKept
<1>1. IInv /\ [Next]_vars => [Ledger!Next]_(Ledger!vars)
  BY LedgerStep
<1>2. QED
  BY <1>1, LedgerInit, Inductive, PTL DEF Spec, LedgerKept, Ledger!Spec

-----------------------------------------------------------------------------
(***************************************************************************)
(* Reminders: the posts and marks of the tasks' instants.                  *)
(***************************************************************************)
Exempt == slips.unrecorded \cup slips.returned
WasPosted(t, i) == posts[<<t, i>>] > 0
Marking(t, i) == sweep.phase = "mark" /\ t \in sweep.task /\ sweep.seen[t] = i

(***************************************************************************)
(* The sweep posts one task at a time, which is not marked and was there   *)
(* when the sweep selected it.                                             *)
(***************************************************************************)
SweepOK ==
  /\ sweep.phase \in {"rest", "turn"} => sweep.task = {}
  /\ sweep.phase = "rest" => sweep.todo = {}
  /\ sweep.now <= clock
  /\ sweep.task \cap sweep.todo = {}
  /\ \A t \in sweep.task : sweep.seen[t] \in 0..sweep.now
  /\ \A t, u \in sweep.task : t = u
  /\ \A t \in sweep.task \cup sweep.todo : ~items[t].sent /\ items[t].state # "new"

\* What the sweep is going to post is the instant the task has, or the change is known.
HeldOK ==
  \A t \in sweep.task \cup sweep.todo :
    Held(t) /\ t \notin slips.lost /\ items[t].state = "live"
      => items[t].at = sweep.seen[t]

\* A mark follows a post.
MarkOK == \A t \in sweep.task : sweep.phase = "mark" => WasPosted(t, sweep.seen[t])

\* What was posted has been due, and is of a task that has been added.
PostedOK ==
  \A t \in Todo, i \in Instant :
    WasPosted(t, i) => i <= clock /\ items[t].state # "new"

\* What was posted and is not marked, or is about to be posted again, is exempt.
OnceOK ==
  /\ \A t \in Todo, i \in Instant :
       WasPosted(t, i) /\ items[t].state = "live" /\ items[t].at = i
         => items[t].sent \/ Marking(t, i) \/ <<t, i>> \in Exempt
  /\ \A t \in sweep.task \cup sweep.todo, i \in Instant :
       sweep.seen[t] = i /\ WasPosted(t, i) => Marking(t, i) \/ <<t, i>> \in Exempt

Inv ==
  /\ ReminderTypeOK /\ SweepOK /\ HeldOK /\ MarkOK /\ PostedOK /\ OnceOK
  /\ MarkedWasPosted /\ RemindedOnce

-----------------------------------------------------------------------------
(***************************************************************************)
(* One lemma for each action, or for actions that change the same.         *)
(***************************************************************************)
\* A sweep that ends, with nothing posted that it has not marked.
LEMMA RestKeeps ==
  ASSUME Inv, sweep.phase = "turn", sweep' = Resting,
         UNCHANGED <<items, webhook, clock, posts, slips>>
  PROVE  Inv'
<1> USE ReminderAssumption
    DEF Inv, ReminderTypeOK, SweepOK, Instant, AnyInstant, Resting, Unseen
<1>1. ReminderTypeOK' /\ SweepOK'
  OBVIOUS
<1>2. HeldOK' /\ MarkOK' /\ PostedOK'
  BY <1>1 DEF HeldOK, Held, MarkOK, PostedOK, WasPosted
<1>3. OnceOK'
  BY <1>1 DEF OnceOK, WasPosted, Marking, Exempt
<1>4. MarkedWasPosted' /\ RemindedOnce'
  BY <1>1 DEF MarkedWasPosted, RemindedOnce
<1> QED
  BY <1>1, <1>2, <1>3, <1>4

LEMMA StartSweepKeeps ==
  ASSUME Inv, StartSweep
  PROVE  Inv'
<1> USE ReminderAssumption
    DEF Inv, ReminderTypeOK, SweepOK, Instant, AnyInstant,
        Resting, Unseen, StartSweep, Selected, Absent
<1>1. ReminderTypeOK'
  OBVIOUS
<1>2. SweepOK'
  OBVIOUS
<1>3. HeldOK'
  BY <1>1 DEF HeldOK, Held
<1>4. MarkOK'
  BY <1>1 DEF MarkOK, WasPosted
<1>5. PostedOK'
  BY <1>1 DEF PostedOK, WasPosted
<1>6. OnceOK'
  BY <1>1, ZenonT(60) DEF OnceOK, PostedOK, WasPosted, Marking, Exempt
<1>7. MarkedWasPosted'
  BY <1>1 DEF MarkedWasPosted, MarkOK, HeldOK, Held, WasPosted
<1>8. RemindedOnce'
  BY <1>1 DEF RemindedOnce, OnceOK, WasPosted, Marking, Exempt
<1> QED
  BY <1>1, <1>2, <1>3, <1>4, <1>5, <1>6, <1>7, <1>8

LEMMA TakeTurnKeeps ==
  ASSUME Inv, NEW t \in Todo, TakeTurn(t)
  PROVE  Inv'
<1> DEFINE posting == IsDue(Loaded(t)) /\ Hook = "set"
<1>1. ReminderTypeOK'
  BY ReminderAssumption
     DEF Inv, ReminderTypeOK, Instant, AnyInstant, TakeTurn, Loaded, Hook, IsDue
<1>2. /\ sweep.phase = "turn" /\ t \in sweep.todo
      /\ sweep.seen[t] # NoInstant \/ items[t].state = "live"
      /\ UNCHANGED <<items, posts, slips, clock>>
  BY DEF TakeTurn
<1>3. /\ sweep'.todo = sweep.todo \ {t} /\ sweep'.now = sweep.now
      /\ sweep'.phase = IF posting THEN "post" ELSE "turn"
      /\ sweep'.task = IF posting THEN {t} ELSE {}
      /\ sweep'.seen[t] = IF posting THEN Loaded(t) ELSE NoInstant
      /\ \A u \in Todo \ {t} : sweep'.seen[u] = sweep.seen[u]
  BY DEF Inv, ReminderTypeOK, TakeTurn
<1>4. posting => Loaded(t) \in 0..sweep.now
  BY DEF IsDue
<1> HIDE DEF posting
<1>5. NoInstant \notin Nat /\ sweep.task = {} /\ sweep.todo \subseteq Todo /\ sweep.now \in Nat
  BY <1>2, ReminderAssumption DEF Inv, ReminderTypeOK, SweepOK, Instant
<1>6. SweepOK'
  BY <1>2, <1>3, <1>4, <1>5 DEF Inv, SweepOK
<1>7. HeldOK'
  <2> SUFFICES ASSUME NEW u \in sweep'.task \cup sweep'.todo,
                      Held(u)', u \notin slips.lost, items[u].state = "live"
               PROVE  items[u].at = sweep'.seen[u]
    BY <1>2 DEF HeldOK
  <2>1. sweep'.seen[u] \in 0..sweep.now
    BY <1>3 DEF Held
  <2>2. CASE u = t
    <3>1. posting /\ sweep'.seen[t] = Loaded(t)
      BY <1>3, <1>5, <2>1, <2>2
    <3>2. CASE sweep.seen[t] = NoInstant
      BY <2>2, <3>1, <3>2 DEF Loaded
    <3>3. CASE sweep.seen[t] # NoInstant
      BY <1>2, <1>4, <2>2, <3>1, <3>3 DEF Inv, HeldOK, Held, Loaded
    <3> QED
      BY <3>2, <3>3
  <2>3. CASE u # t
    <3>1. u \in sweep.todo /\ sweep'.seen[u] = sweep.seen[u]
      BY <1>3, <1>5, <2>3
    <3> QED
      BY <2>1, <3>1 DEF Inv, HeldOK, Held
  <2> QED
    BY <2>2, <2>3
<1>8. MarkOK' /\ PostedOK' /\ MarkedWasPosted' /\ RemindedOnce'
  BY <1>2, <1>3 DEF Inv, MarkOK, PostedOK, WasPosted, MarkedWasPosted, RemindedOnce
<1>9. OnceOK'
  <2>1. ASSUME NEW u \in Todo, NEW i \in Instant,
               WasPosted(u, i), items[u].state = "live", items[u].at = i
        PROVE  items[u].sent \/ <<u, i>> \in Exempt
    BY <1>2, <2>1 DEF Inv, OnceOK, Marking
  <2>2. ASSUME NEW u \in sweep'.task \cup sweep'.todo, NEW i \in Instant,
               sweep'.seen[u] = i, WasPosted(u, i)
        PROVE  <<u, i>> \in Exempt
    <3>1. u \in sweep.todo /\ u \in Todo /\ ~ items[u].sent
      BY <1>2, <1>3, <1>5 DEF Inv, SweepOK
    <3>2. CASE sweep.seen[u] = i
      BY <1>2, <2>2, <3>1, <3>2 DEF Inv, OnceOK, Marking
    <3>3. CASE sweep.seen[u] # i
      <4>1. u = t /\ posting /\ Loaded(t) = i
        BY <1>3, <1>5, <2>2, <3>1, <3>3 DEF Instant
      <4>2. items[t].state = "live" /\ items[t].at = i
        BY <1>2, <3>3, <4>1 DEF Loaded
      <4> QED
        BY <2>1, <2>2, <3>1, <4>1, <4>2
    <3> QED
      BY <3>2, <3>3
  <2> QED
    BY <1>2, <2>1, <2>2 DEF OnceOK, WasPosted, Exempt
<1> QED
  BY <1>1, <1>6, <1>7, <1>8, <1>9 DEF Inv

LEMMA PostKeeps ==
  ASSUME Inv, NEW t \in Todo, Post(t)
  PROVE  Inv'
<1> USE ReminderAssumption
    DEF Inv, ReminderTypeOK, SweepOK, Instant, AnyInstant,
        Resting, Unseen, Post, PostedOf
<1>1. ReminderTypeOK'
  OBVIOUS
<1>2. SweepOK'
  OBVIOUS
<1>3. HeldOK'
  BY <1>1 DEF HeldOK, Held
<1>4. MarkOK'
  BY <1>1 DEF MarkOK, WasPosted
<1>5. PostedOK'
  BY <1>1 DEF PostedOK, WasPosted
<1>6. OnceOK'
  BY <1>1 DEF OnceOK, PostedOK, WasPosted, Marking, Exempt
<1>7. MarkedWasPosted'
  BY <1>1 DEF MarkedWasPosted, MarkOK, HeldOK, Held, WasPosted
<1>8. RemindedOnce'
  <2> SUFFICES ASSUME NEW e \in Todo \X Instant, posts'[e] > 1
               PROVE  e \in Exempt
    BY DEF RemindedOnce, Exempt
  <2>1. CASE e = <<t, sweep.seen[t]>>
    <3>1. WasPosted(t, sweep.seen[t]) /\ ~ Marking(t, sweep.seen[t])
      BY <2>1 DEF WasPosted, Marking
    <3> QED
      BY <2>1, <3>1 DEF OnceOK
  <2>2. CASE e # <<t, sweep.seen[t]>>
    BY <2>2 DEF RemindedOnce, Exempt
  <2> QED
    BY <2>1, <2>2
<1> QED
  BY <1>1, <1>2, <1>3, <1>4, <1>5, <1>6, <1>7, <1>8

LEMMA PostMissesKeeps ==
  ASSUME Inv, NEW t \in Todo, PostMisses(t)
  PROVE  Inv'
<1> DEFINE e == <<t, sweep.seen[t]>>
<1>1. /\ sweep.phase = "post" /\ t \in sweep.task
      /\ UNCHANGED <<items, clock, webhook>>
      /\ sweep' = [sweep EXCEPT !.phase = "turn", !.task = {}, !.seen[t] = NoInstant]
  BY DEF PostMisses
<1>2. e \in Todo \X Instant
  BY <1>1, ReminderAssumption DEF Inv, ReminderTypeOK, SweepOK, Instant
<1>3. \/ UNCHANGED <<posts, slips>>
      \/ /\ posts' = [posts EXCEPT ![e] = IF @ = 0 THEN 1 ELSE 2]
         /\ slips' = [slips EXCEPT !.unrecorded = @ \cup {e}]
  BY DEF PostMisses, PostedOf
<1> HIDE DEF e
<1>4. slips'.lost = slips.lost /\ Exempt \subseteq Exempt'
  BY <1>3 DEF Inv, ReminderTypeOK, Exempt
<1>5. \A d \in Todo \X Instant :
        /\ posts[d] \in 0..2 /\ posts'[d] \in 0..2 /\ posts[d] <= posts'[d]
        /\ posts'[d] # posts[d] => d = e /\ e \in Exempt'
  <2>1. CASE UNCHANGED <<posts, slips>>
    BY <2>1 DEF Inv, ReminderTypeOK
  <2>2. CASE /\ posts' = [posts EXCEPT ![e] = IF @ = 0 THEN 1 ELSE 2]
             /\ slips' = [slips EXCEPT !.unrecorded = @ \cup {e}]
    BY <1>2, <2>2 DEF Inv, ReminderTypeOK, Exempt
  <2> QED
    BY <1>3, <2>1, <2>2
<1>6. /\ sweep'.phase = "turn" /\ sweep'.task = {}
      /\ sweep'.todo = sweep.todo /\ sweep'.now = sweep.now
      /\ \A u \in Todo \ {t} : sweep'.seen[u] = sweep.seen[u]
      /\ t \notin sweep.todo /\ sweep.todo \subseteq Todo
  BY <1>1 DEF Inv, ReminderTypeOK, SweepOK
<1>7. ReminderTypeOK'
  <2>1. posts' \in [Todo \X Instant -> 0..2]
    BY <1>2, <1>3 DEF Inv, ReminderTypeOK
  <2>2. slips.unrecorded \cup {e} \in SUBSET (Todo \X Instant)
    BY <1>2 DEF Inv, ReminderTypeOK
  <2>3. slips' \in [lost: SUBSET Todo, unrecorded: SUBSET (Todo \X Instant),
                    returned: SUBSET (Todo \X Instant)]
    BY <1>3, <2>2 DEF Inv, ReminderTypeOK
  <2> QED
    BY <1>1, <2>1, <2>3 DEF Inv, ReminderTypeOK, AnyInstant
<1>8. SweepOK' /\ HeldOK' /\ MarkOK'
  BY <1>1, <1>4, <1>6 DEF Inv, SweepOK, HeldOK, Held, MarkOK
<1>9. PostedOK'
  <2> SUFFICES ASSUME NEW u \in Todo, NEW i \in Instant, WasPosted(u, i)'
               PROVE  i <= clock /\ items[u].state # "new"
    BY <1>1 DEF PostedOK
  <2>1. CASE WasPosted(u, i)
    BY <2>1 DEF Inv, PostedOK
  <2>2. CASE ~ WasPosted(u, i)
    <3>1. u = t /\ i = sweep.seen[t]
      BY <1>5, <2>2 DEF WasPosted, e
    <3> QED
      BY <1>1, <3>1, ReminderAssumption DEF Inv, ReminderTypeOK, SweepOK, Instant
  <2> QED
    BY <2>1, <2>2
<1>10. OnceOK'
  BY <1>1, <1>4, <1>5, <1>6 DEF Inv, OnceOK, WasPosted, Marking
<1>11. MarkedWasPosted' /\ RemindedOnce'
  BY <1>1, <1>4, <1>5
     DEF Inv, MarkedWasPosted, RemindedOnce, Exempt, ReminderTypeOK, AnyInstant
<1> QED
  BY <1>7, <1>8, <1>9, <1>10, <1>11 DEF Inv

LEMMA MarkKeeps ==
  ASSUME Inv, NEW t \in Todo, Mark(t)
  PROVE  Inv'
<1>1. /\ sweep.phase = "mark" /\ t \in sweep.task
      /\ UNCHANGED <<webhook, clock, posts, slips, allowance>>
  BY DEF Mark
<1>2. /\ sweep.todo \subseteq Todo /\ t \notin sweep.todo
      /\ \A u \in sweep.task : u = t
  BY <1>1 DEF Inv, ReminderTypeOK, SweepOK
<1>3. CASE /\ items[t].state = "live"
           /\ items' = [items EXCEPT ![t].sent = TRUE]
           /\ sweep' = [sweep EXCEPT !.phase = "turn", !.task = {}, !.seen = Unseen,
                                     !.hook = "unread"]
  <2>1. /\ sweep'.phase = "turn" /\ sweep'.task = {} /\ sweep'.todo = sweep.todo
        /\ sweep'.now = sweep.now /\ \A u \in Todo : sweep'.seen[u] = NoInstant
    BY <1>3 DEF Inv, ReminderTypeOK, Unseen
  <2>2. /\ \A u \in Todo \ {t} : items'[u] = items[u]
        /\ items'[t].sent /\ items'[t].at = items[t].at /\ items'[t].state = "live"
    BY <1>3 DEF Inv, ReminderTypeOK
  <2>3. ReminderTypeOK'
    BY <1>1, <1>3 DEF Inv, ReminderTypeOK, Unseen, AnyInstant
  <2>4. SweepOK'
    BY <1>1, <1>2, <2>1, <2>2 DEF Inv, SweepOK
  <2>5. HeldOK' /\ MarkOK'
    BY <1>2, <2>1, ReminderAssumption DEF Inv, ReminderTypeOK, Instant, HeldOK, Held, MarkOK
  <2>6. PostedOK'
    BY <1>1, <2>2 DEF Inv, PostedOK, WasPosted
  <2>7. OnceOK'
    BY <1>1, <1>2, <2>1, <2>2, ReminderAssumption
       DEF Inv, OnceOK, WasPosted, Marking, Exempt, Instant
  <2>8. MarkedWasPosted'
    <3>1. t \notin slips.lost => items[t].at = sweep.seen[t] /\ WasPosted(t, sweep.seen[t])
      BY <1>1, <1>3 DEF Inv, SweepOK, HeldOK, Held, MarkOK
    <3> QED
      BY <1>1, <2>2, <3>1 DEF Inv, MarkedWasPosted, WasPosted
  <2>9. RemindedOnce'
    BY <1>1 DEF Inv, RemindedOnce
  <2> QED
    BY <2>3, <2>4, <2>5, <2>6, <2>7, <2>8, <2>9 DEF Inv
<1>4. CASE items[t].state = "gone" /\ sweep' = Resting /\ UNCHANGED items
  <2>1. /\ sweep'.phase = "rest" /\ sweep'.task = {} /\ sweep'.todo = {} /\ sweep'.now = 0
    BY <1>4 DEF Resting
  <2>2. ReminderTypeOK'
    BY <1>1, <1>4, ReminderAssumption
       DEF Inv, ReminderTypeOK, Resting, Unseen, AnyInstant, Instant
  <2>3. SweepOK' /\ HeldOK' /\ MarkOK'
    BY <1>1, <2>1 DEF Inv, ReminderTypeOK, SweepOK, HeldOK, MarkOK, Instant
  <2>4. OnceOK'
    <3>1. ASSUME NEW u \in Todo, NEW i \in Instant, WasPosted(u, i),
                 items[u].state = "live", items[u].at = i
          PROVE  items[u].sent \/ <<u, i>> \in Exempt
      BY <1>2, <1>4, <3>1 DEF Inv, OnceOK, Marking
    <3> QED
      BY <1>1, <1>4, <2>1, <3>1 DEF OnceOK, WasPosted, Exempt
  <2>5. PostedOK' /\ MarkedWasPosted' /\ RemindedOnce'
    BY <1>1, <1>4 DEF Inv, PostedOK, WasPosted, MarkedWasPosted, RemindedOnce
  <2> QED
    BY <2>2, <2>3, <2>4, <2>5 DEF Inv
<1> QED
  BY <1>3, <1>4 DEF Mark

LEMMA RestartKeeps ==
  ASSUME Inv, Restart
  PROVE  Inv'
<1> USE ReminderAssumption
    DEF Inv, ReminderTypeOK, SweepOK, Instant, AnyInstant,
        Resting, Unseen, Restart, MissLeft
<1>1. ReminderTypeOK'
  <2> DEFINE marked == {<<t, sweep.seen[t]>> : t \in sweep.task}
  <2>1. marked \subseteq Todo \X Instant
    OBVIOUS
  <2>2. slips' \in {slips, [slips EXCEPT !.unrecorded = @ \cup marked]}
    OBVIOUS
  <2>3. slips' \in [lost: SUBSET Todo, unrecorded: SUBSET (Todo \X Instant),
                    returned: SUBSET (Todo \X Instant)]
    BY <2>1, <2>2
  <2> QED
    BY <2>3
<1>2. SweepOK'
  OBVIOUS
<1>3. HeldOK'
  BY <1>1 DEF HeldOK, Held
<1>4. MarkOK'
  BY <1>1 DEF MarkOK, WasPosted
<1>5. PostedOK'
  BY <1>1 DEF PostedOK, WasPosted
<1>6. OnceOK'
  BY <1>1 DEF OnceOK, PostedOK, WasPosted, Marking, Exempt
<1>7. MarkedWasPosted'
  BY <1>1 DEF MarkedWasPosted, MarkOK, HeldOK, Held, WasPosted
<1>8. RemindedOnce'
  BY <1>1 DEF RemindedOnce, OnceOK, WasPosted, Marking, Exempt
<1> QED
  BY <1>1, <1>2, <1>3, <1>4, <1>5, <1>6, <1>7, <1>8

\* Time goes on, the webhook changes.
LEMMA AroundKeeps ==
  ASSUME Inv, Later \/ SetWebhook
  PROVE  Inv'
<1> USE ReminderAssumption
    DEF Inv, ReminderTypeOK, SweepOK, Instant, Later, SetWebhook
<1>1. ReminderTypeOK' /\ SweepOK'
  OBVIOUS
<1>2. HeldOK' /\ MarkOK' /\ PostedOK'
  BY <1>1 DEF HeldOK, Held, MarkOK, PostedOK, WasPosted
<1>3. OnceOK'
  BY <1>1 DEF OnceOK, WasPosted, Marking, Exempt
<1>4. MarkedWasPosted' /\ RemindedOnce'
  BY <1>1 DEF MarkedWasPosted, RemindedOnce
<1> QED
  BY <1>1, <1>2, <1>3, <1>4

LEMMA SaveItemKeeps ==
  ASSUME Inv, NEW t \in Todo, SaveItem(t)
  PROVE  Inv'
<1>1. PICK wanted \in BOOLEAN, scheduled \in BOOLEAN, at \in AnyInstant :
        SaveAs(t, [items[t] EXCEPT !.wanted = wanted, !.at = at], scheduled)
  BY DEF SaveItem
<1> DEFINE old == items[t]
           new == [old EXCEPT !.wanted = wanted, !.at = at]
           sent == old.sent /\ ~Rescheduled(old, new, scheduled)
           moved == at # old.at
<1>2. items[t].state = "live" /\ UNCHANGED <<webhook, clock, sweep, posts>>
  BY DEF SaveItem
<1>3. new.at = at /\ new.wanted = wanted /\ new.state = old.state
  BY DEF Inv, ReminderTypeOK
<1>4. /\ items' = [items EXCEPT ![t] = [new EXCEPT !.sent = sent]]
      /\ slips' = [slips EXCEPT
           !.lost = IF moved /\ (Held(t) \/ Keeps(old, new, scheduled)) THEN @ \cup {t}
                    ELSE IF sent \/ Held(t) THEN @ ELSE @ \ {t},
           !.returned = IF moved /\ ~old.sent /\ at \in 0..clock
                        THEN @ \cup {<<t, at>>} ELSE @]
  BY <1>3, <1>1 DEF SaveAs
<1>5. /\ items'[t].state = "live" /\ items'[t].at = at
      /\ items'[t].sent <=> sent
      /\ \A u \in Todo \ {t} : items'[u] = items[u]
  BY <1>4, <1>2 DEF Inv, ReminderTypeOK
<1>6. /\ slips'.unrecorded = slips.unrecorded
      /\ slips'.returned = IF moved /\ ~old.sent /\ at \in 0..clock
                           THEN slips.returned \cup {<<t, at>>} ELSE slips.returned
      /\ slips'.lost = IF moved /\ (Held(t) \/ Keeps(old, new, scheduled))
                       THEN slips.lost \cup {t}
                       ELSE IF sent \/ Held(t) THEN slips.lost ELSE slips.lost \ {t}
  BY <1>4 DEF Inv, ReminderTypeOK
<1>7. sent \in BOOLEAN /\ new \in [state: {"new", "live", "gone"}, wanted: BOOLEAN,
                                   at: AnyInstant, sent: BOOLEAN]
  BY DEF Inv, ReminderTypeOK
<1>8. moved /\ sent => Keeps(old, new, scheduled)
  <2>1. at = NoInstant \/ at > clock \/ at \in 0..clock
    BY DEF Inv, ReminderTypeOK, AnyInstant, Instant
  <2> QED
    BY <1>3, <2>1 DEF Rescheduled, Keeps
<1>9. sent => old.sent
  OBVIOUS
<1>10. Exempt \subseteq Exempt'
  BY <1>6 DEF Exempt
<1>11. ReminderTypeOK'
  <2>1. items' \in [Todo -> [state: {"new", "live", "gone"}, wanted: BOOLEAN, at: AnyInstant,
                             sent: BOOLEAN]]
    BY <1>4, <1>7 DEF Inv, ReminderTypeOK
  <2>2. moved /\ at \in 0..clock => <<t, at>> \in Todo \X Instant
    BY ReminderAssumption DEF Inv, ReminderTypeOK, Instant
  <2>3. slips' \in [lost: SUBSET Todo, unrecorded: SUBSET (Todo \X Instant),
                    returned: SUBSET (Todo \X Instant)]
    BY <1>4, <2>2 DEF Inv, ReminderTypeOK
  <2> QED
    BY <1>2, <2>1, <2>3 DEF Inv, ReminderTypeOK
<1> HIDE DEF old, new, sent, moved
<1>12. SweepOK' /\ MarkOK'
  <2>1. t \in sweep.task \cup sweep.todo => ~ items'[t].sent
    BY <1>5, <1>9 DEF Inv, SweepOK, old
  <2> QED
    BY <1>2, <1>5, <2>1 DEF Inv, ReminderTypeOK, SweepOK, MarkOK, WasPosted
<1>13. HeldOK'
  <2>1. ASSUME Held(t), t \notin slips'.lost
        PROVE  t \notin slips.lost /\ items'[t].at = items[t].at
    BY <1>5, <1>6, <2>1 DEF old, moved
  <2>2. \A u \in Todo \ {t} : u \in slips'.lost <=> u \in slips.lost
    BY <1>6
  <2> QED
    BY <1>2, <1>5, <2>1, <2>2 DEF Inv, ReminderTypeOK, HeldOK, Held
<1>14. PostedOK'
  BY <1>2, <1>5 DEF Inv, PostedOK, WasPosted
<1>15. OnceOK'
  <2>1. ASSUME NEW i \in Instant, WasPosted(t, i), items'[t].at = i
        PROVE  items'[t].sent \/ Marking(t, i) \/ <<t, i>> \in Exempt'
    <3>1. i \in 0..clock
      BY <2>1 DEF Inv, PostedOK, ReminderTypeOK, Instant
    <3>2. CASE moved
      <4>1. CASE old.sent
        <5>1. ~ Rescheduled(old, new, scheduled)
          BY <1>5, <2>1, <3>1 DEF Rescheduled, new, old, Inv, ReminderTypeOK, Instant
        <5> QED
          BY <1>5, <4>1, <5>1 DEF sent
      <4>2. CASE ~ old.sent
        BY <1>5, <1>6, <2>1, <3>1, <3>2, <4>2 DEF Exempt
      <4> QED
        BY <4>1, <4>2
    <3>3. CASE ~ moved
      <4>1. items[t].at = i
        BY <1>5, <2>1, <3>3 DEF moved, old
      <4>2. sent <=> old.sent
        BY <3>3 DEF sent, moved, old, new, Rescheduled, Inv, ReminderTypeOK
      <4> QED
        BY <1>2, <1>5, <1>10, <2>1, <4>1, <4>2 DEF Inv, OnceOK, old
    <3> QED
      BY <3>2, <3>3
  <2> QED
    BY <1>2, <1>5, <1>10, <2>1 DEF Inv, OnceOK, WasPosted, Marking
<1>16. MarkedWasPosted'
  <2>1. ASSUME items'[t].sent, t \notin slips'.lost
        PROVE  items[t].sent /\ items'[t].at = items[t].at /\ t \notin slips.lost
    BY <1>5, <1>6, <1>8, <1>9, <2>1 DEF old, moved
  <2>2. \A u \in Todo \ {t} : u \in slips'.lost <=> u \in slips.lost
    BY <1>6
  <2> QED
    BY <1>2, <1>5, <2>1, <2>2 DEF Inv, MarkedWasPosted
<1>17. RemindedOnce'
  BY <1>2, <1>10 DEF Inv, RemindedOnce, Exempt
<1> QED
  BY <1>11, <1>12, <1>13, <1>14, <1>15, <1>16, <1>17 DEF Inv

LEMMA AddItemKeeps ==
  ASSUME Inv, NEW t \in Todo, AddItem(t)
  PROVE  Inv'
<1> USE ReminderAssumption
    DEF Inv, ReminderTypeOK, SweepOK, Instant, AnyInstant,
        Resting, Unseen, AddItem, SaveLeft
<1>1. ReminderTypeOK'
  OBVIOUS
<1>2. SweepOK'
  OBVIOUS
<1>3. HeldOK'
  BY <1>1 DEF HeldOK, Held
<1>4. MarkOK'
  BY <1>1 DEF MarkOK, WasPosted
<1>5. PostedOK'
  BY <1>1 DEF PostedOK, WasPosted
<1>6. OnceOK'
  BY <1>1 DEF OnceOK, PostedOK, WasPosted, Marking, Exempt
<1>7. MarkedWasPosted'
  BY <1>1 DEF MarkedWasPosted, MarkOK, HeldOK, Held, WasPosted
<1>8. RemindedOnce'
  BY <1>1 DEF RemindedOnce, OnceOK, WasPosted, Marking, Exempt
<1> QED
  BY <1>1, <1>2, <1>3, <1>4, <1>5, <1>6, <1>7, <1>8

LEMMA DropItemKeeps ==
  ASSUME Inv, NEW t \in Todo, DropItem(t)
  PROVE  Inv'
<1> USE ReminderAssumption
    DEF Inv, ReminderTypeOK, SweepOK, Instant, AnyInstant,
        Resting, Unseen, DropItem, SaveLeft, Absent
<1>1. ReminderTypeOK'
  OBVIOUS
<1>2. SweepOK'
  OBVIOUS
<1>3. HeldOK'
  BY <1>1 DEF HeldOK, Held
<1>4. MarkOK'
  BY <1>1 DEF MarkOK, WasPosted
<1>5. PostedOK'
  BY <1>1 DEF PostedOK, WasPosted
<1>6. OnceOK'
  BY <1>1 DEF OnceOK, PostedOK, WasPosted, Marking, Exempt
<1>7. MarkedWasPosted'
  BY <1>1 DEF MarkedWasPosted, MarkOK, HeldOK, Held, WasPosted
<1>8. RemindedOnce'
  BY <1>1 DEF RemindedOnce, OnceOK, WasPosted, Marking, Exempt
<1> QED
  BY <1>1, <1>2, <1>3, <1>4, <1>5, <1>6, <1>7, <1>8

LEMMA InitInv == ReminderInit => Inv
<1> SUFFICES ASSUME ReminderInit PROVE Inv
  OBVIOUS
<1>1. /\ sweep.phase = "rest" /\ sweep.now = 0 /\ sweep.todo = {} /\ sweep.task = {}
      /\ clock = 0 /\ posts = [e \in Todo \X Instant |-> 0]
  BY DEF ReminderInit, Resting
<1>2. \A t \in Todo : /\ items[t] \in [state: {"new", "live", "gone"}, wanted: BOOLEAN,
                                      at: AnyInstant, sent: BOOLEAN]
                    /\ ~ items[t].sent
  <2> SUFFICES ASSUME NEW t \in Todo
               PROVE  /\ items[t] \in [state: {"new", "live", "gone"}, wanted: BOOLEAN,
                                       at: AnyInstant, sent: BOOLEAN]
                      /\ ~ items[t].sent
    OBVIOUS
  <2>1. CASE items[t] \in [state: {"live"}, wanted: {TRUE}, at: AnyInstant, sent: {FALSE}]
    BY <2>1
  <2>2. CASE items[t] = Absent("new")
    BY <2>2 DEF Absent, AnyInstant
  <2> QED
    BY <2>1, <2>2 DEF ReminderInit
<1>3. ReminderTypeOK
  <2>1. items \in [Todo -> [state: {"new", "live", "gone"}, wanted: BOOLEAN,
                            at: AnyInstant, sent: BOOLEAN]]
    BY <1>2 DEF ReminderInit
  <2> QED
    BY <1>1, <2>1, ReminderAssumption
       DEF ReminderInit, ReminderTypeOK, Resting, Unseen, Instant, AnyInstant
<1>4. SweepOK /\ HeldOK /\ MarkOK /\ PostedOK /\ OnceOK
  BY <1>1 DEF SweepOK, HeldOK, MarkOK, PostedOK, OnceOK, WasPosted
<1>5. MarkedWasPosted /\ RemindedOnce
  BY <1>1, <1>2 DEF MarkedWasPosted, RemindedOnce
<1> QED
  BY <1>3, <1>4, <1>5 DEF Inv

LEMMA NextInv == Inv /\ [ReminderNext]_reminderVars => Inv'
<1> SUFFICES ASSUME Inv, [ReminderNext]_reminderVars PROVE Inv'
  OBVIOUS
<1>1. CASE UNCHANGED reminderVars
  BY <1>1 DEF reminderVars, Inv, ReminderTypeOK, SweepOK, HeldOK, Held, MarkOK, PostedOK,
              OnceOK, WasPosted, Marking, Exempt, MarkedWasPosted, RemindedOnce
<1>2. CASE SweepStep
  <2>1. CASE EndSweep \/ \E t \in Todo : Vanishes(t)
    BY <2>1, RestKeeps DEF EndSweep, Vanishes
  <2>2. CASE StartSweep \/ \E t \in Todo : TakeTurn(t)
    BY <2>2, StartSweepKeeps, TakeTurnKeeps
  <2>3. CASE \E t \in Todo : Post(t) \/ PostMisses(t) \/ Mark(t)
    BY <2>3, PostKeeps, PostMissesKeeps, MarkKeeps
  <2> QED
    BY <1>2, <2>1, <2>2, <2>3 DEF SweepStep
<1>3. CASE Restart \/ Later \/ SetWebhook
  BY <1>3, RestartKeeps, AroundKeeps
<1>4. CASE \E t \in Todo : SaveItem(t) \/ AddItem(t) \/ DropItem(t)
  BY <1>4, SaveItemKeeps, AddItemKeeps, DropItemKeeps
<1> QED
  BY <1>1, <1>2, <1>3, <1>4 DEF ReminderNext

LEMMA Invariance == ReminderSpec => []Inv
  BY InitInv, NextInv, PTL DEF ReminderSpec

\* The tasks, the sweep and the history keep their types.
THEOREM ReminderTypeCorrect == ReminderSpec => []ReminderTypeOK
  BY Invariance, PTL DEF Inv

\* Whatever fails or is restarted, and however tasks and sweep interleave, a mark means that
\* the instant a task has was posted, but for the exemption that MarkedWasPosted states.
THEOREM MarksMeanPosts == ReminderSpec => []MarkedWasPosted
  BY Invariance, PTL DEF Inv

\* No instant of a task is posted twice, but for the exemption that RemindedOnce states.
THEOREM NoSecondReminder == ReminderSpec => []RemindedOnce
  BY Invariance, PTL DEF Inv
=============================================================================
