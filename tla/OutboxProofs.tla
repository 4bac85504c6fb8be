---------------------------- MODULE OutboxProofs ----------------------------
(***************************************************************************)
(* What holds of the outbox for every number of jobs, keys, workers and    *)
(* requests.                                                               *)
(***************************************************************************)
EXTENDS Outbox, OutboxQueueProofs

(***************************************************************************)
(* A row in use has a key, and its progress has a unit left to visit.      *)
(***************************************************************************)
RowsKeyed ==
  \A j \in Job :
    /\ outbox[j].status # "none" <=> outbox[j].key \in Key
    /\ outbox[j].key \in Key => outbox[j].progress < Pages[outbox[j].key]

(***************************************************************************)
(* A busy worker is at a unit of a row in use; a request that has selected *)
(* is about a unit, and the row it found has its key.                      *)
(***************************************************************************)
WorkersPlaced ==
  \A w \in Worker :
    workers[w].phase # "idle" =>
      /\ workers[w].job \in Job
      /\ outbox[workers[w].job].key \in Key
      /\ workers[w].page \in 1 .. Pages[outbox[workers[w].job].key]

RequestsPlaced ==
  \A r \in Request :
    requests[r].phase = "selected" =>
      /\ requests[r].key \in Key
      /\ requests[r].page \in 1 .. Pages[requests[r].key]
      /\ requests[r].found \in Job =>
           outbox[requests[r].found].key = requests[r].key

Placed == RowsKeyed /\ WorkersPlaced /\ RequestsPlaced

(***************************************************************************)
(* The row a worker runs is the worker's own, as long as no claim on a row *)
(* of that key outlived its lease.  This is what makes ExclusiveRun        *)
(* inductive.                                                              *)
(***************************************************************************)
HolderOwns ==
  \A w \in Worker, j \in Job :
    Running(w, j) /\ outbox[j].key \notin lapses.overran
      => outbox[j].status = "processing" /\ outbox[j].lockedBy = w

IInv == TypeOK /\ Placed /\ HolderOwns /\ RetryBudget /\ OneOpenRow

-----------------------------------------------------------------------------
(***************************************************************************)
(* Every action preserves the inductive invariant.                         *)
(***************************************************************************)
LEMMA UnitOfBusy ==
  ASSUME IInv, NEW w \in Worker, workers[w].phase # "idle"
  PROVE  UnitOf(w) \in Unit /\ workers[w].job \in Job /\ workers[w].page \in Nat
<1>1. /\ workers[w].job \in Job
      /\ outbox[workers[w].job].key \in Key
      /\ workers[w].page \in 1 .. Pages[outbox[workers[w].job].key]
  BY DEF IInv, Placed, WorkersPlaced
<1>2. QED
  BY <1>1 DEF UnitOf, Unit

LEMMA ClaimStep ==
  ASSUME IInv, NEW w \in Worker, Claim(w)
  PROVE  IInv'
<1>1. PICK j \in ClaimCandidates(outbox) :
        /\ outbox' = [outbox EXCEPT ![j] = ClaimRow(@, w)]
        /\ workers' = [workers EXCEPT ![w] =
             [phase |-> "claimed", job |-> j, page |-> outbox[j].progress + 1,
              seen |-> 0]]
        /\ lapses' = [lapses EXCEPT !.overran =
             IF outbox[j].lockAge = Lease /\ \E v \in Worker : Running(v, j)
             THEN @ \cup {outbox[j].key} ELSE @]
  BY DEF Claim
<1>2. j \in Job /\ outbox[j] \in Row /\ outbox[j].status \in Open
  BY DEF ClaimCandidates, Claimable, Open, IInv, TypeOK
<1>3. outbox[j].key \in Key /\ outbox[j].progress + 1 \in 1 .. Pages[outbox[j].key]
  BY <1>2, OutboxAssumption DEF IInv, Placed, RowsKeyed, Open, Row
<1>4. UNCHANGED <<requests, changes, google, budget>>
  BY DEF Claim
<1>. DEFINE row == ClaimRow(outbox[j], w)
<1>5. /\ row \in Row /\ row.key = outbox[j].key
      /\ row.status = "processing" /\ row.lockedBy = w
      /\ row.attempts = outbox[j].attempts /\ row.progress = outbox[j].progress
  BY <1>2, ClaimRowLemma
<1>6. outbox' = [outbox EXCEPT ![j] = row]
  BY <1>1
<1>. HIDE DEF row
<1>7. TypeOK'
  <2>1. outbox' \in [Job -> Row]
    BY <1>2, <1>5, <1>6 DEF IInv, TypeOK
  <2>2. workers' \in [Worker -> [phase: {"idle", "claimed", "read", "sent"},
                                 job: Job \cup {NoJob}, page: Nat, seen: Nat]]
    BY <1>1, <1>2, <1>3, OutboxAssumption DEF IInv, TypeOK
  <2>3. lapses' \in [overran: SUBSET Key, doubled: SUBSET Key, late: SUBSET Unit]
    BY <1>1, <1>3 DEF IInv, TypeOK
  <2>4. QED
    BY <1>4, <2>1, <2>2, <2>3 DEF IInv, TypeOK
<1>8. Placed'
  <2>1. RowsKeyed'
    BY <1>2, <1>3, <1>5, <1>6 DEF IInv, Placed, RowsKeyed, TypeOK
  <2>2. WorkersPlaced'
    BY <1>1, <1>2, <1>3, <1>5, <1>6 DEF IInv, Placed, WorkersPlaced, TypeOK
  <2>3. RequestsPlaced'
    BY <1>2, <1>4, <1>5, <1>6 DEF IInv, Placed, RequestsPlaced, TypeOK
  <2>4. QED
    BY <2>1, <2>2, <2>3 DEF Placed
<1>9. HolderOwns'
  <2>1. outbox[j].status = "processing" => outbox[j].lockAge = Lease
    BY DEF ClaimCandidates, Claimable
  <2>2. outbox[j].key \notin lapses'.overran => \A v \in Worker : ~Running(v, j)
    BY <1>1, <1>2, <2>1 DEF IInv, HolderOwns, TypeOK
  <2>3. QED
    BY <1>1, <1>2, <1>5, <1>6, <2>2 DEF IInv, HolderOwns, Running, TypeOK
<1>10. RetryBudget'
  BY <1>1, <1>2, <1>5, <1>6 DEF IInv, RetryBudget, TypeOK
<1>11. OneOpenRow'
  BY <1>1, <1>2, <1>5, <1>6 DEF IInv, OneOpenRow, TypeOK
<1>12. QED
  BY <1>7, <1>8, <1>9, <1>10, <1>11 DEF IInv

LEMMA EnqueueSelectStep ==
  ASSUME IInv, NEW r \in Request, NEW u \in Unit, EnqueueSelect(r, u)
  PROVE  IInv'
<1>1. PICK found \in IF OpenRows(outbox, u[1]) = {} THEN {NoJob}
                     ELSE OpenRows(outbox, u[1]) :
        requests' = [requests EXCEPT ![r] =
          [phase |-> "selected", key |-> u[1], page |-> u[2], found |-> found,
           wake |-> found # NoJob /\ outbox[found].waitTime > 0]]
  BY DEF EnqueueSelect
<1>2. /\ UNCHANGED <<outbox, workers, changes, google, lapses>>
      /\ budget.changes > 0 /\ budget' = [budget EXCEPT !.changes = @ - 1]
  BY DEF EnqueueSelect
<1>3. u[1] \in Key /\ u[2] \in 1 .. Pages[u[1]] /\ u[2] \in Nat
  BY OutboxAssumption DEF Unit
<1>4. \/ found = NoJob
      \/ found \in Job /\ outbox[found].key = u[1]
  BY DEF OpenRows
<1>5. TypeOK'
  <2>1. requests' \in [Request -> [phase: {"idle", "selected"},
                                   key: Key \cup {NoKey}, page: Nat,
                                   found: Job \cup {NoJob}, wake: BOOLEAN]]
    BY <1>1, <1>3, <1>4 DEF IInv, TypeOK
  <2>2. budget' \in [changes: Nat, crashes: Nat]
    BY <1>2 DEF IInv, TypeOK
  <2>3. QED
    BY <1>2, <2>1, <2>2 DEF IInv, TypeOK
<1>6. RequestsPlaced'
  BY <1>1, <1>2, <1>3, <1>4, OutboxAssumption
  DEF IInv, Placed, RequestsPlaced, TypeOK
<1>7. QED
  BY <1>2, <1>5, <1>6
  DEF IInv, Placed, RowsKeyed, WorkersPlaced, HolderOwns, Running, RetryBudget,
      OneOpenRow

LEMMA EnqueueAbortStep ==
  ASSUME IInv, NEW r \in Request, EnqueueAbort(r)
  PROVE  IInv'
<1>1. /\ requests' = [requests EXCEPT ![r] = NoRequest]
      /\ UNCHANGED <<outbox, workers, changes, google, budget, lapses>>
  BY DEF EnqueueAbort
<1>2. TypeOK'
  BY <1>1 DEF IInv, TypeOK, NoRequest
<1>3. RequestsPlaced'
  BY <1>1 DEF IInv, Placed, RequestsPlaced, TypeOK, NoRequest
<1>4. QED
  BY <1>1, <1>2, <1>3
  DEF IInv, Placed, RowsKeyed, WorkersPlaced, HolderOwns, Running, RetryBudget,
      OneOpenRow

LEMMA EnqueueCommitStep ==
  ASSUME IInv, NEW r \in Request, EnqueueCommit(r)
  PROVE  IInv'
<1>. DEFINE req == requests[r]
            u == <<req.key, req.page>>
<1>1. /\ req.phase = "selected"
      /\ changes' = [changes EXCEPT ![u] = @ + 1]
      /\ requests' = [requests EXCEPT ![r] = NoRequest]
      /\ UNCHANGED <<workers, google, budget>>
  BY DEF EnqueueCommit
<1>2. /\ req.key \in Key /\ u \in Unit
      /\ req.found \in Job => outbox[req.found].key = req.key
  BY <1>1 DEF IInv, Placed, RequestsPlaced, Unit
<1>3. /\ changes' \in [Unit -> Nat]
      /\ requests' \in [Request -> [phase: {"idle", "selected"},
                                     key: Key \cup {NoKey}, page: Nat,
                                     found: Job \cup {NoJob}, wake: BOOLEAN]]
  BY <1>1, <1>2 DEF IInv, TypeOK, NoRequest
<1>4. CASE /\ req.found = NoJob
           /\ \E j \in Job :
                /\ outbox[j].status = "none"
                /\ outbox' = [outbox EXCEPT ![j] = NewRow(req.key)]
           /\ lapses' = [lapses EXCEPT !.doubled =
                IF OpenRows(outbox, req.key) = {} THEN @ ELSE @ \cup {req.key}]
  <2>1. PICK j \in Job : /\ outbox[j].status = "none"
                         /\ outbox' = [outbox EXCEPT ![j] = NewRow(req.key)]
    BY <1>4
  <2>. DEFINE row == NewRow(req.key)
  <2>2. /\ row \in Row /\ row.key = req.key /\ row.status = "pending"
        /\ row.attempts = 0 /\ row.progress = 0
    BY <1>2, NewRowLemma
  <2>3. outbox' = [outbox EXCEPT ![j] = row]
    BY <2>1
  <2>. HIDE DEF row
  <2>4. outbox[j].key \notin Key
    BY <2>1 DEF IInv, Placed, RowsKeyed
  <2>5. /\ lapses' \in [overran: SUBSET Key, doubled: SUBSET Key, late: SUBSET Unit]
        /\ lapses'.overran = lapses.overran
        /\ lapses.doubled \subseteq lapses'.doubled
        /\ OpenRows(outbox, req.key) # {} => req.key \in lapses'.doubled
    BY <1>2, <1>4 DEF IInv, TypeOK
  <2>6. TypeOK'
    BY <1>1, <1>3, <2>2, <2>3, <2>5 DEF IInv, TypeOK
  <2>7. Placed'
    <3>1. RowsKeyed'
      BY <1>2, <2>2, <2>3, OutboxAssumption DEF IInv, Placed, RowsKeyed, TypeOK
    <3>2. WorkersPlaced'
      BY <1>1, <2>3, <2>4 DEF IInv, Placed, WorkersPlaced, TypeOK
    <3>3. RequestsPlaced'
      BY <1>1, <2>3, <2>4 DEF IInv, Placed, RequestsPlaced, TypeOK, NoRequest
    <3>4. QED
      BY <3>1, <3>2, <3>3 DEF Placed
  <2>8. HolderOwns'
    BY <1>1, <2>3, <2>4, <2>5
    DEF IInv, Placed, WorkersPlaced, HolderOwns, Running, TypeOK
  <2>9. RetryBudget'
    BY <2>2, <2>3, <2>5, QueueAssumption DEF IInv, RetryBudget, TypeOK
  <2>10. OneOpenRow'
    BY <2>2, <2>3, <2>5 DEF IInv, OneOpenRow, OpenRows, TypeOK
  <2>11. QED
    BY <2>6, <2>7, <2>8, <2>9, <2>10 DEF IInv
<1>5. CASE /\ req.found # NoJob
           /\ outbox' = [outbox EXCEPT ![req.found] = FoldRow(@, req.wake)]
           /\ lapses' = [lapses EXCEPT !.late =
                IF WillRead(req.found, u) THEN @ ELSE @ \cup {u}]
  <2>1. req.found \in Job /\ outbox[req.found] \in Row /\ req.wake \in BOOLEAN
    BY <1>5 DEF IInv, TypeOK
  <2>. DEFINE j == req.found
              row == FoldRow(outbox[j], req.wake)
  <2>2. /\ row \in Row /\ row.key = outbox[j].key /\ row.status = outbox[j].status
        /\ row.attempts = outbox[j].attempts /\ row.progress = outbox[j].progress
        /\ row.lockedBy = outbox[j].lockedBy
    BY <2>1, FoldRowLemma
  <2>3. outbox' = [outbox EXCEPT ![j] = row]
    BY <1>5
  <2>. HIDE DEF row, j
  <2>4. /\ outbox' \in [Job -> Row]
        /\ \A i \in Job :
             /\ outbox'[i].key = outbox[i].key /\ outbox'[i].status = outbox[i].status
             /\ outbox'[i].attempts = outbox[i].attempts
             /\ outbox'[i].progress = outbox[i].progress
             /\ outbox'[i].lockedBy = outbox[i].lockedBy
    BY <2>2, <2>3 DEF IInv, TypeOK
  <2>5. /\ lapses' \in [overran: SUBSET Key, doubled: SUBSET Key, late: SUBSET Unit]
        /\ lapses'.overran = lapses.overran /\ lapses'.doubled = lapses.doubled
    BY <1>2, <1>5 DEF IInv, TypeOK
  <2>6. TypeOK'
    BY <1>1, <1>3, <2>4, <2>5 DEF IInv, TypeOK
  <2>7. Placed'
    <3>1. RowsKeyed'
      BY <2>4 DEF IInv, Placed, RowsKeyed
    <3>2. WorkersPlaced'
      BY <1>1, <2>4 DEF IInv, Placed, WorkersPlaced
    <3>3. RequestsPlaced'
      BY <1>1, <2>4 DEF IInv, Placed, RequestsPlaced, TypeOK, NoRequest
    <3>4. QED
      BY <3>1, <3>2, <3>3 DEF Placed
  <2>8. HolderOwns'
    BY <1>1, <2>4, <2>5 DEF IInv, HolderOwns, Running
  <2>9. RetryBudget' /\ OneOpenRow'
    BY <2>4, <2>5 DEF IInv, RetryBudget, OneOpenRow
  <2>10. QED
    BY <2>6, <2>7, <2>8, <2>9 DEF IInv
<1>6. QED
  BY <1>4, <1>5 DEF EnqueueCommit

LEMMA ReadUnitStep ==
  ASSUME IInv, NEW w \in Worker, ReadUnit(w)
  PROVE  IInv'
<1>1. /\ workers[w].phase = "claimed"
      /\ workers' = [workers EXCEPT ![w].phase = "read",
                                    ![w].seen = changes[UnitOf(w)]]
      /\ lapses' = [lapses EXCEPT !.late = @ \ {UnitOf(w)}]
      /\ UNCHANGED <<outbox, requests, changes, google, budget>>
  BY DEF ReadUnit
<1>2. changes[UnitOf(w)] \in Nat
  BY <1>1, UnitOfBusy DEF IInv, TypeOK
<1>3. /\ lapses' \in [overran: SUBSET Key, doubled: SUBSET Key, late: SUBSET Unit]
      /\ lapses'.overran = lapses.overran /\ lapses'.doubled = lapses.doubled
  BY <1>1 DEF IInv, TypeOK
<1>4. /\ workers' \in [Worker -> [phase: {"idle", "claimed", "read", "sent"},
                                  job: Job \cup {NoJob}, page: Nat, seen: Nat]]
      /\ \A v \in Worker :
           /\ workers'[v].phase # "idle" <=> workers[v].phase # "idle"
           /\ workers'[v].job = workers[v].job /\ workers'[v].page = workers[v].page
  <2>. DEFINE State == [phase: {"idle", "claimed", "read", "sent"},
                        job: Job \cup {NoJob}, page: Nat, seen: Nat]
  <2>1. PICK read : read = [workers[w] EXCEPT !.phase = "read", !.seen = changes[UnitOf(w)]]
    OBVIOUS
  <2>2. workers \in [Worker -> State]
    BY DEF IInv, TypeOK
  <2>3. /\ read \in State /\ read.phase = "read"
        /\ read.job = workers[w].job /\ read.page = workers[w].page
    BY <1>2, <2>1, <2>2
  <2>4. workers' = [workers EXCEPT ![w] = read]
    BY <1>1, <2>1, <2>2
  <2>. HIDE DEF State
  <2>5. /\ workers' \in [Worker -> State] /\ workers'[w] = read
        /\ \A v \in Worker \ {w} : workers'[v] = workers[v]
    BY <2>2, <2>3, <2>4
  <2>6. QED
    BY <1>1, <2>3, <2>5 DEF State
<1>5. TypeOK'
  BY <1>1, <1>3, <1>4 DEF IInv, TypeOK
<1>6. Placed'
  BY <1>1, <1>4 DEF IInv, Placed, RowsKeyed, WorkersPlaced, RequestsPlaced
<1>7. HolderOwns' /\ RetryBudget' /\ OneOpenRow'
  BY <1>1, <1>3, <1>4 DEF IInv, HolderOwns, Running, RetryBudget, OneOpenRow
<1>8. QED
  BY <1>5, <1>6, <1>7 DEF IInv

LEMMA SendUnitStep ==
  ASSUME IInv, NEW w \in Worker, SendUnit(w)
  PROVE  IInv'
<1>1. /\ workers[w].phase = "read"
      /\ google' = [google EXCEPT ![UnitOf(w)] = workers[w].seen]
      /\ workers' = [workers EXCEPT ![w].phase = "sent"]
      /\ UNCHANGED <<outbox, requests, changes, budget, lapses>>
  BY DEF SendUnit
<1>2. google' \in [Unit -> Nat]
  BY <1>1, UnitOfBusy DEF IInv, TypeOK
<1>3. /\ workers' \in [Worker -> [phase: {"idle", "claimed", "read", "sent"},
                                  job: Job \cup {NoJob}, page: Nat, seen: Nat]]
      /\ \A v \in Worker :
           /\ workers'[v].phase # "idle" <=> workers[v].phase # "idle"
           /\ workers'[v].job = workers[v].job /\ workers'[v].page = workers[v].page
  BY <1>1 DEF IInv, TypeOK
<1>4. TypeOK'
  BY <1>1, <1>2, <1>3 DEF IInv, TypeOK
<1>5. Placed'
  BY <1>1, <1>3 DEF IInv, Placed, RowsKeyed, WorkersPlaced, RequestsPlaced
<1>6. HolderOwns' /\ RetryBudget' /\ OneOpenRow'
  BY <1>1, <1>3 DEF IInv, HolderOwns, Running, RetryBudget, OneOpenRow
<1>7. QED
  BY <1>4, <1>5, <1>6 DEF IInv

LEMMA CrashStep ==
  ASSUME IInv, NEW w \in Worker, Crash(w)
  PROVE  IInv'
<1>1. /\ budget.crashes > 0 /\ budget' = [budget EXCEPT !.crashes = @ - 1]
      /\ workers' = [workers EXCEPT ![w] = Idle]
      /\ UNCHANGED <<outbox, requests, changes, google, lapses>>
  BY DEF Crash
<1>2. budget' \in [changes: Nat, crashes: Nat]
  BY <1>1 DEF IInv, TypeOK
<1>3. /\ workers' \in [Worker -> [phase: {"idle", "claimed", "read", "sent"},
                                  job: Job \cup {NoJob}, page: Nat, seen: Nat]]
      /\ \A v \in Worker :
           workers'[v].phase # "idle" => v # w /\ workers'[v] = workers[v]
  BY <1>1 DEF IInv, TypeOK, Idle
<1>4. TypeOK'
  BY <1>1, <1>2, <1>3 DEF IInv, TypeOK
<1>5. Placed'
  BY <1>1, <1>3 DEF IInv, Placed, RowsKeyed, WorkersPlaced, RequestsPlaced
<1>6. HolderOwns' /\ RetryBudget' /\ OneOpenRow'
  BY <1>1, <1>3 DEF IInv, HolderOwns, Running, RetryBudget, OneOpenRow
<1>7. QED
  BY <1>4, <1>5, <1>6 DEF IInv

(***************************************************************************)
(* The end of a run, whatever the outcome: a row that was the worker's own *)
(* was open, so writing it reopens nothing and spends one attempt at most. *)
(***************************************************************************)
LEMMA EndOfRun ==
  ASSUME IInv, NEW w \in Worker, workers[w].phase # "idle",
         NEW row \in Row,
         row.key = outbox[workers[w].job].key,
         row.status \in Open \cup Final,
         row.progress < Pages[row.key],
         \/ row.attempts = outbox[workers[w].job].attempts
         \/ /\ row.attempts = outbox[workers[w].job].attempts + 1
            /\ row.status \in Open => row.attempts < MaxAttempts,
         outbox' = [outbox EXCEPT ![workers[w].job] = row],
         workers' = [workers EXCEPT ![w] = Idle],
         UNCHANGED <<requests, changes, google, budget, lapses>>
  PROVE  IInv'
<1>. DEFINE j == workers[w].job
<1>1. j \in Job /\ outbox[j] \in Row /\ outbox[j].key \in Key
  BY DEF IInv, TypeOK, Placed, WorkersPlaced
<1>2. outbox[j].key \notin lapses.overran
        => outbox[j].status = "processing" /\ outbox[j].lockedBy = w
  BY <1>1 DEF IInv, HolderOwns, Running
<1>3. outbox' = [outbox EXCEPT ![j] = row] /\ row.key = outbox[j].key
  OBVIOUS
<1>4. \/ row.attempts = outbox[j].attempts
      \/ /\ row.attempts = outbox[j].attempts + 1
         /\ row.status \in Open => row.attempts < MaxAttempts
  OBVIOUS
<1>. HIDE DEF j
<1>5. \A v \in Worker :
        workers'[v].phase # "idle" => v # w /\ workers'[v] = workers[v]
  BY DEF IInv, TypeOK, Idle
<1>6. TypeOK'
  <2>1. outbox' \in [Job -> Row]
    BY <1>1, <1>3 DEF IInv, TypeOK
  <2>2. workers' \in [Worker -> [phase: {"idle", "claimed", "read", "sent"},
                                 job: Job \cup {NoJob}, page: Nat, seen: Nat]]
    BY DEF IInv, TypeOK, Idle
  <2>3. QED
    BY <2>1, <2>2 DEF IInv, TypeOK
<1>7. Placed'
  <2>1. RowsKeyed'
    BY <1>1, <1>3 DEF IInv, TypeOK, Placed, RowsKeyed, Open, Final
  <2>2. WorkersPlaced'
    BY <1>1, <1>3, <1>5 DEF IInv, TypeOK, Placed, WorkersPlaced
  <2>3. RequestsPlaced'
    BY <1>1, <1>3 DEF IInv, TypeOK, Placed, RequestsPlaced
  <2>4. QED
    BY <2>1, <2>2, <2>3 DEF Placed
<1>8. HolderOwns'
  BY <1>1, <1>2, <1>3, <1>5 DEF IInv, TypeOK, HolderOwns, Running
<1>9. RetryBudget'
  <2>1. SUFFICES ASSUME outbox[j].key \notin lapses.overran
                 PROVE  /\ row.attempts <= MaxAttempts
                        /\ row.status \in Open => row.attempts < MaxAttempts
    BY <1>1, <1>3 DEF IInv, TypeOK, RetryBudget
  <2>2. outbox[j].attempts < MaxAttempts /\ outbox[j].attempts \in Nat
    BY <1>1, <1>2, <2>1 DEF IInv, RetryBudget, Open, Row
  <2>3. QED
    BY <1>4, <2>2, QueueAssumption
<1>10. OneOpenRow'
  BY <1>1, <1>2, <1>3 DEF IInv, TypeOK, OneOpenRow, Open
<1>11. QED
  BY <1>6, <1>7, <1>8, <1>9, <1>10 DEF IInv

LEMMA FinishStep ==
  ASSUME IInv, NEW w \in Worker, Finish(w)
  PROVE  IInv'
<1>. DEFINE j == workers[w].job
            page == workers[w].page
            row == IF page >= Pages[outbox[j].key] THEN DoneRow(outbox[j])
                   ELSE PendingRow(outbox[j], page)
<1>1. /\ workers[w].phase # "idle"
      /\ outbox' = [outbox EXCEPT ![j] = row]
      /\ workers' = [workers EXCEPT ![w] = Idle]
      /\ UNCHANGED <<requests, changes, google, budget, lapses>>
  BY DEF Finish
<1>2. /\ j \in Job /\ outbox[j] \in Row /\ outbox[j].key \in Key
      /\ page \in Nat /\ Pages[outbox[j].key] \in Nat \ {0}
  BY <1>1, UnitOfBusy, OutboxAssumption
  DEF IInv, TypeOK, Placed, WorkersPlaced
<1>3. /\ row \in Row /\ row.key = outbox[j].key
      /\ row.status \in {"done", "pending"}
      /\ row.attempts = outbox[j].attempts
      /\ row.progress < Pages[row.key]
  <2>1. CASE page >= Pages[outbox[j].key]
    <3>1. row = DoneRow(outbox[j])
      BY <2>1
    <3>. HIDE DEF row
    <3>2. QED
      BY <1>2, <3>1, DoneRowLemma
  <2>2. CASE ~(page >= Pages[outbox[j].key])
    <3>1. row = PendingRow(outbox[j], page) /\ page < Pages[outbox[j].key]
      BY <1>2, <2>2
    <3>. HIDE DEF row
    <3>2. QED
      BY <1>2, <3>1, PendingRowLemma
  <2>3. QED
    BY <2>1, <2>2
<1>. HIDE DEF row
<1>4. QED
  BY <1>1, <1>3, EndOfRun DEF Open, Final

LEMMA FailStep ==
  ASSUME IInv, NEW w \in Worker, Fail(w)
  PROVE  IInv'
<1>. DEFINE j == workers[w].job
<1>1. PICK retryable \in BOOLEAN :
        outbox' = [outbox EXCEPT ![j] = FailedRow(@, retryable)]
  BY DEF Fail
<1>2. /\ workers[w].phase # "idle"
      /\ workers' = [workers EXCEPT ![w] = Idle]
      /\ UNCHANGED <<requests, changes, google, budget, lapses>>
  BY DEF Fail
<1>. DEFINE row == FailedRow(outbox[j], retryable)
<1>3. /\ j \in Job /\ outbox[j] \in Row /\ outbox[j].key \in Key
      /\ outbox[j].progress < Pages[outbox[j].key]
  BY <1>2 DEF IInv, TypeOK, Placed, WorkersPlaced, RowsKeyed
<1>4. /\ row \in Row /\ row.key = outbox[j].key
      /\ row.status \in {"failed", "dead"}
      /\ row.attempts = outbox[j].attempts + 1
      /\ row.progress = outbox[j].progress
      /\ row.status = "failed" => row.attempts < MaxAttempts
  BY <1>3, FailedRowLemma
<1>5. outbox' = [outbox EXCEPT ![j] = row]
  BY <1>1
<1>. HIDE DEF row
<1>6. QED
  BY <1>2, <1>3, <1>4, <1>5, EndOfRun DEF Open, Final

LEMMA TickStep ==
  ASSUME IInv, Tick
  PROVE  IInv'
<1>1. /\ outbox' = [j \in Job |-> AgeRow(outbox[j])]
      /\ UNCHANGED <<requests, workers, changes, google, budget, lapses>>
  BY DEF Tick
<1>2. /\ outbox' \in [Job -> Row]
      /\ \A i \in Job :
           /\ outbox'[i].key = outbox[i].key /\ outbox'[i].status = outbox[i].status
           /\ outbox'[i].attempts = outbox[i].attempts
           /\ outbox'[i].progress = outbox[i].progress
           /\ outbox'[i].lockedBy = outbox[i].lockedBy
  BY <1>1, AgeRowLemma DEF IInv, TypeOK
<1>3. TypeOK'
  BY <1>1, <1>2 DEF IInv, TypeOK
<1>4. Placed'
  BY <1>1, <1>2 DEF IInv, TypeOK, Placed, RowsKeyed, WorkersPlaced, RequestsPlaced
<1>5. HolderOwns' /\ RetryBudget' /\ OneOpenRow'
  BY <1>1, <1>2 DEF IInv, HolderOwns, Running, RetryBudget, OneOpenRow
<1>6. QED
  BY <1>3, <1>4, <1>5 DEF IInv

-----------------------------------------------------------------------------
LEMMA InitIInv == Init => IInv
<1>. SUFFICES ASSUME Init PROVE IInv
  OBVIOUS
<1>1. NoRow \in Row /\ NoRow.key = NoKey /\ NoRow.status = "none" /\ NoRow.attempts = 0
  BY ZeroInLease DEF NoRow, Row
<1>2. \A j \in Job : outbox[j] = NoRow
  BY DEF Init
<1>3. TypeOK
  <2>1. outbox \in [Job -> Row]
    BY <1>1 DEF Init
  <2>2. /\ requests \in [Request -> [phase: {"idle", "selected"},
                                     key: Key \cup {NoKey}, page: Nat,
                                     found: Job \cup {NoJob}, wake: BOOLEAN]]
        /\ workers \in [Worker -> [phase: {"idle", "claimed", "read", "sent"},
                                   job: Job \cup {NoJob}, page: Nat, seen: Nat]]
    BY DEF Init, NoRequest, Idle
  <2>3. QED
    BY <2>1, <2>2, OutboxAssumption DEF Init, TypeOK
<1>4. Placed
  BY <1>1, <1>2, QueueAssumption
  DEF Init, Placed, RowsKeyed, WorkersPlaced, RequestsPlaced, NoRequest, Idle
<1>5. HolderOwns
  BY DEF Init, HolderOwns, Running, Idle
<1>6. RetryBudget /\ OneOpenRow
  BY <1>1, <1>2, QueueAssumption DEF RetryBudget, OneOpenRow, Open
<1>7. QED
  BY <1>3, <1>4, <1>5, <1>6 DEF IInv

LEMMA NextIInv == IInv /\ [Next]_vars => IInv'
<1>. SUFFICES ASSUME IInv, [Next]_vars PROVE IInv'
  OBVIOUS
<1>1. CASE \E r \in Request : (\E u \in Unit : EnqueueSelect(r, u))
                             \/ EnqueueCommit(r) \/ EnqueueAbort(r)
  BY <1>1, EnqueueSelectStep, EnqueueCommitStep, EnqueueAbortStep
<1>2. CASE \E w \in Worker : WorkerStep(w) \/ Crash(w)
  BY <1>2, ClaimStep, ReadUnitStep, SendUnitStep, FinishStep, FailStep, CrashStep
  DEF WorkerStep
<1>3. CASE Tick
  BY <1>3, TickStep
<1>4. CASE UNCHANGED vars
  <2>1. UNCHANGED <<outbox, requests, workers, changes, google, budget, lapses>>
    BY <1>4 DEF vars
  <2>2. TypeOK' /\ Placed'
    BY <2>1 DEF IInv, TypeOK, Placed, RowsKeyed, WorkersPlaced, RequestsPlaced
  <2>3. HolderOwns' /\ RetryBudget' /\ OneOpenRow'
    BY <2>1 DEF IInv, HolderOwns, Running, RetryBudget, OneOpenRow
  <2>4. QED
    BY <2>2, <2>3 DEF IInv
<1>5. QED
  BY <1>1, <1>2, <1>3, <1>4 DEF Next

(***************************************************************************)
(* The inductive invariant: every reachable state is well formed, every    *)
(* reference a worker or a request holds is to a row of its own key, and   *)
(* a worker owns the row it runs.                                          *)
(***************************************************************************)
THEOREM Inductive == Spec => []IInv
<1>1. QED
  BY InitIInv, NextIInv, PTL DEF Spec

(***************************************************************************)
(* The table, the requests and the workers keep their types: no statement  *)
(* of outbox.py reads the backoff, the page count or a change outside its  *)
(* domain.                                                                 *)
(***************************************************************************)
THEOREM TypeCorrect == Spec => []TypeOK
<1>1. IInv => TypeOK
  BY DEF IInv
<1>2. QED
  BY <1>1, Inductive, PTL

(***************************************************************************)
(* claim_next_job lets a second worker into a running job only after the   *)
(* lease: ExclusiveRun, for any number of workers, jobs and requests.      *)
(***************************************************************************)
THEOREM Exclusive == Spec => []ExclusiveRun
<1>1. IInv => ExclusiveRun
  BY DEF IInv, HolderOwns, ExclusiveRun
<1>2. QED
  BY <1>1, Inductive, PTL

(***************************************************************************)
(* mark_job_failed keeps a job within MAX_ATTEMPTS, and an open job has    *)
(* an attempt left, for every value of MAX_ATTEMPTS and every backoff.     *)
(***************************************************************************)
THEOREM BoundedRetries == Spec => []RetryBudget
<1>1. IInv => RetryBudget
  BY DEF IInv
<1>2. QED
  BY <1>1, Inductive, PTL

(***************************************************************************)
(* enqueue_sync_job keeps one open row per idempotency key, outside the    *)
(* two races that lapses records.                                          *)
(***************************************************************************)
THEOREM OneOpen == Spec => []OneOpenRow
<1>1. IInv => OneOpenRow
  BY DEF IInv
<1>2. QED
  BY <1>1, Inductive, PTL

LEMMA FinalStep ==
  ASSUME IInv, [Next]_vars, NEW j \in Job,
         outbox[j].status \in Final, outbox[j].key \notin lapses.overran
  PROVE  outbox'[j].status = outbox[j].status
<1>1. \A w \in Worker : ~Running(w, j)
  BY DEF IInv, HolderOwns, Final
<1>2. outbox \in [Job -> Row]
  BY DEF IInv, TypeOK
<1>3. ASSUME NEW r \in Request, EnqueueCommit(r)
      PROVE  outbox'[j].status = outbox[j].status
  <2>1. CASE \E i \in Job :
               /\ outbox[i].status = "none"
               /\ outbox' = [outbox EXCEPT ![i] = NewRow(requests[r].key)]
    BY <1>2, <2>1 DEF Final
  <2>2. CASE /\ requests[r].found # NoJob
             /\ outbox' = [outbox EXCEPT ![requests[r].found] =
                              FoldRow(@, requests[r].wake)]
    <3>1. requests[r].found \in Job /\ requests[r].wake \in BOOLEAN
      BY <2>2 DEF IInv, TypeOK
    <3>2. FoldRow(outbox[j], requests[r].wake).status = outbox[j].status
      BY <1>2, <3>1, FoldRowLemma
    <3>3. QED
      BY <1>2, <2>2, <3>1, <3>2
  <2>3. QED
    BY <1>3, <2>1, <2>2 DEF EnqueueCommit
<1>4. ASSUME NEW w \in Worker, Claim(w)
      PROVE  outbox'[j].status = outbox[j].status
  <2>1. PICK i \in ClaimCandidates(outbox) :
          outbox' = [outbox EXCEPT ![i] = ClaimRow(@, w)]
    BY <1>4 DEF Claim
  <2>2. i # j
    BY DEF ClaimCandidates, Claimable, Final
  <2>3. QED
    BY <1>2, <2>1, <2>2
<1>5. ASSUME NEW w \in Worker, Finish(w) \/ Fail(w)
      PROVE  outbox'[j].status = outbox[j].status
  <2>1. workers[w].job # j
    BY <1>1, <1>5 DEF Finish, Fail, Running
  <2>2. QED
    BY <1>2, <1>5, <2>1 DEF Finish, Fail
<1>6. ASSUME Tick PROVE outbox'[j].status = outbox[j].status
  BY <1>2, <1>6, AgeRowLemma DEF Tick
<1>7. ASSUME UNCHANGED outbox PROVE outbox'[j].status = outbox[j].status
  BY <1>7
<1>8. QED
  BY <1>3, <1>4, <1>5, <1>6, <1>7
  DEF Next, WorkerStep, EnqueueSelect, EnqueueAbort, ReadUnit, SendUnit, Crash, vars

(***************************************************************************)
(* No statement of outbox.py reopens a job that is done or dead, as long   *)
(* as no claim on it outlived the lease.                                   *)
(***************************************************************************)
THEOREM FinalIsFinal == Spec => FinalStays
<1>1. IInv /\ [Next]_vars
        => [\A j \in Job :
              outbox[j].status \in Final /\ outbox[j].key \notin lapses.overran
                => outbox'[j].status = outbox[j].status]_vars
  BY FinalStep
<1>2. QED
  BY <1>1, Inductive, PTL DEF Spec, FinalStays

-----------------------------------------------------------------------------
(***************************************************************************)
(* ChangesCarried for every number of jobs, keys, pages, workers and       *)
(* requests: a committed change reaches Google, or an open job still       *)
(* carries it, or its job died, or it slipped in one of the three ways     *)
(* that lapses records.                                                    *)
(***************************************************************************)

Slipped(u) ==
  u \in lapses.late \/ u[1] \in lapses.doubled \cup lapses.overran

(***************************************************************************)
(* A run is at the batch after the one progress_state names.               *)
(***************************************************************************)
PagesAgree ==
  \A w \in Worker, j \in Job :
    Running(w, j) /\ outbox[j].key \notin lapses.overran
      => workers[w].page = outbox[j].progress + 1

(***************************************************************************)
(* What a run has read is still the last change, and what it has sent is   *)
(* what Google shows.                                                      *)
(***************************************************************************)
ReadIsFresh ==
  \A w \in Worker :
    workers[w].phase \in {"read", "sent"} /\ ~Slipped(UnitOf(w))
      => workers[w].seen = changes[UnitOf(w)]

SentIsShown ==
  \A w \in Worker :
    workers[w].phase = "sent" /\ ~Slipped(UnitOf(w))
      => google[UnitOf(w)] = workers[w].seen

DInv == IInv /\ PagesAgree /\ ReadIsFresh /\ SentIsShown /\ ChangesCarried

-----------------------------------------------------------------------------
LEMMA UnitPair ==
  ASSUME NEW u \in Unit
  PROVE  u = <<u[1], u[2]>> /\ u[1] \in Key /\ u[2] \in 1 .. Pages[u[1]] /\ u[2] \in Nat
  BY OutboxAssumption DEF Unit

(***************************************************************************)
(* One key is run by one worker, unless it slipped.                        *)
(***************************************************************************)
LEMMA OneRunner ==
  ASSUME IInv, NEW v \in Worker, NEW w \in Worker, v # w,
         workers[v].phase # "idle", workers[w].phase # "idle",
         outbox[workers[v].job].key = outbox[workers[w].job].key,
         outbox[workers[w].job].key \notin lapses.doubled \cup lapses.overran
  PROVE  FALSE
<1>1. workers[v].job \in Job /\ workers[w].job \in Job
  BY UnitOfBusy
<1>2. /\ outbox[workers[v].job].status = "processing"
      /\ outbox[workers[v].job].lockedBy = v
      /\ outbox[workers[w].job].status = "processing"
      /\ outbox[workers[w].job].lockedBy = w
  BY <1>1 DEF IInv, HolderOwns, Running
<1>3. QED
  BY <1>1, <1>2 DEF IInv, OneOpenRow, Open

LEMMA SameUnit ==
  ASSUME IInv, NEW v \in Worker, NEW w \in Worker, v # w,
         workers[v].phase # "idle", workers[w].phase # "idle",
         UnitOf(v) = UnitOf(w), ~Slipped(UnitOf(w))
  PROVE  FALSE
  BY OneRunner DEF UnitOf, Slipped

-----------------------------------------------------------------------------
LEMMA DurableUnchanged ==
  ASSUME DInv, IInv', UNCHANGED <<outbox, workers, changes, google, lapses>>
  PROVE  DInv'
<1>1. PagesAgree' /\ ReadIsFresh' /\ SentIsShown'
  BY DEF DInv, PagesAgree, ReadIsFresh, SentIsShown, Running, Slipped, UnitOf
<1>2. ChangesCarried'
  BY DEF DInv, ChangesCarried, Carried, Died, Running
<1>3. QED
  BY <1>1, <1>2 DEF DInv

LEMMA DurableTick ==
  ASSUME DInv, IInv', Tick
  PROVE  DInv'
<1>1. /\ UNCHANGED <<workers, changes, google, lapses>>
      /\ \A i \in Job :
           /\ outbox'[i].key = outbox[i].key /\ outbox'[i].status = outbox[i].status
           /\ outbox'[i].progress = outbox[i].progress
  BY AgeRowLemma DEF Tick, DInv, IInv, TypeOK
<1>2. \A w \in Worker : workers[w].phase # "idle" => UnitOf(w)' = UnitOf(w)
  BY <1>1, UnitOfBusy DEF DInv, UnitOf
<1>3. PagesAgree' /\ ReadIsFresh' /\ SentIsShown'
  BY <1>1, <1>2 DEF DInv, PagesAgree, ReadIsFresh, SentIsShown, Running, Slipped
<1>4. ChangesCarried'
  BY <1>1 DEF DInv, ChangesCarried, Carried, Died, Running
<1>5. QED
  BY <1>3, <1>4 DEF DInv

LEMMA DurableCrash ==
  ASSUME DInv, IInv', NEW w \in Worker, Crash(w)
  PROVE  DInv'
<1>1. /\ UNCHANGED <<outbox, changes, google, lapses>>
      /\ \A v \in Worker :
           workers'[v].phase # "idle" => v # w /\ workers'[v] = workers[v]
  BY DEF Crash, Idle, DInv, IInv, TypeOK
<1>2. PagesAgree' /\ ReadIsFresh' /\ SentIsShown'
  BY <1>1 DEF DInv, PagesAgree, ReadIsFresh, SentIsShown, Running, Slipped, UnitOf
<1>3. ChangesCarried'
  BY <1>1 DEF DInv, ChangesCarried, Carried, Died, Running
<1>4. QED
  BY <1>2, <1>3 DEF DInv

LEMMA DurableReadUnit ==
  ASSUME DInv, IInv', NEW w \in Worker, ReadUnit(w)
  PROVE  DInv'
<1>. DEFINE x == UnitOf(w)
<1>1. /\ workers[w].phase = "claimed"
      /\ UNCHANGED <<outbox, changes, google>>
      /\ workers'[w] = [workers[w] EXCEPT !.phase = "read", !.seen = changes[x]]
      /\ \A v \in Worker \ {w} : workers'[v] = workers[v]
      /\ lapses' = [lapses EXCEPT !.late = @ \ {x}]
  BY DEF ReadUnit, DInv, IInv, TypeOK
<1>2. /\ workers'[w].phase = "read" /\ workers'[w].seen = changes[x]
      /\ workers'[w].job = workers[w].job /\ workers'[w].page = workers[w].page
  BY <1>1 DEF DInv, IInv, TypeOK
<1>3. \A v \in Worker : /\ UnitOf(v)' = UnitOf(v)
                        /\ workers'[v].phase # "idle" <=> workers[v].phase # "idle"
                        /\ workers'[v].job = workers[v].job
                        /\ workers'[v].page = workers[v].page
  BY <1>1, <1>2 DEF UnitOf
<1>4. \A u : /\ ~Slipped(u)' => u[1] \notin lapses.doubled \cup lapses.overran
             /\ ~Slipped(u)' /\ u # x => ~Slipped(u)
  BY <1>1 DEF Slipped, DInv, IInv, TypeOK
<1>5. ASSUME NEW v \in Worker, v # w, workers[v].phase # "idle", ~Slipped(UnitOf(v))'
      PROVE  UnitOf(v) # x
  BY <1>1, <1>3, <1>4, <1>5, OneRunner DEF UnitOf, DInv
<1>6. PagesAgree'
  BY <1>1, <1>3 DEF DInv, PagesAgree, Running, IInv, TypeOK
<1>7. ReadIsFresh'
  <2>. SUFFICES ASSUME NEW v \in Worker, workers'[v].phase \in {"read", "sent"},
                       ~Slipped(UnitOf(v))'
                PROVE  workers'[v].seen = changes'[UnitOf(v)']
    BY DEF ReadIsFresh
  <2>1. CASE v = w
    BY <1>1, <1>2, <1>3, <2>1
  <2>2. CASE v # w
    <3>1. workers'[v] = workers[v] /\ UnitOf(v)' = UnitOf(v)
      BY <1>1, <1>3, <2>2
    <3>2. UnitOf(v) # x
      BY <1>5, <2>2, <3>1
    <3>3. ~Slipped(UnitOf(v))
      BY <1>4, <3>1, <3>2
    <3>4. QED
      BY <1>1, <3>1, <3>3 DEF DInv, ReadIsFresh
  <2>3. QED
    BY <2>1, <2>2
<1>8. SentIsShown'
  BY <1>1, <1>2, <1>3, <1>4, <1>5, ZenonT(60) DEF DInv, SentIsShown
<1>9. ChangesCarried'
  <2>. SUFFICES ASSUME NEW u \in Unit, google[u] # changes[u], ~Slipped(u)'
                PROVE  Carried(u)' \/ Died(u[1])'
    BY <1>1 DEF ChangesCarried, Slipped
  <2>1. CASE u # x
    <3>1. Carried(u) \/ Died(u[1])
      BY <1>4, <2>1 DEF DInv, ChangesCarried, Slipped
    <3>2. u = <<u[1], u[2]>>
      BY UnitPair
    <3>3. CASE Carried(u)
      <4>1. PICK i \in Job :
              /\ outbox[i].key = u[1] /\ outbox[i].status \in Open
              /\ outbox[i].progress < u[2]
              /\ \A v \in Worker :
                   Running(v, i) /\ workers[v].page = u[2]
                     => workers[v].phase = "claimed" \/ workers[v].seen = changes[u]
        BY <3>3 DEF Carried
      <4>2. ~(Running(w, i) /\ workers[w].page = u[2])
        BY <2>1, <3>2, <4>1 DEF Running, UnitOf
      <4>3. QED
        BY <1>1, <1>3, <4>1, <4>2 DEF Carried, Running
    <3>4. CASE Died(u[1])
      BY <1>1, <3>4 DEF Died
    <3>5. QED
      BY <3>1, <3>3, <3>4
  <2>2. CASE u = x
    <3>1. PICK j \in Job : /\ j = workers[w].job /\ outbox[j].key = u[1]
                           /\ workers[w].page = u[2]
      BY <1>1, <2>2, UnitOfBusy DEF UnitOf, DInv
    <3>2. outbox[j].key \notin lapses.doubled \cup lapses.overran
      BY <1>4, <3>1
    <3>3. outbox[j].status = "processing" /\ u[2] = outbox[j].progress + 1
      BY <1>1, <3>1, <3>2 DEF DInv, IInv, HolderOwns, PagesAgree, Running
    <3>4. \A v \in Worker : v # w => ~Running(v, j)
      BY <1>1, <3>1, <3>2, OneRunner DEF DInv, Running
    <3>5. outbox[j].progress \in Nat
      BY <3>1 DEF DInv, IInv, TypeOK, Row
    <3>6. outbox[j].progress < u[2] /\ outbox[j].status \in Open
      BY <3>3, <3>5 DEF Open
    <3>7. \A v \in Worker : Running(v, j)' => workers'[v].seen = changes[u]
      BY <1>2, <1>3, <2>2, <3>4 DEF Running
    <3>8. QED
      BY <1>1, <3>1, <3>6, <3>7 DEF Carried
  <2>3. QED
    BY <2>1, <2>2
<1>10. QED
  BY <1>6, <1>7, <1>8, <1>9 DEF DInv

LEMMA DurableSendUnit ==
  ASSUME DInv, IInv', NEW w \in Worker, SendUnit(w)
  PROVE  DInv'
<1>. DEFINE x == UnitOf(w)
<1>1. /\ workers[w].phase = "read"
      /\ UNCHANGED <<outbox, changes, lapses>>
      /\ google' = [google EXCEPT ![x] = workers[w].seen]
      /\ workers'[w].phase = "sent"
      /\ \A v \in Worker : /\ workers'[v].job = workers[v].job
                           /\ workers'[v].page = workers[v].page
                           /\ workers'[v].seen = workers[v].seen
      /\ \A v \in Worker \ {w} : workers'[v].phase = workers[v].phase
  BY DEF SendUnit, DInv, IInv, TypeOK
<1>2. x \in Unit
  BY <1>1, UnitOfBusy DEF DInv
<1>3. \A v \in Worker : UnitOf(v)' = UnitOf(v)
  BY <1>1 DEF UnitOf
<1>4. \A u : Slipped(u)' <=> Slipped(u)
  BY <1>1 DEF Slipped
<1>5. /\ google'[x] = workers[w].seen
      /\ \A u \in Unit : u # x => google'[u] = google[u]
  BY <1>1, <1>2 DEF DInv, IInv, TypeOK
<1>6. PagesAgree'
  BY <1>1 DEF DInv, PagesAgree, Running
<1>7. ReadIsFresh'
  BY <1>1, <1>3, <1>4 DEF DInv, ReadIsFresh
<1>8. SentIsShown'
  <2>. SUFFICES ASSUME NEW v \in Worker, workers'[v].phase = "sent",
                       ~Slipped(UnitOf(v))
                PROVE  google'[UnitOf(v)] = workers[v].seen
    BY <1>1, <1>3, <1>4 DEF SentIsShown
  <2>1. CASE v = w
    BY <1>5, <2>1
  <2>2. CASE v # w
    <3>1. workers[v].phase = "sent"
      BY <1>1, <2>2
    <3>2. UnitOf(v) # x /\ UnitOf(v) \in Unit
      BY <1>1, <2>2, <3>1, SameUnit, UnitOfBusy DEF DInv
    <3>3. QED
      BY <1>5, <3>1, <3>2 DEF DInv, SentIsShown
  <2>3. QED
    BY <2>1, <2>2
<1>9. ChangesCarried'
  <2>. SUFFICES ASSUME NEW u \in Unit, google'[u] # changes[u], ~Slipped(u)
                PROVE  Carried(u)' \/ Died(u[1])'
    BY <1>1 DEF ChangesCarried, Slipped
  <2>1. u # x
    BY <1>1, <1>5 DEF DInv, ReadIsFresh
  <2>2. Carried(u) \/ Died(u[1])
    BY <1>5, <2>1 DEF DInv, ChangesCarried, Slipped
  <2>3. QED
    BY <1>1, <2>2 DEF Carried, Died, Running
<1>10. QED
  BY <1>6, <1>7, <1>8, <1>9 DEF DInv

LEMMA DurableClaim ==
  ASSUME DInv, IInv', NEW w \in Worker, Claim(w)
  PROVE  DInv'
<1>1. PICK j \in ClaimCandidates(outbox) :
        /\ outbox' = [outbox EXCEPT ![j] = ClaimRow(@, w)]
        /\ workers' = [workers EXCEPT ![w] =
             [phase |-> "claimed", job |-> j, page |-> outbox[j].progress + 1,
              seen |-> 0]]
        /\ lapses' = [lapses EXCEPT !.overran =
             IF outbox[j].lockAge = Lease /\ \E v \in Worker : Running(v, j)
             THEN @ \cup {outbox[j].key} ELSE @]
  BY DEF Claim
<1>2. workers[w].phase = "idle" /\ UNCHANGED <<changes, google>>
  BY DEF Claim
<1>3. j \in Job /\ outbox[j] \in Row /\ outbox[j].status \in Open
  BY DEF ClaimCandidates, Claimable, Open, DInv, IInv, TypeOK
<1>4. \A i \in Job :
        /\ outbox'[i].key = outbox[i].key /\ outbox'[i].progress = outbox[i].progress
        /\ outbox[i].status \in Open <=> outbox'[i].status \in Open
        /\ i # j => outbox'[i].status = outbox[i].status
  BY <1>1, <1>3, ClaimRowLemma DEF DInv, IInv, TypeOK, Open
<1>5. /\ workers'[w] = [phase |-> "claimed", job |-> j,
                        page |-> outbox[j].progress + 1, seen |-> 0]
      /\ \A v \in Worker \ {w} : workers'[v] = workers[v]
  BY <1>1 DEF DInv, IInv, TypeOK
<1>6. \A u : Slipped(u) => Slipped(u)'
  BY <1>1 DEF Slipped, DInv, IInv, TypeOK
<1>7. lapses.overran \subseteq lapses'.overran
  BY <1>1 DEF DInv, IInv, TypeOK
<1>8. \A v \in Worker \ {w} : workers[v].phase # "idle" => UnitOf(v)' = UnitOf(v)
  BY <1>4, <1>5, UnitOfBusy DEF UnitOf, DInv
<1>9. PagesAgree'
  BY <1>3, <1>4, <1>5, <1>7 DEF DInv, PagesAgree, Running
<1>10. ReadIsFresh' /\ SentIsShown'
  BY <1>2, <1>5, <1>6, <1>8 DEF DInv, ReadIsFresh, SentIsShown
<1>11. ChangesCarried'
  <2>. SUFFICES ASSUME NEW u \in Unit, google[u] # changes[u], ~Slipped(u)
                PROVE  Carried(u)' \/ Died(u[1])'
    BY <1>2, <1>6 DEF ChangesCarried, Slipped
  <2>1. CASE Carried(u)
    BY <1>2, <1>4, <1>5, <2>1 DEF Carried, Running
  <2>2. CASE Died(u[1])
    BY <1>3, <1>4, <2>2 DEF Died, Open
  <2>3. QED
    BY <2>1, <2>2 DEF DInv, ChangesCarried, Slipped
<1>12. QED
  BY <1>9, <1>10, <1>11 DEF DInv

(***************************************************************************)
(* The end of a run.  Only a run that has sent its unit moves the row past *)
(* it, and only the last unit closes the row.                              *)
(***************************************************************************)
LEMMA DurableEnd ==
  ASSUME DInv, IInv', NEW w \in Worker, workers[w].phase # "idle",
         NEW row \in Row,
         row.key = outbox[workers[w].job].key,
         \/ /\ row.status \in {"failed", "dead"}
            /\ row.progress = outbox[workers[w].job].progress
         \/ /\ workers[w].phase = "sent"
            /\ \/ row.status = "pending" /\ row.progress = workers[w].page
               \/ row.status = "done" /\ workers[w].page >= Pages[row.key],
         outbox' = [outbox EXCEPT ![workers[w].job] = row],
         workers' = [workers EXCEPT ![w] = Idle],
         UNCHANGED <<changes, google, lapses>>
  PROVE  DInv'
<1>1. PICK j \in Job : /\ j = workers[w].job
                       /\ outbox[j] \in Row /\ outbox[j].key \in Key
                       /\ workers[w].page \in Nat
  BY UnitOfBusy DEF DInv, IInv, TypeOK, Placed, WorkersPlaced
<1>2. outbox'[j] = row /\ \A i \in Job \ {j} : outbox'[i] = outbox[i]
  BY <1>1 DEF DInv, IInv, TypeOK
<1>3. \A v \in Worker :
        workers'[v].phase # "idle" => v # w /\ workers'[v] = workers[v]
  BY DEF DInv, IInv, TypeOK, Idle
<1>4. \A i \in Job : outbox'[i].key = outbox[i].key
  BY <1>2
<1>5. outbox[j].key \notin lapses.overran =>
        /\ outbox[j].status = "processing"
        /\ workers[w].page = outbox[j].progress + 1
        /\ \A v \in Worker : v # w => ~Running(v, j)
  BY <1>1 DEF DInv, IInv, HolderOwns, PagesAgree, Running
<1>6. \A v \in Worker : workers'[v].phase # "idle" => UnitOf(v)' = UnitOf(v)
  BY <1>3, <1>4, UnitOfBusy DEF UnitOf, DInv
<1>7. PagesAgree'
  <2>. SUFFICES ASSUME NEW v \in Worker, NEW i \in Job, Running(v, i)',
                       outbox[i].key \notin lapses.overran
                PROVE  workers'[v].page = outbox'[i].progress + 1
    BY <1>4 DEF PagesAgree
  <2>1. v # w /\ workers'[v] = workers[v] /\ Running(v, i)
    BY <1>3 DEF Running
  <2>2. i # j
    BY <1>5, <2>1
  <2>3. QED
    BY <1>2, <2>1, <2>2 DEF DInv, PagesAgree
<1>8. ReadIsFresh' /\ SentIsShown'
  BY <1>3, <1>6 DEF DInv, ReadIsFresh, SentIsShown, Slipped
<1>9. ChangesCarried'
  <2>. SUFFICES ASSUME NEW u \in Unit, google[u] # changes[u], ~Slipped(u)
                PROVE  Carried(u)' \/ Died(u[1])'
    BY DEF ChangesCarried, Slipped
  <2>1. u = <<u[1], u[2]>> /\ u[2] \in 1 .. Pages[u[1]] /\ u[2] \in Nat
    BY UnitPair
  <2>2. Pages[u[1]] \in Nat
    BY UnitPair, OutboxAssumption
  <2>3. CASE outbox[j].key # u[1]
    <3>1. CASE Carried(u)
      <4>1. PICK i \in Job :
              /\ outbox[i].key = u[1] /\ outbox[i].status \in Open
              /\ outbox[i].progress < u[2]
              /\ \A v \in Worker :
                   Running(v, i) /\ workers[v].page = u[2]
                     => workers[v].phase = "claimed" \/ workers[v].seen = changes[u]
        BY <3>1 DEF Carried
      <4>2. QED
        BY <1>2, <1>3, <2>3, <4>1 DEF Carried, Running
    <3>2. CASE Died(u[1])
      BY <1>2, <2>3, <3>2 DEF Died
    <3>3. QED
      BY <3>1, <3>2 DEF DInv, ChangesCarried, Slipped
  <2>4. CASE outbox[j].key = u[1]
    <3>1. /\ outbox[j].key \notin lapses.doubled \cup lapses.overran
          /\ outbox[j].status = "processing"
          /\ workers[w].page = outbox[j].progress + 1
      BY <1>5, <2>4 DEF Slipped
    <3>2. \A v \in Worker : ~Running(v, j)'
      BY <1>3, <1>5, <3>1 DEF Running
    <3>3. CASE Died(u[1])
      <4>1. PICK i \in Job : outbox[i].key = u[1] /\ outbox[i].status = "dead"
        BY <3>3 DEF Died
      <4>2. i # j
        BY <3>1, <4>1
      <4>3. QED
        BY <1>2, <4>1, <4>2 DEF Died
    <3>4. CASE Carried(u)
      <4>1. PICK i \in Job :
              /\ outbox[i].key = u[1] /\ outbox[i].status \in Open
              /\ outbox[i].progress < u[2]
        BY <3>4 DEF Carried
      <4>2. i = j
        BY <1>1, <2>4, <3>1, <4>1 DEF DInv, IInv, OneOpenRow, Open
      <4>3. outbox[j].progress < u[2] /\ outbox[j].progress \in Nat
        BY <1>1, <4>1, <4>2 DEF Row
      <4>4. CASE row.status \in {"failed", "dead"}
        <5>1. row.status = "failed" => Carried(u)'
          BY <1>1, <1>2, <2>4, <3>2, <4>3, <4>4 DEF Carried, Open
        <5>2. row.status = "dead" => Died(u[1])'
          BY <1>1, <1>2, <2>4 DEF Died
        <5>3. QED
          BY <4>4, <5>1, <5>2
      <4>5. CASE row.status \in {"pending", "done"}
        <5>1. workers[w].phase = "sent"
          BY <4>5
        <5>2. u # UnitOf(w)
          BY <5>1 DEF DInv, ReadIsFresh, SentIsShown
        <5>3. u[2] > workers[w].page
          BY <1>1, <2>1, <2>4, <3>1, <4>3, <5>2 DEF UnitOf
        <5>4. row.status = "pending" /\ row.progress = workers[w].page
          BY <1>1, <2>1, <2>2, <2>4, <4>5, <5>3
        <5>5. QED
          BY <1>1, <1>2, <2>4, <3>2, <5>3, <5>4 DEF Carried, Open
      <4>6. QED
        BY <4>4, <4>5
    <3>5. QED
      BY <3>3, <3>4 DEF DInv, ChangesCarried, Slipped
  <2>5. QED
    BY <2>3, <2>4
<1>10. QED
  BY <1>7, <1>8, <1>9 DEF DInv

LEMMA DurableFinish ==
  ASSUME DInv, IInv', NEW w \in Worker, Finish(w)
  PROVE  DInv'
<1>. DEFINE j == workers[w].job
            page == workers[w].page
            row == IF page >= Pages[outbox[j].key] THEN DoneRow(outbox[j])
                   ELSE PendingRow(outbox[j], page)
<1>1. /\ workers[w].phase = "sent"
      /\ outbox' = [outbox EXCEPT ![j] = row]
      /\ workers' = [workers EXCEPT ![w] = Idle]
      /\ UNCHANGED <<changes, google, lapses>>
  BY DEF Finish
<1>2. outbox[j] \in Row /\ page \in Nat
  BY <1>1, UnitOfBusy DEF DInv, IInv, TypeOK
<1>3. CASE page >= Pages[outbox[j].key]
  <2>1. row = DoneRow(outbox[j])
    BY <1>3
  <2>2. DoneRow(outbox[j]) \in Row /\ DoneRow(outbox[j]).key = outbox[j].key
        /\ DoneRow(outbox[j]).status = "done"
    BY <1>2, DoneRowLemma
  <2>. HIDE DEF row
  <2>3. QED
    BY <1>1, <1>3, <2>1, <2>2, DurableEnd
<1>4. CASE ~(page >= Pages[outbox[j].key])
  <2>1. row = PendingRow(outbox[j], page)
    BY <1>4
  <2>2. /\ PendingRow(outbox[j], page) \in Row
        /\ PendingRow(outbox[j], page).key = outbox[j].key
        /\ PendingRow(outbox[j], page).status = "pending"
        /\ PendingRow(outbox[j], page).progress = page
    BY <1>2, PendingRowLemma
  <2>. HIDE DEF row
  <2>3. QED
    BY <1>1, <2>1, <2>2, DurableEnd
<1>5. QED
  BY <1>3, <1>4

LEMMA DurableFail ==
  ASSUME DInv, IInv', NEW w \in Worker, Fail(w)
  PROVE  DInv'
<1>1. PICK retryable \in BOOLEAN :
        outbox' = [outbox EXCEPT ![workers[w].job] = FailedRow(@, retryable)]
  BY DEF Fail
<1>. DEFINE row == FailedRow(outbox[workers[w].job], retryable)
<1>2. /\ workers[w].phase # "idle" /\ workers' = [workers EXCEPT ![w] = Idle]
      /\ UNCHANGED <<changes, google, lapses>>
      /\ outbox' = [outbox EXCEPT ![workers[w].job] = row]
  BY <1>1 DEF Fail
<1>3. outbox[workers[w].job] \in Row
  BY <1>2, UnitOfBusy DEF DInv, IInv, TypeOK
<1>4. /\ row \in Row /\ row.key = outbox[workers[w].job].key
      /\ row.status \in {"failed", "dead"}
      /\ row.progress = outbox[workers[w].job].progress
  BY <1>3, FailedRowLemma
<1>. HIDE DEF row
<1>5. QED
  BY <1>2, <1>4, DurableEnd

LEMMA DurableEnqueueCommit ==
  ASSUME DInv, IInv', NEW r \in Request, EnqueueCommit(r)
  PROVE  DInv'
<1>1. PICK x : x = <<requests[r].key, requests[r].page>>
  OBVIOUS
<1>2. /\ x \in Unit /\ requests[r].key = x[1] /\ requests[r].page = x[2]
      /\ x[2] \in Nat \ {0}
      /\ requests[r].found \in Job => outbox[requests[r].found].key = x[1]
  BY <1>1 DEF EnqueueCommit, DInv, IInv, Placed, RequestsPlaced, Unit
<1>3. /\ UNCHANGED <<workers, google>>
      /\ \A u \in Unit : u # x => changes'[u] = changes[u]
  BY <1>1, <1>2 DEF EnqueueCommit, DInv, IInv, TypeOK
<1>4. CASE /\ requests[r].found = NoJob
           /\ \E j \in Job :
                /\ outbox[j].status = "none"
                /\ outbox' = [outbox EXCEPT ![j] = NewRow(requests[r].key)]
           /\ lapses' = [lapses EXCEPT !.doubled =
                IF OpenRows(outbox, requests[r].key) = {} THEN @
                ELSE @ \cup {requests[r].key}]
  <2>1. PICK j \in Job : /\ outbox[j].status = "none"
                         /\ outbox' = [outbox EXCEPT ![j] = NewRow(requests[r].key)]
    BY <1>4
  <2>2. /\ outbox'[j].key = x[1] /\ outbox'[j].status = "pending"
        /\ outbox'[j].progress = 0
        /\ \A i \in Job : i # j => outbox'[i] = outbox[i]
    BY <1>2, <2>1, NewRowLemma, UnitPair DEF DInv, IInv, TypeOK
  <2>3. \A w \in Worker : ~Running(w, j)
    BY <2>1 DEF DInv, IInv, Placed, RowsKeyed, WorkersPlaced, Running
  <2>4. \A u : /\ Slipped(u) => Slipped(u)'
               /\ OpenRows(outbox, x[1]) # {} /\ u[1] = x[1] => Slipped(u)'
    BY <1>2, <1>4 DEF Slipped, DInv, IInv, TypeOK
  <2>5. \A w \in Worker : workers[w].phase # "idle" => UnitOf(w)' = UnitOf(w)
    BY <1>3, <2>2, <2>3, UnitOfBusy DEF UnitOf, Running, DInv
  <2>6. PagesAgree'
    BY <1>3, <1>4, <2>2, <2>3 DEF DInv, PagesAgree, Running, IInv, TypeOK
  <2>7. ReadIsFresh'
    <3>. SUFFICES ASSUME NEW w \in Worker, workers[w].phase \in {"read", "sent"},
                         ~Slipped(UnitOf(w))'
                  PROVE  workers[w].seen = changes'[UnitOf(w)]
      BY <1>3, <2>5 DEF ReadIsFresh
    <3>1. UnitOf(w)' = UnitOf(w) /\ UnitOf(w) \in Unit /\ ~Slipped(UnitOf(w))
      BY <2>4, <2>5, UnitOfBusy DEF DInv
    <3>2. workers[w].job \in OpenRows(outbox, outbox[workers[w].job].key)
      BY <3>1, UnitOfBusy
      DEF DInv, IInv, HolderOwns, Running, OpenRows, Open, Slipped, UnitOf
    <3>3. UnitOf(w) # x
      BY <2>4, <3>1, <3>2 DEF UnitOf
    <3>4. QED
      BY <1>3, <3>1, <3>3 DEF DInv, ReadIsFresh
  <2>8. SentIsShown'
    BY <1>3, <2>4, <2>5 DEF DInv, SentIsShown
  <2>9. ChangesCarried'
    <3>. SUFFICES ASSUME NEW u \in Unit, google[u] # changes'[u], ~Slipped(u)'
                  PROVE  Carried(u)' \/ Died(u[1])'
      BY <1>3 DEF ChangesCarried, Slipped
    <3>1. CASE u = x
      BY <1>2, <1>3, <2>2, <2>3, <3>1 DEF Carried, Running, Open
    <3>2. CASE u # x
      <4>1. Carried(u) \/ Died(u[1])
        BY <1>3, <2>4, <3>2 DEF DInv, ChangesCarried, Slipped
      <4>2. CASE Carried(u)
        BY <1>3, <2>1, <2>2, <3>2, <4>2 DEF Carried, Running, Open
      <4>3. CASE Died(u[1])
        BY <2>1, <2>2, <4>3 DEF Died
      <4>4. QED
        BY <4>1, <4>2, <4>3
    <3>3. QED
      BY <3>1, <3>2
  <2>10. QED
    BY <2>6, <2>7, <2>8, <2>9 DEF DInv
<1>5. CASE /\ requests[r].found # NoJob
           /\ outbox' = [outbox EXCEPT ![requests[r].found] =
                            FoldRow(@, requests[r].wake)]
           /\ lapses' = [lapses EXCEPT !.late =
                IF WillRead(requests[r].found, x) THEN @ ELSE @ \cup {x}]
  <2>1. PICK f \in Job : /\ f = requests[r].found /\ outbox[f].key = x[1]
                         /\ requests[r].wake \in BOOLEAN
    BY <1>2, <1>5 DEF DInv, IInv, TypeOK
  <2>2. \A i \in Job :
          /\ outbox'[i].key = outbox[i].key /\ outbox'[i].status = outbox[i].status
          /\ outbox'[i].progress = outbox[i].progress
    BY <1>5, <2>1, FoldRowLemma DEF DInv, IInv, TypeOK
  <2>3. \A u : Slipped(u) => Slipped(u)'
    BY <1>5 DEF Slipped, DInv, IInv, TypeOK
  <2>4. lapses'.overran = lapses.overran /\ lapses'.doubled = lapses.doubled
    BY <1>5 DEF DInv, IInv, TypeOK
  <2>5. \A w \in Worker : workers[w].phase # "idle" => UnitOf(w)' = UnitOf(w)
    BY <1>3, <2>2, UnitOfBusy DEF UnitOf, DInv
  <2>6. ~Slipped(x)' =>
          /\ outbox[f].status \in Open /\ outbox[f].progress < x[2]
          /\ \A w \in Worker : Running(w, f) /\ workers[w].page = x[2]
                => workers[w].phase = "claimed"
    BY <1>5, <2>1 DEF Slipped, WillRead, DInv, IInv, TypeOK
  <2>7. PagesAgree' /\ SentIsShown'
    BY <1>3, <2>2, <2>3, <2>4, <2>5 DEF DInv, PagesAgree, SentIsShown, Running
  <2>8. ReadIsFresh'
    <3>. SUFFICES ASSUME NEW w \in Worker, workers[w].phase \in {"read", "sent"},
                         ~Slipped(UnitOf(w))'
                  PROVE  workers[w].seen = changes'[UnitOf(w)]
      BY <1>3, <2>5 DEF ReadIsFresh
    <3>1. UnitOf(w)' = UnitOf(w) /\ UnitOf(w) \in Unit /\ ~Slipped(UnitOf(w))
      BY <2>3, <2>5, UnitOfBusy DEF DInv
    <3>2. UnitOf(w) # x
      <4>1. SUFFICES ASSUME UnitOf(w) = x PROVE FALSE
        OBVIOUS
      <4>2. /\ workers[w].job \in Job /\ workers[w].page = x[2]
            /\ outbox[workers[w].job].key = x[1]
        BY <4>1, UnitOfBusy DEF UnitOf, DInv
      <4>3. /\ x[1] \notin lapses.overran /\ x[1] \notin lapses.doubled
        BY <3>1, <4>1 DEF Slipped
      <4>4. outbox[workers[w].job].status \in Open
        BY <4>2, <4>3 DEF DInv, IInv, HolderOwns, Running, Open
      <4>5. outbox[f].status \in Open /\ (Running(w, f) => workers[w].phase = "claimed")
        BY <2>6, <3>1, <4>1, <4>2
      <4>6. workers[w].job = f
        BY <2>1, <4>2, <4>3, <4>4, <4>5 DEF DInv, IInv, OneOpenRow
      <4>7. QED
        BY <4>5, <4>6 DEF Running
    <3>3. QED
      BY <1>3, <3>1, <3>2 DEF DInv, ReadIsFresh
  <2>9. ChangesCarried'
    <3>. SUFFICES ASSUME NEW u \in Unit, google[u] # changes'[u], ~Slipped(u)'
                  PROVE  Carried(u)' \/ Died(u[1])'
      BY <1>3 DEF ChangesCarried, Slipped
    <3>1. CASE u = x
      BY <1>3, <2>1, <2>2, <2>6, <3>1 DEF Carried, Running
    <3>2. CASE u # x
      <4>1. Carried(u) \/ Died(u[1])
        BY <1>3, <2>3, <3>2 DEF DInv, ChangesCarried, Slipped
      <4>2. QED
        BY <1>3, <2>2, <3>2, <4>1 DEF Carried, Died, Running
    <3>3. QED
      BY <3>1, <3>2
  <2>10. QED
    BY <2>7, <2>8, <2>9 DEF DInv
<1>6. QED
  BY <1>1, <1>4, <1>5 DEF EnqueueCommit

-----------------------------------------------------------------------------
LEMMA InitDInv == Init => DInv
<1>. SUFFICES ASSUME Init PROVE DInv
  OBVIOUS
<1>1. PagesAgree /\ ReadIsFresh /\ SentIsShown
  BY DEF Init, PagesAgree, ReadIsFresh, SentIsShown, Running, Idle
<1>2. ChangesCarried
  BY DEF Init, ChangesCarried
<1>3. QED
  BY <1>1, <1>2, InitIInv DEF DInv

LEMMA NextDInv == DInv /\ [Next]_vars => DInv'
<1>. SUFFICES ASSUME DInv, [Next]_vars PROVE DInv'
  OBVIOUS
<1>1. IInv'
  BY NextIInv DEF DInv
<1>2. CASE \E r \in Request : (\E u \in Unit : EnqueueSelect(r, u))
                             \/ EnqueueAbort(r)
  BY <1>1, <1>2, DurableUnchanged DEF EnqueueSelect, EnqueueAbort
<1>3. CASE \E r \in Request : EnqueueCommit(r)
  BY <1>1, <1>3, DurableEnqueueCommit
<1>4. CASE \E w \in Worker : WorkerStep(w) \/ Crash(w)
  BY <1>1, <1>4, DurableClaim, DurableReadUnit, DurableSendUnit, DurableFinish,
     DurableFail, DurableCrash DEF WorkerStep
<1>5. CASE Tick
  BY <1>1, <1>5, DurableTick
<1>6. CASE UNCHANGED vars
  BY <1>1, <1>6, DurableUnchanged DEF vars
<1>7. QED
  BY <1>2, <1>3, <1>4, <1>5, <1>6 DEF Next

(***************************************************************************)
(* The outbox loses no committed change outside the three lapses: until    *)
(* Google shows it, an open job carries it or its job died.                *)
(***************************************************************************)
THEOREM Durable == Spec => []ChangesCarried
<1>1. DInv => ChangesCarried
  BY DEF DInv
<1>2. QED
  BY <1>1, InitDInv, NextDInv, PTL DEF Spec
=============================================================================
