------------------------------- MODULE Outbox -------------------------------
(***************************************************************************)
(* The durable outbox of the Google mirror: API requests that commit a     *)
(* change together with a job, and worker processes that claim jobs, read  *)
(* what has to be sent, send it, and write the job's outcome.              *)
(*                                                                         *)
(* What a job sends is abstracted to units.  The job behind key k visits   *)
(* the units <<k, 1>>, <<k, 2>>, ... one run at a time: a task job has one *)
(* unit, a reconciliation has one per batch and keeps its position in      *)
(* progress_state between two runs.  changes[u] counts the committed       *)
(* changes of a unit and google[u] is the count Google was last sent.      *)
(*                                                                         *)
(* The connection is in a state that has_google_connection accepts.        *)
(***************************************************************************)
EXTENDS OutboxQueue

CONSTANTS
  Request,     \* API requests that may be in progress at once
  NoJob,       \* "no open row was found"
  Pages,       \* number of units behind each key
  MaxChanges,  \* bound: requests that are made in a behavior
  MaxCrashes   \* bound: worker crashes in a behavior

Unit == UNION {{k} \X (1 .. Pages[k]) : k \in Key}

ASSUME OutboxAssumption ==
  /\ NoJob \notin Job
  /\ Pages \in [Key -> Nat \ {0}]
  /\ MaxChanges \in Nat
  /\ MaxCrashes \in Nat

VARIABLES
  outbox,    \* the table
  requests,  \* what each API request holds between its SELECT and its COMMIT
  workers,   \* what each worker process is doing
  changes,   \* committed changes of each unit
  google,    \* the change each unit last sent to Google
  budget,    \* requests and crashes still to come (bounds of the model)
  lapses     \* history: the three ways in which a change can slip (see below)

vars == <<outbox, requests, workers, changes, google, budget, lapses>>

Idle == [phase |-> "idle", job |-> NoJob, page |-> 0, seen |-> 0]
NoRequest == [phase |-> "idle", key |-> NoKey, page |-> 0, found |-> NoJob,
              wake |-> FALSE]

TypeOK ==
  /\ outbox \in [Job -> Row]
  /\ requests \in [Request -> [phase: {"idle", "selected"},
                               key: Key \cup {NoKey}, page: Nat,
                               found: Job \cup {NoJob}, wake: BOOLEAN]]
  /\ workers \in [Worker -> [phase: {"idle", "claimed", "read", "sent"},
                             job: Job \cup {NoJob}, page: Nat, seen: Nat]]
  /\ changes \in [Unit -> Nat]
  /\ google \in [Unit -> Nat]
  /\ budget \in [changes: Nat, crashes: Nat]
  /\ lapses \in [overran: SUBSET Key, doubled: SUBSET Key, late: SUBSET Unit]

Init ==
  /\ outbox = [j \in Job |-> NoRow]
  /\ requests = [r \in Request |-> NoRequest]
  /\ workers = [w \in Worker |-> Idle]
  /\ changes = [u \in Unit |-> 0]
  /\ google = [u \in Unit |-> 0]
  /\ budget = [changes |-> MaxChanges, crashes |-> MaxCrashes]
  /\ lapses = [overran |-> {}, doubled |-> {}, late |-> {}]

-----------------------------------------------------------------------------
(***************************************************************************)
(* The unit a worker is at, and whether a job still has to read a unit: no *)
(* run has passed it, and the live run at it has not read it yet.          *)
(***************************************************************************)
UnitOf(w) == <<outbox[workers[w].job].key, workers[w].page>>

Running(w, j) == workers[w].phase # "idle" /\ workers[w].job = j

WillRead(j, u) ==
  /\ outbox[j].key = u[1] /\ outbox[j].status \in Open
  /\ outbox[j].progress < u[2]
  /\ \A w \in Worker :
       Running(w, j) /\ workers[w].page = u[2] => workers[w].phase = "claimed"

(***************************************************************************)
(* A request changes a unit and calls enqueue_sync_job.  The SELECT of an  *)
(* open row takes no lock, so the COMMIT may find the row as any worker    *)
(* left it in between.                                                     *)
(***************************************************************************)
EnqueueSelect(r, u) ==
  /\ requests[r].phase = "idle" /\ budget.changes > 0
  /\ \E found \in IF OpenRows(outbox, u[1]) = {} THEN {NoJob}
                  ELSE OpenRows(outbox, u[1]) :
       requests' = [requests EXCEPT ![r] =
         [phase |-> "selected", key |-> u[1], page |-> u[2], found |-> found,
          wake |-> found # NoJob /\ outbox[found].waitTime > 0]]
  /\ budget' = [budget EXCEPT !.changes = @ - 1]
  /\ UNCHANGED <<outbox, workers, changes, google, lapses>>

EnqueueCommit(r) ==
  LET req == requests[r]
      u == <<req.key, req.page>>
  IN  /\ req.phase = "selected"
      /\ changes' = [changes EXCEPT ![u] = @ + 1]
      /\ requests' = [requests EXCEPT ![r] = NoRequest]
      /\ \/ /\ req.found = NoJob
            /\ \E j \in Job :
                 /\ outbox[j].status = "none"
                 /\ outbox' = [outbox EXCEPT ![j] = NewRow(req.key)]
            /\ lapses' = [lapses EXCEPT !.doubled =
                 IF OpenRows(outbox, req.key) = {} THEN @ ELSE @ \cup {req.key}]
         \/ /\ req.found # NoJob
            /\ outbox' = [outbox EXCEPT ![req.found] = FoldRow(@, req.wake)]
            /\ lapses' = [lapses EXCEPT !.late =
                 IF WillRead(req.found, u) THEN @ ELSE @ \cup {u}]
      /\ UNCHANGED <<workers, google, budget>>

(***************************************************************************)
(* The request fails before its COMMIT: neither change nor job exists.     *)
(***************************************************************************)
EnqueueAbort(r) ==
  /\ requests[r].phase = "selected"
  /\ requests' = [requests EXCEPT ![r] = NoRequest]
  /\ UNCHANGED <<outbox, workers, changes, google, budget, lapses>>

-----------------------------------------------------------------------------
Claim(w) ==
  /\ workers[w].phase = "idle"
  /\ \E j \in ClaimCandidates(outbox) :
       /\ outbox' = [outbox EXCEPT ![j] = ClaimRow(@, w)]
       /\ workers' = [workers EXCEPT ![w] =
            [phase |-> "claimed", job |-> j, page |-> outbox[j].progress + 1,
             seen |-> 0]]
       /\ lapses' = [lapses EXCEPT !.overran =
            IF outbox[j].lockAge = Lease /\ \E v \in Worker : Running(v, j)
            THEN @ \cup {outbox[j].key} ELSE @]
  /\ UNCHANGED <<requests, changes, google, budget>>

ReadUnit(w) ==
  /\ workers[w].phase = "claimed"
  /\ workers' = [workers EXCEPT ![w].phase = "read",
                                ![w].seen = changes[UnitOf(w)]]
  /\ lapses' = [lapses EXCEPT !.late = @ \ {UnitOf(w)}]
  /\ UNCHANGED <<outbox, requests, changes, google, budget>>

SendUnit(w) ==
  /\ workers[w].phase = "read"
  /\ google' = [google EXCEPT ![UnitOf(w)] = workers[w].seen]
  /\ workers' = [workers EXCEPT ![w].phase = "sent"]
  /\ UNCHANGED <<outbox, requests, changes, budget, lapses>>

(***************************************************************************)
(* run_job_operation returned: the job is done, or waits for its next      *)
(* batch.  The row is written whoever holds it by now.                     *)
(***************************************************************************)
Finish(w) ==
  LET j == workers[w].job
      page == workers[w].page
  IN  /\ workers[w].phase = "sent"
      /\ outbox' = [outbox EXCEPT ![j] =
           IF page >= Pages[outbox[j].key] THEN DoneRow(@) ELSE PendingRow(@, page)]
      /\ workers' = [workers EXCEPT ![w] = Idle]
      /\ UNCHANGED <<requests, changes, google, budget, lapses>>

(***************************************************************************)
(* run_job_operation raised, before or after Google took the change.       *)
(***************************************************************************)
Fail(w) ==
  /\ workers[w].phase # "idle"
  /\ \E retryable \in BOOLEAN :
       outbox' = [outbox EXCEPT ![workers[w].job] = FailedRow(@, retryable)]
  /\ workers' = [workers EXCEPT ![w] = Idle]
  /\ UNCHANGED <<requests, changes, google, budget, lapses>>

(***************************************************************************)
(* The worker process dies; the row stays "processing" until its lease is  *)
(* over.  The restarted process is idle (it gets a new worker_id, but no   *)
(* statement of outbox.py compares locked_by).                             *)
(***************************************************************************)
Crash(w) ==
  /\ workers[w].phase # "idle" /\ budget.crashes > 0
  /\ workers' = [workers EXCEPT ![w] = Idle]
  /\ budget' = [budget EXCEPT !.crashes = @ - 1]
  /\ UNCHANGED <<outbox, requests, changes, google, lapses>>

Tick ==
  /\ \E j \in Job : Ages(outbox[j])
  /\ outbox' = [j \in Job |-> AgeRow(outbox[j])]
  /\ UNCHANGED <<requests, workers, changes, google, budget, lapses>>

-----------------------------------------------------------------------------
WorkerStep(w) == Claim(w) \/ ReadUnit(w) \/ SendUnit(w) \/ Finish(w) \/ Fail(w)

Next ==
  \/ \E r \in Request : \/ \E u \in Unit : EnqueueSelect(r, u)
                        \/ EnqueueCommit(r)
                        \/ EnqueueAbort(r)
  \/ \E w \in Worker : WorkerStep(w) \/ Crash(w)
  \/ Tick

Spec == Init /\ [][Next]_vars

(***************************************************************************)
(* run_worker polls for ever and an HTTP call ends, by its timeout if need *)
(* be; time passes.  Nobody has to make a request, commit it or crash.     *)
(***************************************************************************)
FairSpec ==
  Spec /\ WF_vars(Tick) /\ \A w \in Worker : WF_vars(WorkerStep(w))

-----------------------------------------------------------------------------
(***************************************************************************)
(* Two workers run one job at a time only if a claim outlived its lease:   *)
(* claim_next_job hands out a row that is still "processing" only after    *)
(* PROCESSING_LEASE_TIMEOUT, and nothing else opens a running job.         *)
(***************************************************************************)
ExclusiveRun ==
  \A v, w \in Worker, j \in Job :
    Running(v, j) /\ Running(w, j) /\ v # w => outbox[j].key \in lapses.overran

(***************************************************************************)
(* A key has one open job: enqueue_sync_job folds into the open row it     *)
(* finds.  It fails only when a zombie reopened a finished job, or when    *)
(* two requests both saw no open row.                                      *)
(***************************************************************************)
OneOpenRow ==
  \A i, j \in Job :
    /\ outbox[i].status \in Open /\ outbox[j].status \in Open
    /\ outbox[i].key = outbox[j].key /\ i # j
    => outbox[i].key \in lapses.overran \cup lapses.doubled

(***************************************************************************)
(* MAX_ATTEMPTS bounds the failed runs of a job: an open job still has an  *)
(* attempt left, and no job fails more than MAX_ATTEMPTS times, unless a   *)
(* second worker was let in.                                               *)
(***************************************************************************)
RetryBudget ==
  \A j \in Job :
    \/ outbox[j].key \in lapses.overran
    \/ /\ outbox[j].attempts <= MaxAttempts
       /\ outbox[j].status \in Open => outbox[j].attempts < MaxAttempts

(***************************************************************************)
(* What "durable" comes to: a change that Google does not show is going to *)
(* be read by an open job (or was read and is about to be sent), or the    *)
(* job died, unless the change slipped in one of three ways: it was folded *)
(* into a row that no run reads again (late), the key has two rows         *)
(* (doubled), or two workers ran the row (overran).                        *)
(***************************************************************************)
Carried(u) ==
  \E j \in Job :
    /\ outbox[j].key = u[1] /\ outbox[j].status \in Open
    /\ outbox[j].progress < u[2]
    /\ \A w \in Worker :
         Running(w, j) /\ workers[w].page = u[2]
           => workers[w].phase = "claimed" \/ workers[w].seen = changes[u]

Died(k) == \E j \in Job : outbox[j].key = k /\ outbox[j].status = "dead"

ChangesCarried ==
  \A u \in Unit :
    google[u] # changes[u] =>
      \/ Carried(u)
      \/ Died(u[1])
      \/ u \in lapses.late \/ u[1] \in lapses.doubled \cup lapses.overran

(***************************************************************************)
(* "Task mutations enqueue durable google_sync_outbox jobs"                *)
(* (docs/google-calendar.md:187): a committed change that Google does not  *)
(* show has an open job.                                                   *)
(***************************************************************************)
MutationHasJob ==
  \A u \in Unit :
    google[u] # changes[u] =>
      \/ \E j \in Job : outbox[j].key = u[1] /\ outbox[j].status \in Open
      \/ Died(u[1])

(***************************************************************************)
(* A job that is done or dead stays so: only a worker whose claim outlived *)
(* the lease reopens it.                                                   *)
(***************************************************************************)
FinalStays ==
  [][\A j \in Job :
       outbox[j].status \in Final /\ outbox[j].key \notin lapses.overran
         => outbox'[j].status = outbox[j].status]_vars

(***************************************************************************)
(* Every job ends: a crash, a failure or an overrun only delays it.        *)
(***************************************************************************)
JobsSettle ==
  \A j \in Job : outbox[j].status \in Open ~> outbox[j].status \in Final
=============================================================================
