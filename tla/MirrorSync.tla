----------------------------- MODULE MirrorSync -----------------------------
(***************************************************************************)
(* One task job of the outbox, seen from inside: what sync_one_task and    *)
(* delete_task_mirrors read and write, statement by statement, while the   *)
(* user goes on changing the tasks.  The queue is OutboxQueue's.           *)
(*                                                                         *)
(* A calendar is named by its category; NoList stands for a task without a *)
(* category or with a disabled one (get_task_calendar_id returns None for  *)
(* both).  A task is active when is_task_eligible_for_mirror holds of it.  *)
(* The id of a Google event is a function of the task, so a calendar holds *)
(* at most one event of a task; google is the version that event shows.    *)
(***************************************************************************)
EXTENDS OutboxQueue

CONSTANTS
  Task, List,
  Mirror,                   \* the rows google_event_mirrors can hold (a bound)
  NoTask, NoList, NoMirror, NoJob,
  Mapped,                   \* the categories that have a calendar at the start
  MaxChanges, MaxCrashes    \* bounds: user requests and crashes in a behavior

ASSUME MirrorAssumption ==
  /\ Key = {"upsert_task", "delete_task"} \X Task
  /\ NoTask \notin Task /\ NoList \notin List
  /\ NoMirror \notin Mirror /\ NoJob \notin Job
  /\ Mapped \subseteq List
  /\ MaxChanges \in Nat /\ MaxCrashes \in Nat

VARIABLES
  tasks,    \* scheduled_tasks
  mapped,   \* the categories with a row in google_category_calendars
  locks,    \* who holds the FOR UPDATE lock on each row of task_lists
  mirrors,  \* google_event_mirrors
  google,   \* the version each calendar shows of each task; 0: no event
  outbox,
  target,   \* the task_id column of outbox (a deleted task nulls it)
  workers,
  budget,   \* requests and crashes still to come (bounds of the model)
  history   \* what the properties have to tell apart (see HistoryOK)

vars == <<tasks, mapped, locks, mirrors, google, outbox, target, workers,
          budget, history>>

NoEvent == 0
Idle == [phase |-> "idle", job |-> NoJob, task |-> NoTask, version |-> 0,
         cal |-> NoList, mirror |-> NoMirror, old |-> NoList, rows |-> {},
         doomed |-> {}]
FreeRow == [used |-> FALSE, owner |-> NoTask, event |-> NoTask, cal |-> NoList]

Phase == {"idle", "claimed", "read", "unmapped", "found", "sent", "cleaned",
          "removing", "broken", "saved"}

(***************************************************************************)
(* late: a change was folded into a run that had read the task.  strays:   *)
(* events whose run ended before it committed their mirror.  hidden: tasks *)
(* whose event a run removed on purpose.  overran: a claim outlived its    *)
(* lease.  crossed: a delete_task run began to remove the mirror that an   *)
(* upsert_task run of another worker was using.                            *)
(***************************************************************************)
HistoryOK ==
  history \in [late: SUBSET Task, strays: SUBSET (Task \X List),
               hidden: SUBSET Task, overran: SUBSET Key, crossed: SUBSET Task]

TypeOK ==
  /\ tasks \in [Task -> [exists: BOOLEAN, active: BOOLEAN,
                         list: List \cup {NoList}, version: Nat]]
  /\ mapped \subseteq List
  /\ locks \in [List -> Worker \cup {NoWorker}]
  /\ mirrors \in [Mirror -> [used: BOOLEAN, owner: Task \cup {NoTask},
                             event: Task \cup {NoTask}, cal: List \cup {NoList}]]
  /\ google \in [Task \X List -> Nat]
  /\ outbox \in [Job -> Row]
  /\ target \in [Job -> Task \cup {NoTask}]
  /\ workers \in [Worker -> [phase: Phase, job: Job \cup {NoJob},
                             task: Task \cup {NoTask}, version: Nat,
                             cal: List \cup {NoList}, mirror: Mirror \cup {NoMirror},
                             old: List \cup {NoList}, rows: SUBSET Mirror,
                             doomed: SUBSET (Task \X List)]]
  /\ budget \in [changes: Nat, crashes: Nat]
  /\ HistoryOK

(***************************************************************************)
(* create_task has committed: every task waits for its first sync.         *)
(***************************************************************************)
Init ==
  /\ tasks \in [Task -> [exists: {TRUE}, active: {TRUE}, list: List, version: {1}]]
  /\ mapped = Mapped
  /\ locks = [l \in List |-> NoWorker]
  /\ mirrors = [m \in Mirror |-> FreeRow]
  /\ google = [e \in Task \X List |-> NoEvent]
  /\ \E jobOf \in [Task -> Job] :
       /\ \A s, t \in Task : s # t => jobOf[s] # jobOf[t]
       /\ outbox = [j \in Job |->
            IF \E t \in Task : jobOf[t] = j
            THEN NewRow(<<"upsert_task", CHOOSE t \in Task : jobOf[t] = j>>)
            ELSE NoRow]
       /\ target = [j \in Job |->
            IF \E t \in Task : jobOf[t] = j
            THEN CHOOSE t \in Task : jobOf[t] = j ELSE NoTask]
  /\ workers = [w \in Worker |-> Idle]
  /\ budget = [changes |-> MaxChanges, crashes |-> MaxCrashes]
  /\ history = [late |-> {}, strays |-> {}, hidden |-> {}, overran |-> {},
                crossed |-> {}]

Running(w, j) == workers[w].phase # "idle" /\ workers[w].job = j

Operation(w) == outbox[workers[w].job].key[1]

OwnedByAny(t) ==          \* mutant: no filter for the null task id
  {m \in Mirror : mirrors[m].used /\ (t = NoTask \/ mirrors[m].owner = t)}

OwnedBy(t) == {m \in Mirror : mirrors[m].used /\ mirrors[m].owner = t}

-----------------------------------------------------------------------------
(***************************************************************************)
(* The user's requests.  Each is one transaction that writes the task and  *)
(* calls enqueue_sync_job.                                                 *)
(***************************************************************************)
Enqueue(k, t) ==
  IF OpenRows(outbox, k) = {}
  THEN \E j \in Job :
         /\ outbox[j].status = "none"
         /\ outbox' = [outbox EXCEPT ![j] = NewRow(k)]
         /\ target' = [target EXCEPT ![j] = t]
         /\ UNCHANGED history
  ELSE \E j \in OpenRows(outbox, k) :
         /\ outbox' = [outbox EXCEPT ![j] = FoldRow(@, outbox[j].waitTime > 0)]
         /\ history' = [history EXCEPT !.late =
              IF \E w \in Worker : Running(w, j) /\ workers[w].phase # "claimed"
              THEN @ \cup {t} ELSE @]
         /\ UNCHANGED target

(***************************************************************************)
(* update_task, complete_task, uncomplete_task.  Writing list_id takes a   *)
(* key-share lock on the category, which a FOR UPDATE lock keeps out.      *)
(***************************************************************************)
UpdateTask(t) ==
  /\ tasks[t].exists /\ budget.changes > 0
  /\ \E l \in List \cup {NoList}, active \in BOOLEAN :
       /\ l \in List /\ l # tasks[t].list => locks[l] = NoWorker
       /\ tasks' = [tasks EXCEPT ![t].list = l, ![t].active = active,
                                 ![t].version = @ + 1]
  /\ Enqueue(<<"upsert_task", t>>, t)
  /\ budget' = [budget EXCEPT !.changes = @ - 1]
  /\ UNCHANGED <<mapped, locks, mirrors, google, workers>>

(***************************************************************************)
(* delete_task: the delete_task job is inserted with the task's id, and    *)
(* then the foreign keys of the outbox (that row included) and of the      *)
(* mirrors are set to null by the deletion.                                *)
(***************************************************************************)
DeleteTask(t) ==
  /\ tasks[t].exists /\ budget.changes > 0
  /\ tasks' = [tasks EXCEPT ![t].exists = FALSE]
  /\ \E j \in Job :
       /\ outbox[j].status = "none"
       /\ outbox' = [outbox EXCEPT ![j] = NewRow(<<"delete_task", t>>)]
  /\ target' = [j \in Job |-> IF target[j] = t THEN NoTask ELSE target[j]]
  /\ mirrors' = [m \in Mirror |-> IF m \in OwnedBy(t)
                                  THEN [mirrors[m] EXCEPT !.owner = NoTask]
                                  ELSE mirrors[m]]
  /\ budget' = [budget EXCEPT !.changes = @ - 1]
  /\ UNCHANGED <<mapped, locks, google, workers, history>>

-----------------------------------------------------------------------------
(***************************************************************************)
(* The worker.                                                             *)
(***************************************************************************)
Claim(w) ==
  /\ workers[w].phase = "idle"
  /\ \E j \in ClaimCandidates(outbox) :
       /\ outbox' = [outbox EXCEPT ![j] = ClaimRow(@, w)]
       /\ workers' = [workers EXCEPT ![w] =
            [Idle EXCEPT !.phase = "claimed", !.job = j, !.task = target[j]]]
       /\ history' = [history EXCEPT !.overran =
            IF outbox[j].lockAge = Lease /\ \E v \in Worker : Running(v, j)
            THEN @ \cup {outbox[j].key} ELSE @]
  /\ UNCHANGED <<tasks, mapped, locks, mirrors, google, target, budget>>

(***************************************************************************)
(* delete_task_mirrors selects the rows of one task; for the null task id  *)
(* of a deleted task these are all the rows that lost their task.          *)
(***************************************************************************)
Removal(w, t) ==
  [workers[w] EXCEPT !.phase = "removing", !.rows = OwnedBy(t),
     !.doomed = {<<mirrors[m].event, mirrors[m].cal>> : m \in OwnedBy(t)}]

StartDelete(w) ==
  /\ workers[w].phase = "claimed" /\ Operation(w) = "delete_task"
  /\ workers' = [workers EXCEPT ![w] = Removal(w, workers[w].task)]
  /\ history' = [history EXCEPT !.crossed = @ \cup
       ({mirrors[m].event : m \in OwnedBy(workers[w].task)}
         \cap {workers[v].task : v \in Worker \ {w}})]
  /\ UNCHANGED <<tasks, mapped, locks, mirrors, google, outbox, target, budget>>

(***************************************************************************)
(* An upsert_task job whose task is gone has a null task id: nothing to do.*)
(***************************************************************************)
SkipUpsert(w) ==
  /\ workers[w].phase = "claimed" /\ Operation(w) = "upsert_task"
  /\ workers[w].task = NoTask
  /\ workers' = [workers EXCEPT ![w].phase = "saved"]
  /\ UNCHANGED <<tasks, mapped, locks, mirrors, google, outbox, target, budget, history>>

ReadTaskAnyway(w) ==      \* mutant: no is_task_eligible_for_mirror
  LET t == workers[w].task
      task == tasks[t]
  IN  /\ workers[w].phase = "claimed" /\ Operation(w) = "upsert_task" /\ t # NoTask
      /\ workers' = [workers EXCEPT ![w] =
           IF task.exists /\ task.list # NoList
           THEN [@ EXCEPT !.phase = "read", !.cal = task.list, !.version = task.version]
           ELSE Removal(w, t)]
      /\ history' = [history EXCEPT !.late = @ \ {t}]
      /\ UNCHANGED <<tasks, mapped, locks, mirrors, google, outbox, target, budget>>

ReadTask(w) ==
  LET t == workers[w].task
      task == tasks[t]
  IN  /\ workers[w].phase = "claimed" /\ Operation(w) = "upsert_task" /\ t # NoTask
      /\ workers' = [workers EXCEPT ![w] =
           IF task.exists /\ task.active /\ task.list # NoList
           THEN [@ EXCEPT !.phase = "read", !.cal = task.list, !.version = task.version]
           ELSE Removal(w, t)]
      /\ history' = [history EXCEPT !.late = @ \ {t}]
      /\ UNCHANGED <<tasks, mapped, locks, mirrors, google, outbox, target, budget>>

(***************************************************************************)
(* The mirror of the task, as the SELECT after get_task_calendar_id finds  *)
(* it; old is the calendar it names.                                       *)
(***************************************************************************)
FoundMirrors(w) ==
  LET found == [workers[w] EXCEPT !.phase = "found"]
      owned == OwnedBy(workers[w].task)
  IN  IF owned = {} THEN {found}
      ELSE {[found EXCEPT !.mirror = m, !.old = mirrors[m].cal] : m \in owned}

LockList(w) ==
  /\ workers[w].phase = "read" /\ locks[workers[w].cal] = NoWorker
  /\ locks' = [locks EXCEPT ![workers[w].cal] = w]
  /\ \E record \in IF workers[w].cal \in mapped THEN FoundMirrors(w)
                    ELSE {[workers[w] EXCEPT !.phase = "unmapped"]} :
       workers' = [workers EXCEPT ![w] = record]
  /\ UNCHANGED <<tasks, mapped, mirrors, google, outbox, target, budget, history>>

(***************************************************************************)
(* A calendar is created and its row committed.  The commit gives the lock *)
(* back and expires the task, which is read again for the payload: its     *)
(* version is the one of now, but neither its category nor its eligibility *)
(* is looked at again.                                                     *)
(***************************************************************************)
CreateCalendar(w) ==
  LET task == tasks[workers[w].task]
  IN  /\ workers[w].phase = "unmapped"
      /\ mapped' = mapped \cup {workers[w].cal}
      /\ locks' = [locks EXCEPT ![workers[w].cal] = NoWorker]
      /\ \E record \in IF task.exists THEN FoundMirrors(w)
                        ELSE {[workers[w] EXCEPT !.phase = "broken"]} :
           workers' = [workers EXCEPT ![w] = [record EXCEPT !.version = task.version]]
      /\ UNCHANGED <<tasks, mirrors, google, outbox, target, budget, history>>

(***************************************************************************)
(* The event is created, adopted (its id is deterministic) or updated.     *)
(***************************************************************************)
SendEvent(w) ==
  LET e == <<workers[w].task, workers[w].cal>>
  IN  /\ workers[w].phase = "found"
      /\ google' = [google EXCEPT ![e] = workers[w].version]
      /\ workers' = [workers EXCEPT ![w].phase = "sent"]
      /\ history' = [history EXCEPT !.hidden = @ \ {workers[w].task}]
      /\ UNCHANGED <<tasks, mapped, locks, mirrors, outbox, target, budget>>

Moving(w) == workers[w].mirror # NoMirror /\ workers[w].old # workers[w].cal

RemoveOldFirst(w) ==      \* mutant: the old event goes before the new one is sent
  LET e == <<workers[w].task, workers[w].old>>
  IN  /\ workers[w].phase = "found" /\ Moving(w)
      /\ google' = [google EXCEPT ![e] = NoEvent]
      /\ workers' = [workers EXCEPT ![w].old = workers[w].cal]
      /\ history' = [history EXCEPT !.strays = @ \ {e}]
      /\ UNCHANGED <<tasks, mapped, locks, mirrors, outbox, target, budget>>

RemoveOld(w) ==
  LET e == <<workers[w].task, workers[w].old>>
  IN  /\ workers[w].phase = "sent" /\ Moving(w)
      /\ google' = [google EXCEPT ![e] = NoEvent]
      /\ workers' = [workers EXCEPT ![w].phase = "cleaned"]
      /\ history' = [history EXCEPT !.strays = @ \ {e}]
      /\ UNCHANGED <<tasks, mapped, locks, mirrors, outbox, target, budget>>

UnlockNever(w) == locks   \* mutant: the failed transaction is not rolled back

Unlock(w) == [l \in List |-> IF locks[l] = w THEN NoWorker ELSE locks[l]]

(***************************************************************************)
(* The commit of sync_one_task flushes the mirror.  The foreign key        *)
(* refuses a new row of a task that is gone, the unique constraints of the *)
(* migration a second row of a task and a second row of an event; an       *)
(* update finds no row if the mirror was deleted meanwhile.                *)
(***************************************************************************)
Admitted(w) ==
  LET t == workers[w].task
      m == workers[w].mirror
  IN  /\ IF m = NoMirror THEN tasks[t].exists /\ OwnedBy(t) = {} ELSE mirrors[m].used
      /\ \A n \in Mirror \ {m} :
           ~(mirrors[n].event = t /\ mirrors[n].cal = workers[w].cal)

Written(w) == workers[w].phase = (IF Moving(w) THEN "cleaned" ELSE "sent")

(***************************************************************************)
(* A row has a fresh id: none that a row has or that a run remembers.      *)
(***************************************************************************)
FreshIds ==
  {n \in Mirror : /\ ~mirrors[n].used
                  /\ \A v \in Worker : n \notin workers[v].rows \cup {workers[v].mirror}}

Commit(w) ==
  LET t == workers[w].task
      cal == workers[w].cal
      rows == IF workers[w].mirror = NoMirror THEN FreshIds ELSE {workers[w].mirror}
  IN  /\ Written(w) /\ Admitted(w)
      /\ \E m \in rows :
           mirrors' = [mirrors EXCEPT ![m] =
             [used |-> TRUE, event |-> t, cal |-> cal,
              owner |-> IF workers[w].mirror = NoMirror THEN t ELSE @.owner]]
      /\ locks' = Unlock(w)
      /\ workers' = [workers EXCEPT ![w].phase = "saved"]
      /\ history' = [history EXCEPT !.strays = @ \ {<<t, cal>>}]
      /\ UNCHANGED <<tasks, mapped, google, outbox, target, budget>>

CommitRefused(w) ==
  /\ Written(w) /\ ~Admitted(w)
  /\ workers' = [workers EXCEPT ![w].phase = "broken"]
  /\ UNCHANGED <<tasks, mapped, locks, mirrors, google, outbox, target, budget,
                 history>>

(***************************************************************************)
(* delete_mirror_event, for one mirror after the other; then the commit.   *)
(***************************************************************************)
RemoveEvent(w) ==
  /\ workers[w].phase = "removing"
  /\ \E e \in workers[w].doomed :
       /\ google' = [google EXCEPT ![e] = NoEvent]
       /\ workers' = [workers EXCEPT ![w].doomed = @ \ {e}]
       /\ history' = [history EXCEPT !.strays = @ \ {e}, !.hidden = @ \cup {e[1]}]
  /\ UNCHANGED <<tasks, mapped, locks, mirrors, outbox, target, budget>>

CommitRemovalEarly(w) ==  \* mutant: the rows are dropped, some events are not
  /\ workers[w].phase = "removing"
  /\ mirrors' = [m \in Mirror |-> IF m \in workers[w].rows THEN FreeRow ELSE mirrors[m]]
  /\ workers' = [workers EXCEPT ![w].phase = "saved"]
  /\ UNCHANGED <<tasks, mapped, locks, google, outbox, target, budget, history>>

CommitRemoval(w) ==
  /\ workers[w].phase = "removing" /\ workers[w].doomed = {}
  /\ mirrors' = [m \in Mirror |-> IF m \in workers[w].rows THEN FreeRow ELSE mirrors[m]]
  /\ workers' = [workers EXCEPT ![w].phase = "saved"]
  /\ UNCHANGED <<tasks, mapped, locks, google, outbox, target, budget, history>>

Finish(w) ==
  /\ workers[w].phase = "saved"
  /\ outbox' = [outbox EXCEPT ![workers[w].job] = DoneRow(@)]
  /\ workers' = [workers EXCEPT ![w] = Idle]
  /\ UNCHANGED <<tasks, mapped, locks, mirrors, google, target, budget, history>>

-----------------------------------------------------------------------------
(***************************************************************************)
(* The run ends early: its transaction is rolled back, what it sent stays. *)
(***************************************************************************)
CutShort(w) ==
  LET e == <<workers[w].task, workers[w].cal>>
  IN  /\ workers[w].phase # "idle"
      /\ workers' = [workers EXCEPT ![w] = Idle]
      /\ locks' = Unlock(w)
      /\ history' = [history EXCEPT !.strays =
           IF /\ workers[w].phase \in {"sent", "cleaned", "broken"} /\ google[e] # NoEvent
              /\ \A m \in Mirror : <<mirrors[m].event, mirrors[m].cal>> # e
           THEN @ \cup {e} ELSE @]
      /\ UNCHANGED <<tasks, mapped, mirrors, google, target>>

(***************************************************************************)
(* Google or the database refused, at any point of the run.                *)
(***************************************************************************)
Fail(w) ==
  /\ CutShort(w)
  /\ \E retryable \in BOOLEAN :
       outbox' = [outbox EXCEPT ![workers[w].job] = FailedRow(@, retryable)]
  /\ UNCHANGED budget

Crash(w) ==
  /\ CutShort(w) /\ budget.crashes > 0
  /\ budget' = [budget EXCEPT !.crashes = @ - 1]
  /\ UNCHANGED outbox

Tick ==
  /\ \E j \in Job : Ages(outbox[j])
  /\ outbox' = [j \in Job |-> AgeRow(outbox[j])]
  /\ UNCHANGED <<tasks, mapped, locks, mirrors, google, target, workers, budget, history>>

(***************************************************************************)
(* What a run does when nothing stops it; a broken one has to fail.        *)
(***************************************************************************)
WorkerStep(w) ==
  \/ Claim(w) \/ StartDelete(w) \/ SkipUpsert(w) \/ ReadTask(w) \/ LockList(w)
  \/ CreateCalendar(w) \/ SendEvent(w) \/ RemoveOld(w) \/ Commit(w)
  \/ CommitRefused(w) \/ RemoveEvent(w) \/ CommitRemoval(w) \/ Finish(w)
  \/ workers[w].phase = "broken" /\ Fail(w)

Next ==
  \/ \E t \in Task : UpdateTask(t) \/ DeleteTask(t)
  \/ \E w \in Worker : WorkerStep(w) \/ Fail(w) \/ Crash(w)
  \/ Tick

Spec == Init /\ [][Next]_vars

(***************************************************************************)
(* run_worker polls for ever and every call returns; time passes.  Nothing *)
(* has to fail: a statement that waits for a lock waits until it gets it.  *)
(***************************************************************************)
FairSpec ==
  Spec /\ WF_vars(Tick) /\ \A w \in Worker : WF_vars(WorkerStep(w))

-----------------------------------------------------------------------------
Shown(t) == {l \in List : google[<<t, l>>] # NoEvent}

Wanted(t) ==
  IF tasks[t].exists /\ tasks[t].active /\ tasks[t].list # NoList
  THEN {tasks[t].list} ELSE {}

Recorded(t, l) == \E m \in Mirror : mirrors[m].event = t /\ mirrors[m].cal = l

(***************************************************************************)
(* Two runs were at work on t: a claim outlived its lease, or t was being  *)
(* deleted by one worker and mirrored by another.                          *)
(***************************************************************************)
Doubled(t) == t \in history.crossed \/ \E k \in history.overran : k[2] = t

(***************************************************************************)
(* No event is forgotten: each has its mirror, or belongs to a run that is *)
(* about to commit one, or was left by a run that was cut short in between *)
(* (sync_one_task, delete_task_mirrors; one run at a time for a task).     *)
(***************************************************************************)
EventsTracked ==
  \A t \in Task : \A l \in Shown(t) :
    \/ Recorded(t, l)
    \/ <<t, l>> \in history.strays
    \/ Doubled(t)
    \/ \E w \in Worker : /\ workers[w].phase \in {"sent", "cleaned", "broken"}
                         /\ workers[w].task = t /\ workers[w].cal = l

(***************************************************************************)
(* "The old event must not be deleted before the new event is safely       *)
(* created" (docs/google-calendar-category-routing.md:76): a mirrored task *)
(* shows in some calendar at every instant, moves and failed moves         *)
(* included, unless a run took its event away because it read the task as  *)
(* one that is not to be mirrored (one run at a time for a task).          *)
(***************************************************************************)
NeverDark ==
  \A t \in Task :
    OwnedBy(t) # {} /\ t \notin history.hidden /\ ~Doubled(t) => Shown(t) # {}

Quiet ==
  /\ \A j \in Job : outbox[j].status \notin Open
  /\ \A w \in Worker : workers[w].phase = "idle"

(***************************************************************************)
(* Nothing happened to the jobs of t that the outbox does not promise to   *)
(* survive: no change was folded into a run that had read the task, no job *)
(* died, no two workers ran one job.                                       *)
(***************************************************************************)
Healthy(t) ==
  /\ t \notin history.late /\ ~Doubled(t)
  /\ \A j \in Job : outbox[j].status = "dead" => outbox[j].key[2] # t

(***************************************************************************)
(* When all jobs are over, every category shows what it should, in the     *)
(* last version, and a retry has adopted or repaired what an earlier run   *)
(* left in the right calendar.  Only events of runs that were cut short    *)
(* are left where they do not belong.                                      *)
(***************************************************************************)
Converged ==
  Quiet => \A t \in Task : Healthy(t) =>
    /\ \A l \in Wanted(t) : google[<<t, l>>] = tasks[t].version
    /\ \A l \in Shown(t) \ Wanted(t) : <<t, l>> \in history.strays

(***************************************************************************)
(* "Completed tasks are not shown in Google Calendar.  If a previously     *)
(* mirrored task is completed, automatic sync deletes its Google event     *)
(* when the worker processes the queued job" (docs/google-calendar.md:161).*)
(***************************************************************************)
CompletedHidden ==
  Quiet => \A t \in Task :
    tasks[t].exists /\ ~tasks[t].active /\ Healthy(t) => Shown(t) = {}

(***************************************************************************)
(* An event is deleted only where its task is not to be shown: neither the *)
(* clean-up after a move, nor the removal of a completed task, nor a       *)
(* delete_task job (whose query names no task) takes an event that is      *)
(* wanted, unless the task changed after the run had read it.              *)
(***************************************************************************)
WantedStays ==
  [][\A t \in Task : \A l \in Wanted(t) :
       google[<<t, l>>] # NoEvent /\ google'[<<t, l>>] = NoEvent
         => t \in history.late \/ Doubled(t)]_vars

(***************************************************************************)
(* Every run ends: no category lock is left behind by a run that failed,   *)
(* and no two runs wait for each other.                                    *)
(***************************************************************************)
RunsEnd ==
  \A w \in Worker : workers[w].phase # "idle" ~> workers[w].phase = "idle"
=============================================================================
