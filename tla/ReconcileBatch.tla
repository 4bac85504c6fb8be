---------------------------- MODULE ReconcileBatch ----------------------------
(***************************************************************************)
(* A reconciliation (reconcile_user) as the batches it is made of: each    *)
(* run of its job repairs the calendars, deletes the events of one batch   *)
(* of mirrors and then creates, verifies or updates those of one batch of  *)
(* tasks; its position waits in progress_state for the next run.  Between  *)
(* two runs the worker does other jobs; between two steps of a run the     *)
(* user changes tasks and categories here and events in Google.            *)
(*                                                                         *)
(* There is one worker (docs/docker-production.md:12).  The job of a task  *)
(* is one step here: MirrorSync looks inside it.  The order in which jobs  *)
(* are claimed is left open: priorities rank only those that do not wait.  *)
(* A job that fails and is retried has no effect; one that dies has.       *)
(***************************************************************************)
EXTENDS Naturals, Functions, FiniteSets

CONSTANTS
  Tasks, Category, NoCategory,
  Calendars,      \* number of calendars Google can come to hold (a bound)
  BatchSizes,     \* batch_size is one of these
  MaxEdits,       \* bound: changes made by the user, here and in Google
  MaxFaults       \* bound: requests that fail, crashes

ASSUME BatchAssumption ==
  /\ Tasks \in Nat /\ Calendars \in Nat
  /\ NoCategory \notin Category /\ Category \cap {"unused", "deleted"} = {}
  /\ BatchSizes \subseteq Nat \ {0}
  /\ MaxEdits \in Nat /\ MaxFaults \in Nat

TaskId == 1..Tasks
Calendar == 1..Calendars
Pass == {"manual", "periodic"}

VARIABLES
  scheduled,   \* scheduled_tasks
  categories,  \* task_lists: "synced" is google_sync_enabled
  routes,      \* google_category_calendars: the calendar of a category, or 0
  calendars,   \* Google: the category a calendar is named after, or its fate
  events,      \* Google: what each calendar shows of each task
  copies,      \* google_event_mirrors: the row of each task's event
  jobs,        \* open upsert_task and delete_task jobs
  passes,      \* open reconcile_user jobs with their progress_state
  batch,       \* the run of a pass that is under way
  batchSize,
  credit,      \* bounds of the model
  trace        \* what the properties have to tell apart

batchVars == <<scheduled, categories, routes, calendars, events, copies, jobs, passes,
               batch, batchSize, credit, trace>>
userVars == <<scheduled, categories>>
googleVars == <<calendars, events>>

NoEvent == 0
Edited == 3              \* the user changed the event; 1 and 2 are our payloads
NoCopy == [calendar |-> 0, payload |-> 0, owned |-> FALSE, id |-> 0]
Orphans == 0             \* the key of a delete_task job without a task
Closed == [open |-> FALSE, at |-> "delete", last |-> 0]
\* mutant: the phase is misnamed.
OpenedMisnamed == [open |-> TRUE, at |-> "deletions", last |-> 0]
Opened == [open |-> TRUE, at |-> "delete", last |-> 0]
NoBatch == [phase |-> "idle", pass |-> "manual", at |-> "delete", last |-> 0,
            todo |-> {}, members |-> {}, seen |-> <<>>, expired |-> FALSE,
            locked |-> {}, ops |-> {}, done |-> {}, tidy |-> {}, fix |-> <<>>,
            next |-> Closed]

Eligible(t) == /\ scheduled[t].state = "live" /\ scheduled[t].active
               /\ scheduled[t].category # NoCategory
               /\ categories[scheduled[t].category] = "synced"

Copied(t) == copies[t].calendar # 0
Active == {routes[c] : c \in Category} \ {0}

(***************************************************************************)
(* A connection has just been made, which opens a pass; or everything was  *)
(* mirrored some time ago.                                                 *)
(***************************************************************************)
BatchInit ==
  /\ categories = [c \in Category |-> "synced"]
  /\ scheduled \in [TaskId -> [state: {"live"}, active: {TRUE}, category: Category,
                               payload: {1}]]
  /\ \E mirrored \in BOOLEAN, calendarOf \in [Category -> Calendar] :
       /\ IsInjective(calendarOf)
       /\ routes = [c \in Category |-> IF mirrored THEN calendarOf[c] ELSE 0]
       /\ calendars = [k \in Calendar |->
            IF mirrored /\ \E c \in Category : calendarOf[c] = k
            THEN CHOOSE c \in Category : calendarOf[c] = k ELSE "unused"]
       /\ events = [t \in TaskId |-> [k \in Calendar |->
            IF mirrored /\ calendarOf[scheduled[t].category] = k THEN 1 ELSE NoEvent]]
       /\ copies = [t \in TaskId |->
            IF mirrored THEN [calendar |-> calendarOf[scheduled[t].category],
                              payload |-> 1, owned |-> TRUE, id |-> t]
            ELSE NoCopy]
       /\ passes = [p \in Pass |-> IF p = "manual" /\ ~mirrored THEN Opened ELSE Closed]
  /\ jobs = [upserts |-> {}, deletes |-> {}]
  /\ batch = NoBatch
  /\ batchSize \in BatchSizes
  /\ credit \in [edits: 0..MaxEdits, faults: 0..MaxFaults]
  /\ trace = [missed |-> {}, covers |-> [p \in Pass |-> {}], loose |-> {}]
-----------------------------------------------------------------------------
(***************************************************************************)
(* History.  missed: tasks with a change that no open job is to carry; a   *)
(* pass that was claimed after that makes good for it (covers).  loose:    *)
(* events that show something no committed row records.                    *)
(***************************************************************************)
Forget(history, ts) ==
  [history EXCEPT !.missed = @ \cup ts,
                  !.covers = [p \in Pass |-> @[p] \ ts]]

Begun(p) ==
  \/ passes[p].open /\ passes[p] # Opened
  \/ batch.phase \notin {"idle", "claimed", "recreated"} /\ batch.pass = p

\* enqueue_user_reconciliation folds into the open row, wherever that pass is.
EnqueuePass(p, affected) ==
  /\ passes' = [passes EXCEPT ![p].open = TRUE]
  /\ trace' = IF Begun(p) THEN Forget(trace, affected) ELSE trace

Edit == credit.edits > 0 /\ credit' = [credit EXCEPT !.edits = @ - 1]
Fault == credit.faults > 0 /\ credit' = [credit EXCEPT !.faults = @ - 1]
-----------------------------------------------------------------------------
(* The user, here.                                                         *)

\* The category is referred to, which waits for a FOR UPDATE lock on its row.
SaveTask(t) ==
  /\ scheduled[t].state = "live" /\ Edit
  /\ \E c \in Category \cup {NoCategory}, active \in BOOLEAN, payload \in {1, 2} :
       /\ c \in Category => categories[c] # "deleted"
       /\ c \in batch.locked => c = scheduled[t].category
       /\ scheduled' = [scheduled EXCEPT ![t] =
            [@ EXCEPT !.category = c, !.active = active, !.payload = payload]]
  /\ jobs' = [jobs EXCEPT !.upserts = @ \cup {t}]
  /\ UNCHANGED <<categories, routes, googleVars, copies, passes, batch, batchSize, trace>>

\* The foreign key of its mirror is set to null.
RemoveTask(t) ==
  /\ scheduled[t].state = "live" /\ Edit
  /\ scheduled' = [scheduled EXCEPT ![t].state = "gone"]
  /\ copies' = [copies EXCEPT ![t].owned = FALSE]
  /\ jobs' = [jobs EXCEPT !.deletes = @ \cup {t}]
  /\ UNCHANGED <<categories, routes, googleVars, passes, batch, batchSize, trace>>

SwitchCategory(c) ==
  /\ categories[c] # "deleted" /\ c \notin batch.locked /\ Edit
  /\ categories' = [categories EXCEPT ![c] = IF @ = "synced" THEN "local" ELSE "synced"]
  /\ EnqueuePass("manual", {t \in TaskId : scheduled[t].category = c})
  /\ UNCHANGED <<scheduled, routes, googleVars, copies, jobs, batch, batchSize>>

\* Its tasks lose their category, and no job is added for them.
DropCategory(c) ==
  LET affected == {t \in TaskId : scheduled[t].category = c}
  IN /\ categories[c] # "deleted" /\ c \notin batch.locked /\ Edit
     /\ categories' = [categories EXCEPT ![c] = "deleted"]
     /\ scheduled' = [t \in TaskId |-> IF t \in affected
                                       THEN [scheduled[t] EXCEPT !.category = NoCategory]
                                       ELSE scheduled[t]]
     /\ routes' = [routes EXCEPT ![c] = 0]
     /\ EnqueuePass("manual", affected)
     /\ UNCHANGED <<googleVars, copies, jobs, batch, batchSize>>

\* A category of the same name as one deleted before.
AddCategory(c) ==
  /\ categories[c] = "deleted" /\ Edit
  /\ categories' = [categories EXCEPT ![c] = "synced"]
  /\ UNCHANGED <<scheduled, routes, googleVars, copies, jobs, passes, batch, batchSize,
                 trace>>

\* "Sync now", or the worker's hourly enqueue.
AskForPass(p) ==
  /\ ~passes[p].open /\ Edit
  /\ EnqueuePass(p, {})
  /\ UNCHANGED <<userVars, routes, googleVars, copies, jobs, batch, batchSize>>
(***************************************************************************)
(* The calendar of category c: the one it has, or one of its name that no  *)
(* category has, or a new one.                                             *)
(***************************************************************************)
Named(c) == {k \in Calendar : calendars[k] = c /\ k \notin Active}
Unused == {k \in Calendar : calendars[k] = "unused"}

Routed(c) ==
  IF routes[c] # 0 THEN {routes[c]}
  ELSE IF Named(c) # {} THEN Named(c)
  ELSE {k \in Unused : \A j \in Unused : k <= j}

-----------------------------------------------------------------------------
(* The user, in Google: nobody is told.                                    *)

TouchEvent(t, k) ==
  /\ events[t][k] # NoEvent /\ Edit
  /\ \/ /\ events' = [events EXCEPT ![t][k] = Edited]
        /\ trace' = [trace EXCEPT !.loose = @ \cup {<<t, k>>}]
     \/ /\ events' = [events EXCEPT ![t][k] = NoEvent]
        /\ trace' = [Forget(trace, {t}) EXCEPT !.loose = @ \ {<<t, k>>}]
  /\ UNCHANGED <<userVars, routes, calendars, copies, jobs, passes, batch, batchSize>>

DeleteCalendar(k) ==
  /\ calendars[k] \in Category /\ Edit
  /\ Unused # {}                                            \* a bound
  /\ calendars' = [calendars EXCEPT ![k] = "deleted"]
  /\ events' = [t \in TaskId |-> [events[t] EXCEPT ![k] = NoEvent]]
  /\ trace' = [Forget(trace, TaskId) EXCEPT !.loose = {e \in @ : e[2] # k}]
  /\ UNCHANGED <<userVars, routes, copies, jobs, passes, batch, batchSize>>
-----------------------------------------------------------------------------
FreeId == {i \in TaskId : \A t \in TaskId : Copied(t) => copies[t].id # i}

Drop(table, t, k) == IF k = 0 THEN table ELSE [table EXCEPT ![t][k] = NoEvent]

(***************************************************************************)
(* sync_one_task, from its reads to its commit: the event goes where it    *)
(* belongs and its old one away, or all go away.                           *)
(***************************************************************************)
Put(t, k) ==
  LET old == copies[t].calendar
      sent == [events EXCEPT ![t][k] = scheduled[t].payload]
  IN /\ events' = IF old # k THEN Drop(sent, t, old) ELSE sent
     /\ \E id \in IF Copied(t) THEN {copies[t].id} ELSE FreeId :
          copies' = [copies EXCEPT ![t] =
            [calendar |-> k, payload |-> scheduled[t].payload, owned |-> TRUE, id |-> id]]
     /\ routes' = [routes EXCEPT ![scheduled[t].category] = k]
     /\ calendars' = [calendars EXCEPT ![k] = scheduled[t].category]
     /\ trace' = [trace EXCEPT !.loose = @ \ {<<t, k>>, <<t, old>>}]

Withdraw(ts, history) ==
  LET gone == {<<t, copies[t].calendar>> : t \in ts}
  IN /\ events' = [t \in TaskId |-> IF t \in ts THEN Drop(events, t, copies[t].calendar)[t]
                                    ELSE events[t]]
     /\ copies' = [t \in TaskId |-> IF t \in ts THEN NoCopy ELSE copies[t]]
     /\ trace' = [history EXCEPT !.loose = @ \ gone]
     /\ UNCHANGED <<routes, calendars>>

SyncOne(t) ==
  \/ /\ Eligible(t)
     /\ \E k \in Routed(scheduled[t].category) : calendars[k] # "deleted" /\ Put(t, k)
  \/ ~Eligible(t) /\ Withdraw({t}, trace)

\* The calendar was deleted in Google: the event is refused, for good.
Unroutable(t) ==
  Eligible(t) /\ \E k \in Routed(scheduled[t].category) : calendars[k] = "deleted"
-----------------------------------------------------------------------------
(* The jobs of a task.                                                     *)

RunUpsert(t) ==
  /\ batch.phase = "idle" /\ t \in jobs.upserts
  /\ jobs' = [jobs EXCEPT !.upserts = @ \ {t}]
  /\ \/ scheduled[t].state = "live" /\ SyncOne(t) /\ UNCHANGED credit
     \/ /\ scheduled[t].state = "gone"
        /\ UNCHANGED <<routes, googleVars, copies, credit, trace>>
     \/ /\ Unroutable(t)
        /\ trace' = Forget(trace, {t})
        /\ UNCHANGED <<routes, googleVars, copies, credit>>
     \/ /\ Fault
        /\ trace' = Forget(trace, {t})
        /\ UNCHANGED <<routes, googleVars, copies>>
  /\ UNCHANGED <<userVars, passes, batch, batchSize>>

\* The rows of the task, or of all the tasks that are gone; whether the task is
\* eligible by now is not looked at.
RunDelete(d) ==
  LET live == d # Orphans /\ scheduled[d].state = "live"
      ts == {t \in TaskId : Copied(t) /\ (IF live THEN t = d ELSE ~copies[t].owned)}
  IN /\ batch.phase = "idle" /\ d \in jobs.deletes
     /\ jobs' = [jobs EXCEPT !.deletes = @ \ {d}]
     /\ \/ /\ Withdraw(ts, Forget(trace, {t \in ts : Eligible(t)}))
           /\ UNCHANGED credit
        \/ /\ Fault
           /\ trace' = Forget(trace, {t \in TaskId : t = d \/ scheduled[t].state = "gone"})
           /\ UNCHANGED <<routes, googleVars, copies>>
     /\ UNCHANGED <<userVars, passes, batch, batchSize>>
-----------------------------------------------------------------------------
(* A run of a pass: its start.                                             *)

ClaimPass(p) ==
  /\ batch.phase = "idle" /\ passes[p].open
  /\ batch' = [NoBatch EXCEPT !.phase = "claimed", !.pass = p, !.at = passes[p].at,
                              !.last = passes[p].last]
  /\ trace' = IF passes[p] = Opened THEN [trace EXCEPT !.covers[p] = TaskId] ELSE trace
  /\ UNCHANGED <<userVars, routes, googleVars, copies, jobs, passes, batchSize, credit>>

Vanished == {c \in Category : routes[c] # 0 /\ calendars[routes[c]] = "deleted"}

\* ensure_category_calendar_mappings takes no lock.
RecreateCalendars ==
  /\ batch.phase = "claimed"
  /\ \E fix \in [Vanished -> Calendar] :
       /\ \A c \in Vanished : fix[c] \in (IF Named(c) # {} THEN Named(c) ELSE Unused)
       /\ IsInjective(fix)
       /\ calendars' = [k \in Calendar |-> IF \E c \in Vanished : fix[c] = k
                                           THEN CHOOSE c \in Vanished : fix[c] = k
                                           ELSE calendars[k]]
       /\ batch' = [batch EXCEPT !.phase = IF Vanished = {} THEN "reading" ELSE "recreated",
                                 !.fix = fix]
  /\ UNCHANGED <<userVars, routes, events, copies, jobs, passes, batchSize, credit, trace>>

RowsRemain == \A c \in DOMAIN batch.fix : routes[c] # 0

CommitCalendars ==
  /\ batch.phase = "recreated" /\ RowsRemain
  /\ routes' = [c \in Category |-> IF c \in DOMAIN batch.fix THEN batch.fix[c]
                                   ELSE routes[c]]
  /\ batch' = [batch EXCEPT !.phase = "reading", !.fix = <<>>]
  /\ UNCHANGED <<userVars, googleVars, copies, jobs, passes, batchSize, credit, trace>>
-----------------------------------------------------------------------------
(***************************************************************************)
(* A batch of mirrors whose events are to go: their tasks are gone or not  *)
(* eligible.  The rows of calendars that no category has are dropped, and  *)
(* nothing is asked of Google for them.  When none is left the same run    *)
(* goes on with the tasks.                                                 *)
(***************************************************************************)
\* mutant: the eligible tasks are not taken out of the mirrors to delete.
AfterIdAnyTask(last) == {t \in TaskId : Copied(t) /\ copies[t].id > last}

AfterId(last) ==
  {t \in TaskId : /\ Copied(t) /\ copies[t].id > last
                  /\ ~copies[t].owned \/ ~Eligible(t)}

\* The first batch_size of those that are due, by the rank they are sorted by; and the
\* rank of the last of them.
FirstOf(due, rank) ==
  {some \in SUBSET due :
     /\ Cardinality(some) = IF Cardinality(due) < batchSize THEN Cardinality(due)
                                                         ELSE batchSize
     /\ \A s \in some, t \in due \ some : rank[s] < rank[t]}

LastOf(members, rank) ==
  {rank[s] : s \in {r \in members : \A t \in members : rank[t] <= rank[r]}}

ReadMirrors ==
  LET due == AfterId(batch.last)
      ids == [t \in TaskId |-> copies[t].id]
      managed(t) == Active = {} \/ copies[t].calendar \in Active
  IN /\ batch.phase = "reading" /\ batch.at = "delete"
     /\ \/ due = {} /\ batch' = [batch EXCEPT !.at = "upsert", !.last = 0]
        \/ \E members \in FirstOf(due, ids) : \E last \in LastOf(members, ids) :
             batch' = [batch EXCEPT !.phase = "removing",
               !.ops = {[task |-> t, key |-> IF copies[t].owned THEN t ELSE Orphans,
                         calendar |-> copies[t].calendar] : t \in {r \in members : managed(r)}},
               !.tidy = {t \in members : ~managed(t)},
               !.next = IF members # due
                        THEN [open |-> TRUE, at |-> "delete", last |-> last]
                        ELSE [open |-> TRUE, at |-> "upsert", last |-> 0]]
     /\ UNCHANGED <<userVars, routes, googleVars, copies, jobs, passes, batchSize, credit,
                    trace>>

\* Each deletion is answered by itself; one that found nothing counts as done.
SendDeletes ==
  /\ batch.phase = "removing"
  /\ \E done \in SUBSET batch.ops :
       /\ \/ done = batch.ops /\ UNCHANGED credit
          \/ done # batch.ops /\ Fault
       /\ events' = [t \in TaskId |-> [k \in Calendar |->
            IF \E o \in done : o.task = t /\ o.calendar = k THEN NoEvent ELSE events[t][k]]]
       /\ trace' = [trace EXCEPT !.loose = @ \ {<<o.task, o.calendar>> : o \in done}]
       /\ batch' = [batch EXCEPT !.phase = "removed", !.done = done]
  /\ UNCHANGED <<userVars, routes, calendars, copies, jobs, passes, batchSize>>

\* A job cannot be added for a task that is gone by now.
Accepted(keys) == \A t \in keys \ {Orphans} : scheduled[t].state = "live"

Undone == batch.ops \ batch.done

\* The batch is committed; the worker has still to write the position of the pass.
Committed == [NoBatch EXCEPT !.phase = "committed", !.pass = batch.pass, !.next = batch.next]

CommitDeletes ==
  LET dropped == {o.task : o \in batch.done} \cup batch.tidy
      keys == {o.key : o \in Undone}
  IN /\ batch.phase = "removed" /\ Accepted(keys)
     /\ copies' = [t \in TaskId |-> IF t \in dropped THEN NoCopy ELSE copies[t]]
     /\ jobs' = [jobs EXCEPT !.deletes = @ \cup keys]
     /\ trace' = [trace EXCEPT !.loose = @ \cup
          {<<t, copies[t].calendar>> : t \in {r \in batch.tidy :
                                       events[r][copies[r].calendar] # NoEvent}}]
     /\ batch' = IF batch.next.at = "upsert"
                 THEN [NoBatch EXCEPT !.phase = "reading", !.pass = batch.pass, !.at = "upsert"]
                 ELSE Committed
     /\ UNCHANGED <<userVars, routes, googleVars, passes, batchSize, credit>>
-----------------------------------------------------------------------------
(***************************************************************************)
(* A batch of eligible tasks.  Each is routed to its calendar under the    *)
(* lock of its category, which lasts until the next commit.  The commit    *)
(* that a new calendar brings makes the tasks be read again when they are  *)
(* used next; what is eligible is not looked at again.                     *)
(***************************************************************************)
\* The run returns with the position next; a pass that is complete makes good for
\* what was missed before it began.
Return(next, history) ==
  /\ batch' = NoBatch
  /\ passes' = [passes EXCEPT ![batch.pass] = next]
  /\ trace' = IF next.open THEN history
              ELSE [history EXCEPT !.missed = @ \ trace.covers[batch.pass]]

\* mutant: the task at the position is read again.
DueTasksAgain == {t \in TaskId : Eligible(t) /\ t >= batch.last}

DueTasks == {t \in TaskId : Eligible(t) /\ t > batch.last}

ReadTasks ==
  LET ids == [t \in TaskId |-> t]
  IN /\ batch.phase = "reading" /\ batch.at = "upsert" /\ DueTasks # {}
     /\ \E members \in FirstOf(DueTasks, ids) : \E last \in LastOf(members, ids) :
          batch' = [NoBatch EXCEPT !.phase = "routing", !.pass = batch.pass, !.at = "upsert",
            !.last = batch.last, !.todo = members, !.members = members,
            !.seen = [t \in members |->
              [category |-> scheduled[t].category, payload |-> scheduled[t].payload]],
            !.next = IF members # DueTasks
                     THEN [open |-> TRUE, at |-> "upsert", last |-> last] ELSE Closed]
     /\ UNCHANGED <<userVars, routes, googleVars, copies, jobs, passes, batchSize, credit,
                    trace>>

NoTasksLeft ==
  /\ batch.phase = "reading" /\ batch.at = "upsert" /\ DueTasks = {}
  /\ Return(Closed, trace)
  /\ UNCHANGED <<userVars, routes, googleVars, copies, jobs, batchSize, credit>>

\* mutant: an event that has its row is only verified, whatever its payload.
AskedToVerify(t, k, payload) ==
  [task |-> t, calendar |-> k, payload |-> payload, old |-> copies[t].calendar,
   kind |-> IF copies[t].calendar # k THEN "create" ELSE "verify"]

\* What the batch asks for task t in calendar k.
Asked(t, k, payload) ==
  [task |-> t, calendar |-> k, payload |-> payload, old |-> copies[t].calendar,
   kind |-> IF copies[t].calendar # k THEN "create"
            ELSE IF copies[t].payload = payload THEN "verify" ELSE "update"]

\* The tasks of a batch are taken in the order of their ids.
Foremost == {t \in batch.todo : \A s \in batch.todo : t <= s}

Readable(t) == ~batch.expired \/ scheduled[t].state = "live"

RouteTask ==
  /\ batch.phase = "routing"
  /\ \E t \in Foremost :
       LET row == IF batch.expired THEN scheduled[t] ELSE batch.seen[t]
           c == row.category
           routed == [batch EXCEPT !.todo = @ \ {t}]
       IN /\ Readable(t)
          /\ IF c # NoCategory /\ categories[c] = "synced"
             THEN \E k \in Routed(c) :
                    LET created == routes[c] = 0
                        payload == IF created THEN scheduled[t].payload ELSE row.payload
                    IN /\ routes' = [routes EXCEPT ![c] = k]
                       /\ calendars' = IF created THEN [calendars EXCEPT ![k] = c]
                                       ELSE calendars
                       /\ batch' = [routed EXCEPT !.ops = @ \cup {Asked(t, k, payload)},
                                      !.phase = IF created /\ scheduled[t].state = "gone"
                                                THEN "broken" ELSE @,
                                      !.expired = @ \/ created,
                                      !.locked = IF created THEN {} ELSE @ \cup {c}]
             ELSE /\ batch' = IF c # NoCategory /\ categories[c] = "local"
                              THEN [routed EXCEPT !.locked = @ \cup {c}] ELSE routed
                  /\ UNCHANGED <<routes, calendars>>
  /\ UNCHANGED <<userVars, events, copies, jobs, passes, batchSize, credit, trace>>

OneByOne == [batch EXCEPT !.phase = "single", !.todo = batch.members, !.seen = <<>>,
                          !.expired = FALSE, !.locked = {}, !.ops = {}]

\* Events of several calendars: rolled back, and each task is synced by itself.
SplitBatch ==
  /\ batch.phase = "routing" /\ batch.todo = {}
  /\ Cardinality({o.calendar : o \in batch.ops}) > 1
  /\ batch' = OneByOne
  /\ UNCHANGED <<userVars, routes, googleVars, copies, jobs, passes, batchSize, credit,
                 trace>>

\* The whole batch was refused as such (400).
RefuseBatch ==
  /\ batch.phase = "routing" /\ batch.todo = {}
  /\ Cardinality({o.calendar : o \in batch.ops}) = 1
  /\ Fault
  /\ batch' = OneByOne
  /\ UNCHANGED <<userVars, routes, googleVars, copies, jobs, passes, batchSize, trace>>

Answerable(o) ==
  /\ calendars[o.calendar] # "deleted"
  /\ (o.kind = "create") = (events[o.task][o.calendar] = NoEvent)

SendBatch ==
  /\ batch.phase = "routing" /\ batch.todo = {}
  /\ Cardinality({o.calendar : o \in batch.ops}) <= 1
  /\ \E done \in SUBSET {o \in batch.ops : Answerable(o)} :
       LET sent == {o \in done : o.kind # "verify"}
           shows == {<<o.task, o.calendar>> : o \in sent}
       IN /\ \/ done = {o \in batch.ops : Answerable(o)} /\ UNCHANGED credit
             \/ done # {o \in batch.ops : Answerable(o)} /\ Fault
          /\ events' = [t \in TaskId |-> [k \in Calendar |->
               IF <<t, k>> \in shows
               THEN (CHOOSE o \in sent : o.task = t).payload ELSE events[t][k]]]
          /\ batch' = [batch EXCEPT !.phase = "answered", !.done = done, !.seen = <<>>,
                         !.expired = FALSE,
                         !.tidy = {o.task : o \in {p \in sent :
                                     p.old \notin {0, p.calendar}}}]
          /\ trace' = [trace EXCEPT !.loose = @ \cup shows]
  /\ UNCHANGED <<userVars, routes, calendars, copies, jobs, passes, batchSize>>

\* The event in the calendar that the task has left.
TidyOne ==
  /\ batch.phase = "answered"
  /\ \E t \in batch.tidy :
       /\ events' = Drop(events, t, copies[t].calendar)
       /\ trace' = [trace EXCEPT !.loose = @ \ {<<t, copies[t].calendar>>}]
       /\ batch' = [batch EXCEPT !.tidy = @ \ {t}]
  /\ UNCHANGED <<userVars, routes, calendars, copies, jobs, passes, batchSize, credit>>

\* A row for a new event needs its task, and so do the jobs that are to repair
\* what was answered with 404, 409 or "later".
Insertable ==
  /\ Accepted({o.task : o \in Undone})
  /\ Accepted({o.task : o \in {p \in batch.done : p.kind = "create" /\ p.old = 0}})

CommitBatch ==
  LET sent == {o \in batch.done : o.kind # "verify"}
      made(t) == CHOOSE o \in sent : o.task = t
      written == {o.task : o \in sent}
      new == {t \in written : ~Copied(t)}
  IN /\ batch.phase = "answered" /\ batch.tidy = {} /\ Insertable
     /\ \E id \in [new -> FreeId] :
          /\ IsInjective(id)
          /\ copies' = [t \in TaskId |->
               IF t \in new
               THEN [calendar |-> made(t).calendar, payload |-> made(t).payload,
                     owned |-> TRUE, id |-> id[t]]
               ELSE IF t \in written
               THEN [copies[t] EXCEPT !.calendar = made(t).calendar,
                                      !.payload = made(t).payload]
               ELSE copies[t]]
     /\ jobs' = [jobs EXCEPT !.upserts = @ \cup {o.task : o \in Undone}]
     /\ trace' = [trace EXCEPT !.loose = @ \ {<<o.task, o.calendar>> : o \in
          {p \in sent : events[p.task][p.calendar] = p.payload}}]
     /\ batch' = Committed
     /\ UNCHANGED <<userVars, routes, googleVars, passes, batchSize, credit>>

\* sync_one_task commits task by task.
SyncSingle ==
  /\ batch.phase = "single"
  /\ \E t \in Foremost :
       /\ scheduled[t].state = "live"
       /\ SyncOne(t)
       /\ batch' = [batch EXCEPT !.todo = @ \ {t}]
  /\ UNCHANGED <<userVars, jobs, passes, batchSize, credit>>

\* mark_job_pending with the next position, or mark_job_done: a commit of its own, and
\* a run that does not get to it is made again from the position it began at.
FinishBatch ==
  /\ \/ batch.phase = "committed"
     \/ batch.phase = "single" /\ batch.todo = {}
  /\ Return(batch.next, trace)
  /\ UNCHANGED <<userVars, routes, googleVars, copies, jobs, batchSize, credit>>
-----------------------------------------------------------------------------
(***************************************************************************)
(* The run raises, is rolled back and tried again from the position of the *)
(* last one, unless it has to be given up.  A crash comes to the same, when*)
(* the lease of the job is over.                                           *)
(***************************************************************************)
Raises ==
  \/ batch.phase = "recreated" /\ ~RowsRemain
  \/ batch.phase = "removed" /\ ~Accepted({o.key : o \in Undone})
  \/ batch.phase = "routing" /\ \E t \in Foremost : ~Readable(t)
  \/ batch.phase = "broken"
  \/ batch.phase = "answered" /\ batch.tidy = {} /\ ~Insertable
  \/ batch.phase = "single" /\ \E t \in Foremost : scheduled[t].state = "gone"

Refused ==
  batch.phase = "single" /\ \E t \in Foremost : Unroutable(t)

RetryBatch ==
  /\ batch.phase # "idle"
  /\ \/ Raises /\ UNCHANGED credit
     \/ ~Raises /\ Fault
  /\ batch' = NoBatch
  /\ UNCHANGED <<userVars, routes, googleVars, copies, jobs, passes, batchSize, trace>>

PassDies ==
  /\ batch.phase # "idle"
  /\ \/ Refused /\ UNCHANGED credit
     \/ ~Refused /\ Fault
  /\ batch' = NoBatch
  /\ passes' = [passes EXCEPT ![batch.pass] = Closed]
  /\ trace' = Forget(trace, TaskId)
  /\ UNCHANGED <<userVars, routes, googleVars, copies, jobs, batchSize>>
-----------------------------------------------------------------------------
BatchStep ==
  \/ RecreateCalendars \/ CommitCalendars \/ ReadMirrors \/ SendDeletes \/ CommitDeletes
  \/ ReadTasks \/ NoTasksLeft \/ RouteTask \/ SplitBatch \/ RefuseBatch \/ SendBatch
  \/ TidyOne \/ CommitBatch \/ SyncSingle \/ FinishBatch \/ RetryBatch \/ PassDies

JobStep ==
  \/ \E t \in TaskId : RunUpsert(t)
  \/ \E d \in TaskId \cup {Orphans} : RunDelete(d)
  \/ \E p \in Pass : ClaimPass(p)

UserStep ==
  \/ \E t \in TaskId : \/ SaveTask(t) \/ RemoveTask(t)
                        \/ \E k \in Calendar : TouchEvent(t, k)
  \/ \E c \in Category : SwitchCategory(c) \/ DropCategory(c) \/ AddCategory(c)
  \/ \E p \in Pass : AskForPass(p)
  \/ \E k \in Calendar : DeleteCalendar(k)

BatchNext == BatchStep \/ JobStep \/ UserStep

BatchSpec == BatchInit /\ [][BatchNext]_batchVars

\* process_available_jobs claims one job after the other.
BatchFairness == WF_batchVars(BatchStep \/ JobStep)
-----------------------------------------------------------------------------
\* The tables, the progress of the jobs and the run under way keep their types.
BatchTypeOK ==
  /\ scheduled \in [TaskId -> [state: {"live", "gone"}, active: BOOLEAN,
                               category: Category \cup {NoCategory}, payload: {1, 2}]]
  /\ categories \in [Category -> {"synced", "local", "deleted"}]
  /\ routes \in [Category -> Calendar \cup {0}]
  /\ calendars \in [Calendar -> Category \cup {"unused", "deleted"}]
  /\ events \in [TaskId -> [Calendar -> 0..3]]
  /\ copies \in [TaskId -> [calendar: Calendar \cup {0}, payload: 0..2, owned: BOOLEAN,
                            id: TaskId \cup {0}]]
  /\ jobs \in [upserts: SUBSET TaskId, deletes: SUBSET (TaskId \cup {Orphans})]
  /\ passes \in [Pass -> [open: BOOLEAN, at: {"delete", "upsert"}, last: TaskId \cup {0}]]
  /\ batch.phase \in {"idle", "claimed", "recreated", "reading", "removing", "removed",
                     "routing", "broken", "single", "answered", "committed"}
  /\ batch.pass \in Pass /\ batch.at \in {"delete", "upsert"}
  /\ batch.last \in TaskId \cup {0} /\ batch.todo \subseteq TaskId
  /\ batch.locked \subseteq Category /\ batch.tidy \subseteq TaskId
  /\ batch.done \subseteq batch.ops
  /\ trace.missed \subseteq TaskId
  /\ trace.covers \in [Pass -> SUBSET TaskId]
  /\ trace.loose \subseteq TaskId \X Calendar

Due(t) == Eligible(t) /\ routes[scheduled[t].category] # 0

(***************************************************************************)
(* When all jobs are over, Google shows every eligible task in the calendar*)
(* of its category, as it is, and no other; and the mirrors say so.        *)
(* Excepted are tasks with a change that slipped and no later pass (missed)*)
(* and events that no row records (loose).  Whatever was missed before a   *)
(* pass began is good when that pass is complete: it may have been several *)
(* runs, with edits, jobs and other passes in between, retries, calendars  *)
(* created again and batches that fell back to single tasks.               *)
(***************************************************************************)
Repaired ==
  batch.phase = "idle" /\ (\A p \in Pass : ~passes[p].open)
    /\ jobs.upserts = {} /\ jobs.deletes = {}
  => \A t \in TaskId \ trace.missed :
       LET k == IF Eligible(t) THEN routes[scheduled[t].category] ELSE 0
       IN /\ Eligible(t) => k # 0 /\ copies[t].payload = scheduled[t].payload
          /\ copies[t].calendar = k
          /\ \A j \in Calendar :
               \/ <<t, j>> \in trace.loose
               \/ events[t][j] = IF j = k THEN scheduled[t].payload ELSE NoEvent

(***************************************************************************)
(* An event that is wanted is taken away only if some open job is going to *)
(* put it back: a batch that has read a task as one to remove may send the *)
(* deletion when the task is wanted again.                                 *)
(***************************************************************************)
WantedRestored ==
  [][\A t \in TaskId :
       LET k == routes[scheduled[t].category]
       IN Due(t) /\ events[t][k] # NoEvent /\ events'[t][k] = NoEvent
            => \/ t \in jobs'.upserts \cup trace'.missed
               \/ \E p \in Pass : passes'[p] = Opened]_batchVars

(***************************************************************************)
(* Every pass ends, whatever its batches find: the position moves past     *)
(* what was scanned, also past tasks and mirrors that needed no request.   *)
(***************************************************************************)
PassesEnd == \A p \in Pass : passes[p].open ~> ~passes[p].open
=============================================================================
