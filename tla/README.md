# TaskCalendar: a TLA+ model of its queues, its mirrors and its page

TaskCalendar is a self-hosted calendar and to-do application: a FastAPI backend
over PostgreSQL, a React front end, a worker process that mirrors tasks into
Google Calendar, and a worker thread that posts Discord reminders and a daily
digest.  Most of its code is plain request handling.  What is hard to get right
is the rest: jobs that live longer than a request, three parties (database,
worker, external service) that change in separate steps, leases, retries, and a
page that keeps a copy of the data and dozens of requests, dialogs and panels
alive side by side.  These parts are modelled here.

Source paths are relative to `src/backend/app/` unless they say otherwise.

## Inventory

| Component | State | Operations | Talks to | What makes it correct |
|---|---|---|---|---|
| Outbox queue, `google_calendar/outbox.py` | table `google_sync_outbox`: status, attempts, available_at, lock, progress_state | enqueue (insert or fold into an open row), claim, done, pending, failed | filled in the transactions of the task, list and connection services; emptied by the worker | one run at a time, bounded retries, no change without a job, every job ends |
| Sync worker, `google_calendar/worker.py` | worker_id, time of the last periodic enqueue | poll, claim, dispatch, classify the error, write the outcome | outbox, mirror service, connection | survives every error and crash; outcome written once |
| Mirror service, `google_calendar/service.py` (706-974, 1541-1681) | tables `google_event_mirrors`, `google_category_calendars` | sync one task, delete mirrors, create calendars lazily | Google over HTTP, row lock on `task_lists` | one event per eligible task, in the calendar of its category, and no other |
| Reconciliation, `service.py` (362-417, 545-703, 1050-1492) | cursor in progress_state | batches of deletions, then of upserts; single-task fallback | Google batch endpoint | same as above for all tasks of a user; the cursor skips nothing |
| Connection and OAuth, `service.py` (149-287, 1742-1833) | `google_calendar_connections`, `google_oauth_states` | connect, callback, disconnect, error status | Google token endpoint, every job | a state is used once; no writing after a disconnect |
| Google client, `google_calendar/client.py` | none | HTTP and multipart batches | Google | parsing |
| Digest queue, `tasks/daily_notifications.py` | table `daily_todo_notifications` | scan and create, claim, five ways to close | settings, delivery | one digest per user and date, fenced by locked_by |
| Digest delivery, `tasks/daily_todo_delivery.py` | one run | prepare, post outside of a transaction, finalize | digest queue, Discord | no post after cancellation, no lost failure |
| Digest text, `tasks/daily_todo_digest.py` | none | select, group, shorten | tasks | pure |
| Notification worker, `tasks/notifications.py` | a daemon thread of `main.py`; `notification_sent_at` of a task | reminders, then digest scan, then digest delivery | Discord | a reminder is posted once and never for the wrong time |
| Task service, `tasks/service.py` | `scheduled_tasks` | create, update, complete, delete, series | outbox | a series stays one series; reminder reset |
| Recurrence, `tasks/recurrence.py` | none | expand a rule | task service | pure |
| Task lists, `task_lists/service.py` | `task_lists` | create, update, delete | outbox, mirrors | events of a deleted list go away |
| Settings, `app_settings/service.py` | `app_settings`, created on first read | read, update | digest, reminders | validation |
| Accounts, `auth/`, `admin/` | `users` | register (first user is admin), login, delete | all tables | there is always one admin |
| Backup, `backup/service.py` | none | export, all-or-nothing import | tasks, lists, settings | ids stay consistent |
| Front end task store, `src/frontend/src/App.tsx` (1341-1622, 2041-2216, 2420-3088, 9729-9824) | tasks and their status, locally updated tasks, undo, token | refresh, poll, optimistic change, merge, undo, logout, expired token | API | a late answer never undoes a newer change; the page settles on what the server holds |
| Front end order of tasks without a time, `App.tsx` (3090-3420, 9826-9905) | local order, queued save, drag in progress | drag, move by button, save loop, reconcile | `unscheduled_order` of the tasks | what is shown is what is stored |
| Front end task panel and dialogs, `App.tsx` (1283-1338, 1800-2420, 2600-3060) | panel mode, selected task, draft, pending edit and deletion, menus | open, edit, submit, drag, choose a scope, close | task store, calendar | a draft is saved to its own task; no refused move stays drawn |
| Front end settings and accounts, `App.tsx` (688-1197, 1402-1532, 4059-4378, 4698-6120) | open view, preferences, webhook draft, connection, flags | open, close, save, test, connect, import, delete | settings, auth, Google and backup APIs | nothing irrevocable unconfirmed; no button stays disabled |
| Front end calendar and preferences, API, PWA worker, scripts | none | rendering, gestures, HTTP wrappers, cache, start-up | | |

`PROJECT.json` lists the same components with their status, and, under
`hazards`, each place where this code can go wrong in a way that a test would
hardly reach, with the properties that watch it.

How they interact: an API request changes tasks and inserts (or folds into) an
outbox row in one transaction.  The worker claims one row at a time with
`FOR UPDATE SKIP LOCKED`, commits the claim, and then runs the job in other
transactions, in the middle of which it calls Google.  Deleting a task sets
foreign keys of its outbox rows and mirrors to null.  The digest queue has the
same shape, but counts an attempt when it is claimed and writes an outcome only
if the row is still locked by the writer; the outbox does neither.  The two
queues are modelled apart because of these differences.  The page knows nothing of
either: it lists the tasks, sends changes, and has to cope with answers that come
in any order, into views and sessions that are not the ones that asked.

## Modules

| Module | Models |
|---|---|
| `OutboxQueue` | the statements of `outbox.py` as operators on a row or table; no state |
| `Outbox` | requests, workers and the queue; what a job sends is abstracted to numbered units |
| `MirrorSync` | one task job from inside, over the same `OutboxQueue`: tasks, mirrors, calendars, category locks, Google |
| `ReconcileBatch` | reconciliations as batches, beside task jobs (one step each), categories, and the user in Google |
| `DigestLedger` | abstract: what the digest table promises |
| `DailyTodo` | the digest queue and delivery; refines `DigestLedger` |
| `Reminders` | the sweep that posts and marks the reminders of single tasks, beside the user |
| `AppIds` | the ids the parts of the page share |
| `TaskStore` | the page's copy of the tasks, beside the server and other devices |
| `UnscheduledOrder` | the order of the tasks without a time: drags, saves, listings |
| `DetailPanel` | the task panel, its dialogs, menus and requests |
| `SettingsPanels` | the views of the settings and the requests behind them |
| `MCOutbox`, `MCReconcile`, `MCWorkers`, `MCMirrorSync`, `MCDailyTodo`, `MCPageTasks`, `MCPageViews` | values of the constants and symmetry sets for TLC |
| `OutboxQueueProofs`, `OutboxProofs` | TLAPS proofs about rows of the queue, and about the queue |
| `MirrorSyncProofs`, `MirrorConvergence` | about the mirrors |
| `ReconcileProofs` | about the reconciliations |
| `NotificationProofs` | about digests and reminders |
| `PageTasksProofs`, `PageViewsProofs` | about the store and the order; about the panel and the settings |

### Time

The code only ever compares instants with the clock, so instants are kept
relative to now: how long a row still waits (`waitTime`, `due`), for how long it
has been locked (`lockAge`, `held`).  `Tick` lets one unit pass.  In `Outbox` a
wait ends at 0 and an age at `Lease`, where nothing further can be told apart.
In `DailyTodo` a worker keeps the `now_utc` with which its loop began
(`daily_todo_delivery.py:77`), so `lag` is the age of that value, and instants
are told apart up to the bound `Horizon`.

### OutboxQueue and Outbox

A row has the columns that decide something.  `FoldRow` is what a folded enqueue
really writes: only `available_at`, and only if it was in the future when read.
`EnqueueSelect` and `EnqueueCommit` are two steps because the SELECT of an open
row takes no lock and the transaction commits later.  `Finish` and `Fail` write
the row whoever holds it, as `mark_job_done` and `mark_job_failed` do.

A job visits units: a task job one, a reconciliation one for each batch, with
`progress` between two runs.  `changes` counts what was committed for a unit,
`google` is the last count sent; the difference is what still has to be carried.

`lapses` is a history variable.  The code does lose changes in three ways, and
the properties name them instead of hiding them: `late` (folded into a row that
no run will read again), `doubled` (two requests inserted a row for one key,
`idempotency_key` has no unique constraint) and `overran` (a claim outlived its
lease and the row was given to another worker).

### MirrorSync

A run goes through the phases

    claimed -> read -> (unmapped ->) found -> sent (-> cleaned) -> saved -> idle
    claimed -> removing -> saved -> idle

one phase for each point at which it commits, waits for a lock or calls Google,
so the user, the other worker, a failure or a crash can come in between.  The
FOR UPDATE lock of the category is held from `read` to the commit; creating a
calendar commits in the middle and gives it back (`service.py:971`), after which
the task is read again without a new look at its category or eligibility.
`DeleteTask` models the foreign keys: the delete job, inserted a moment before,
loses its task id too, so `delete_task_mirrors` selects every mirror without a
task.  `Admitted` is what the unique and foreign keys let through.

`history` names what a run is not protected from: `late`, `overran` as above;
`strays`, events whose run ended between the call to Google and its commit;
`hidden`, events a run removed on purpose; `crossed`, a delete run that began to
remove the mirror an upsert run of another worker was using.

Not in this module: calendars or events that the user removed in Google (the
404 paths, see `ReconcileBatch`), the connection, and the account that is deleted in the middle of a
run.  A category whose sync is switched off is the same as no category
(`NoList`): `get_task_calendar_id` returns None for both.  The lock that the code
holds on such a category while it removes the events is left out.

### ReconcileBatch

`Outbox` knows a reconciliation only as a job of several units.  Here it is seen from
inside, as `sync_reconcile_batch` (`service.py:362`) runs it:

    claimed -> (recreated ->) reading -> removing -> removed -> reading    deletions
                                                     removed -> committed  some left
    reading -> routing -> answered -> committed -> idle                    upserts
               routing -> single -> idle                                   one by one

`RecreateCalendars` and `CommitCalendars` are `ensure_category_calendar_mappings`.
`ReadMirrors`, `SendDeletes` and `CommitDeletes` are a batch of deletions; a batch
that leaves none behind goes on with the tasks in the same run.  `ReadTasks` reads the
eligible tasks after the position, `RouteTask` takes them one by one through
`get_task_calendar_id`, with the category's lock and, where the category has no
calendar, the commit that gives every lock back and makes later uses read the task
again.  `SendBatch` is the HTTP request, each part of which succeeds or not;
`TidyOne` is the deletion of a moved event, `CommitBatch` the commit with the jobs
for what was refused or is to be repaired.  `SplitBatch` and `RefuseBatch` lead to the
fallback, which syncs each task by itself.  The batch is committed by the service
(`service.py:1370`, `:1153`), the position of the pass only then by the worker
(`worker.py:195-216`): `FinishBatch` gives the row its position, or closes it, and a run
that crashes between the two makes its batch again.  `RetryBatch` is a run that raises
or crashes, `PassDies` one that is given up.  Each of them names only what the commits
before it left behind.

The user changes, completes, moves and deletes tasks; switches, deletes and creates
categories; asks for reconciliations; and, in Google, edits and deletes events and
whole calendars, of which nobody is told.  Jobs of tasks are one step each, as
`MirrorSync` looks inside them, and there is one worker, as the documentation
deploys it (`docs/docker-production.md:12`).  Which job is claimed next is left
open, because a retry or a continuation that waits lets lower priorities through.

The tasks of a batch, sorted by id in the code, are the set of the first `batchSize`
ids (`FirstOf`, the border is `LastOf`), of which `RouteTask` and `SyncSingle` take
the least that is left (`Foremost`).

Data that is left out: a task's title and times (two payloads); several mirrors of
one task; names of categories; the cache of calendars in a run, which with one
worker never differs from the table it caches; the reads at the head of a batch of
deletions (tasks, calendars, mirrors) are one read.  An event that was deleted is
taken to be gone for Google (404 to whatever names it, and its id is free), as the
client's own handling of 404 does (`client.py:267`).

Three variables of `trace` name what the code does not promise.

- `missed`: a task with a change no open job is to carry - its job was given up,
  the change was folded into a reconciliation that had begun, it was made in Google, or
  a deletion that a batch could not get through came back as a `delete_task` job and
  took an event that is wanted again (`service.py:1404`).  A reconciliation claimed
  later and complete makes good for it: `Repaired` holds the code to that.
- `covers`: which of those a reconciliation under way is going to make good for.
- `loose`: events that show what no committed row records.  Events of a category that
  was deleted while another one has a calendar stay in Google, because their rows are
  dropped without a request (`service.py:1110`); the design notes want them deleted
  (`docs/google-calendar-category-routing.md:95`).  An event edited in Google is only
  verified, with a GET, as long as the task did not change (`service.py:1234`);
  `docs/google-calendar.md:181` says it is overwritten.  And a part of a batch that
  Google accepted is not recorded when another part makes the run raise, although
  `docs/google-calendar.md:198` says that successes are saved individually.

### DailyTodo and DigestLedger

`ScanRead` selects the enabled users and `ScanRecord` creates the missing rows
one transaction at a time; the unique constraint is the identity of a record.
`Claim` takes the oldest claimable row.  `Prepare`, `Send` and `Finalize` are the
three transactions or calls of `process_claimed_daily_notification`;
`StatementFails` follows its nested except clauses.  `Change` lets settings,
tasks, time zone and local date change at any moment, including backwards.

`DigestLedger` knows nothing of workers, locks or time: a digest is opened once,
tried under numbered attempts, each of which posts at most once, and closed once
("sent" only if a message was taken).  `LedgerKept` is its specification under
the mapping that forgets which of the open states a row is in.

### Reminders

`send_due_notifications` (`tasks/notifications.py:143`) selects the tasks that have a
reminder and no mark (`Selected`), and takes them one by one: `TakeTurn` reads the
instant and the webhook, `Post` and `PostMisses` are the call to Discord, `Mark` the
commit of `notification_sent_at`.  What a task has become since it was loaded is not
looked at; but the commit makes every loaded object expire, so that the tasks after it
are read again (`sweep.seen`, `sweep.hook`), and one that is gone by then ends the
sweep with an error (`Vanishes`).  Meanwhile the user saves, adds and deletes tasks and
sets the webhook.  `Rescheduled` is `reset_notification_sent_at_if_rescheduled`
(`tasks/service.py:537`), which takes the mark away.

An instant is the start of a task minus its offset.  Completed, switched off and sent
to another channel are one case (`wanted` is FALSE): the code treats them alike.  The
order of a sweep is left open.  A request that has read its task before `Mark` and
commits after it writes other columns, and counts as made before it.

`slips` names what the code does not promise.  `lost`: a task that keeps its mark while
its instant changes gets no reminder at the new one.  That happens when the sweep is
posting the old one, when only the offset is sent, when the schedule is taken away and
given back later, or when the task is completed at the time of the change.
`unrecorded`: a post whose answer or mark is lost in a failure or a restart is made
again.  `returned`: an unmarked task that is given a past instant again is reminded of
it again.

Not in this module: all-day tasks, whose reminder moves with the working hours
(the reset computes them with the default hours, `tasks/service.py:567`, and the sweep
with the user's), several users in one sweep, two backends at once, and tasks whose
marks come and go with a series or an import.

### TaskStore

A task is its version, the number of the server's write that produced it:
`updated_at` grows with every write and is the only field the merge compares
(`isTaskAtLeastAsFresh`, `App.tsx:9755`).  A request is sent, served and answered
in three steps, and any number of other steps comes between them; `load` holds
listings, `call` changes.  A call's `then` names what its handler does once its
`await` returns, and there is one action for every such continuation
(`MovedAnswered`, `PlacedAnswered`, `RemovedAnswered`, ...).  The handlers differ in
what they do there: some remember the answer as an echo (`locallyUpdatedTasksRef`),
some only reload, some clear or set the undo, and a failed order is the only
failure that reloads.  `Merged` and `EchoesAfter` are `mergeLocallyUpdatedTasks`.
The server's part (`ServerUpdates` and the like) is taken from
`tasks/service.py`, as far as it decides versions: a category's deletion writes its
tasks again, a backup brings tasks back as old as they were.

A session is a token.  Logging out, a refused request and a page load reset the
page (`ResetAppData`), but nothing recalls a request under way: an answer of an
earlier session is shown in the next one, and a 401 to a request of an earlier
session ends the present one.  The model keeps both.

`Masked` exempts what the code does not promise: an echo of a task that was
deleted, or replaced by an import, before the echo was taken stays listed until
the page is loaded again.

### UnscheduledOrder

A list of ids is modelled as the order it puts the rows in, the set of the pairs
`<<a, b>>` with `a` at or before `b`: no id occurs twice in the lists of the code, and
the index of an id (`Place`) is the number of the rows before it.  In this form what
the functions on lists do can be stated without recursion (`PutBehind`, `Swap`,
`reconcileTaskOrder`), and proved about.  `NoOrder`, which is no order, is an empty
queue.

`SaveLoop` is one turn of the loop of `persistUnscheduledOrder`.  The order of
things in `SaveAnswered` matters: `replaceTasksInState` asks React for a new state,
and the loop takes its next turn before React has rendered it, so it computes the
next patches from the copies of before the save.  A failed patch drops the local
order and lists the tasks again, while the other patches go on (`Promise.all`
rejects at the first failure); the effect at `App.tsx:1657` fills the order again from
the next list or the next answered save.  `lapses` names when a save is not the last word: a
move made during a save (`overlap`), a failed patch, a cancelled pointer, a task
that gets a time; `OrderReachesServer` speaks of behaviours without any of them,
`OrderPersists`, which fails, admits overlapping moves.

### DetailPanel

The state is one record, `panel`, because almost every handler sets several of its
fields at once.  `Settled` appends to every step the effects React runs after the
render: the draft is taken when another task is selected, dropped when the task is
no longer listed, and the panel closes when a settled list lacks its task.
`Unblocked` and `SidebarShown` are what the layout lets the user reach: a dialog
covers the page, the sidebar is hidden behind an open panel.  `moved` are the events
that the calendar draws where they were dragged; `Reverted` is what an open
question undoes when it is cancelled, closed or refused.

`Listings` is what an answer to a listing can hold: what has been there all along, and
of the tasks that came or went any, because it may have been overtaken by later changes
or have this page's changes merged into it.  That admits more lists than `TaskStore`,
which computes them, would give.  A listing can fail (`ListingFails`; a poll's failure
is silent), and any request can find the session expired (`SessionExpires`), which
empties the list and leaves the calendar.

Two history variables name what is not promised.  `cleared`: deleting from the
menu, or deleting a category, clears the selection while the panel still edits, and
the same task selected again has no form until the panel closes; nor has one that a
late listing lacked and the next one has again.  `lost`: the failure of one update
closes the dialog of another one without reverting its event, which stays where it was
dropped until the next listing; and a listing that fails leaves an event whose dialog
was closed with nothing else to put it right.

`ClosesPanel` names the answers that close whatever panel is open by the time they
come, or take its selection.  A form that was saved closes the panel
(`App.tsx:2189-2192`), so does a created task (`App.tsx:3676`) and a deletion
(`App.tsx:2119-2123`), although the user may have opened another task meanwhile.
What he has typed there is then lost, while its task is still listed.  Nothing in the
documentation promises otherwise, so `DraftKept` excepts these answers by name and is
about all the others.

### SettingsPanels

`Controls` is what each view offers, with its disabled buttons left out; the
requests are named for the flag that disables their button.  `Opened` is the
family of `open...Settings` functions with what each of them resets,
`AccountFormsReset` and `DataReset` are `resetAccountForms` and `resetAppData`.
`FlagOf` is what a `finally` clears; disconnecting, syncing and deleting a user go
on with a listing before their own flag is given back (`RequestContinued`).
`confirmed` is a history variable: what the user typed, chose or opened since he
opened the view.  `unsettled` notes that requests overlapped or failed, where the
page may go on showing an older answer.  The listing with which a synchronisation goes
on counts like any other request: after "sync; log out and in; disconnect" it can be
answered before the disconnection and be shown after it.

The start of the working hours is the one setting in which page and server may differ
for good.  The page stores its own hours when it is mounted (`App.tsx:1636-1638`), so
`hasStoredWorkingHours()` holds when the settings arrive and the server's start is not
taken (`App.tsx:1508`); the digest goes by the server's (`src/README.md:152`,
`src/docs/spec.md:105`).  `hoursSet` notes that they were set on this page, after which
both have the same; `SettingsAgree` compares the hours only then.

## Runs

| Run | Question | Bounds |
|---|---|---|
| `outbox_safety` | who runs a job, how often, and what is lost | 2 jobs, 2 keys (1 and 2 units), 2 workers, 2 requests, lease 2, 2 attempts, 2 changes, 1 crash; batches: 2 tasks, 2 categories, 3 calendars, batches of 1 or 2, up to 3 edits, 1 fault |
| `outbox_liveness` | does every job, and every reconciliation, end; what becomes of reminders | 1 job, 2 workers, lease 1, 2 changes, 1 crash; batches: the same, up to 2 edits and 1 fault; reminders: 2 tasks, 3 instants, with 1 save and 1 failure, or 1 task and 2 saves |
| `mirror_one` | one task through moves, completion and deletion | 1 worker, 2 categories (one without a calendar), 3 jobs, 3 changes, 2 attempts, 1 crash |
| `mirror_two` | two runs that cross | 2 workers, 2 tasks, 1 category without a calendar, 4 jobs, 1 change, 1 attempt |
| `mirror_live` | does every run end | 2 workers, 2 tasks, 1 category, 2 attempts |
| `daily_safety` | one digest, closed once, silent when closed, and closed in the end | 1 user, 1 date, 2 workers, lease 2, horizon 2, 2 attempts, 2 changes, 2 errors |
| `page_tasks` | does the page show and settle on the server's tasks; does an order reach the server | store: 2 tasks (1 still to be created), 2 listings, 2 changes under way, 2 events; order: 2 rows and 3 moves, 3 rows and 2 moves |
| `page_views` | what the panel, its dialogs and the settings do while requests are answered | panel: 3 tasks (1 of a series, 1 still to come), both layouts, 5 acts; settings: every view, 6 acts or failures |
| `outbox_mutation` | violation, see below | 1 worker, 1 request |
| `mirror_completed` | violation, see below | 1 worker, 1 task, 1 change |
| `daily_idempotent` | violation, see below | 2 workers, 1 error |
| `order_persists` | violation, see below | 3 rows, 2 moves |

`outbox_safety`, `page_tasks` and `page_views` each hold two models that share no
variable, `outbox_liveness` three.  The variable `part`, chosen at the start, says which
one a behaviour is about; the others stay as they began.  Every state of each model
alone is reached, and none of their product.

Why these bounds are enough to be interesting.  The properties of the outbox
speak of one key and at most two rows, two workers or two requests; the second
worker is the zombie or its successor.  Two changes make one that is carried and
one that comes late, two attempts make a retry and a death, a reconciliation of
two units has a passed unit and one to come.  In `mirror_one` three changes allow
"move, move back, complete" and every shorter history of an edit that meets a
failed run; one worker is the deployment that the documentation describes
(`docs/docker-production.md`).  `mirror_two` has the smallest configuration in
which runs of two tasks share a lock and a delete job meets an upsert job.  A
lease of 2 lets a run end in time or not, and a second row of a digest adds
nothing that a unique key does not separate.  `MaxChanges`, `MaxCrashes`,
`MaxErrors`, `MaxEdits`, `MaxFaults`, `Calendars`, `Horizon` and the sizes of `Job` and `Mirror` are bounds of the
models, not of the code.  Deadlock is not checked anywhere: with the budgets
spent and all jobs final the system has nothing to do.

A reconciliation of two tasks with a batch size of 1 has a task before its position
and one behind it, in both phases; with a batch size of 2 it has a batch that spans two
calendars, is answered in part, or has a member taken away.  Two categories make a
move, a deletion while the other one is active, and a calendar that has to be found
again.  `Scenes` lists the beginnings that are explored - all mirrored or nothing,
with a batch size, edits and faults - and `MCReconcile` drops those that differ only in
the names of categories and calendars.  Two edits and a fault, or three edits, are
enough for every exception that `trace` names to occur, and for a pass to make good
for it.

For the reminders, two tasks are what it takes for one post or its failure to touch
another task; three instants allow a task to be reminded of, rescheduled to a later
instant and reminded of again.  One save meets the sweep between any two of its steps;
two saves of one task go back and forth.  `MaxClock`, `MaxSaves` and `MaxMisses` bound
the model, and `Days` lists the beginnings.

For the page, two listings and two changes under way are what it takes for one
answer to overtake another of its kind and of the other; two events allow a change
here and one elsewhere, or a change and the end of a session.  A third row is what
makes a move renumber a row nobody touched, and three moves of two rows have a move
during a save with another one after it.  Five acts on the panel are enough to drag
an event of a series, leave its dialog and come back while the answer is out; six
in the settings to open a view, confirm, leave, open it again and confirm again.
`MaxEvents`, `MaxMoves`, `MaxActs`, `MaxTries` and `MaxListings` bound the models;
so do the sizes of `Load` and `Call`.

What the runs show:

- `ExclusiveRun`, `OneOpenRow`, `RetryBudget`, `FinalStays`: the queue keeps its
  order as long as no claim outlives its lease, and only then.
- `ChangesCarried`: a committed change that Google does not show is ahead of a
  run of an open job, or its job is dead, or it slipped in a way named above.
- `EventsTracked`, `NeverDark`, `Converged`, `WantedStays`: a run can stop after
  any statement and no event is forgotten other than a stray; a moved task is
  shown all the time; when the jobs are over every category shows the last
  version of what it should, apart from strays; nothing that is wanted is deleted.
- `Repaired`: when all jobs are over, Google shows every eligible task once, as it is
  and where it belongs, and the rows say the same; whatever was missed before a
  reconciliation began is good again when it is complete.  `WantedRestored`: no event
  that is wanted goes unless a job is going to bring it back.
- `LedgerKept`, `OneDigest`, `ClosedQuiet`: the fencing of the digest queue works;
  a second digest takes an outcome that was not written down or an overrun lease.
- `MarkedWasPosted`: failures, restarts and changes of other tasks never mark what was
  not posted; `RemindedOnce`: nor is anything posted twice, apart from `slips`;
  `DueReminded`: a task that fails or vanishes does not keep others from their reminder.
- `JobsSettle`, `RunsEnd`, `PassesEnd`, `DigestsSettle`: everything ends.
- `EchoShown`, `ConfirmedNotReverted`: a change that was answered is not taken back
  by a listing computed before it, however late that arrives; `StoreSettles`: once
  changes end, the page shows what the server holds, apart from masked echoes.
- `OrderReachesServer`, `NothingStranded`, `SavesEnd`: moves that are saved one
  after the other arrive complete, and no queued move is left without a save.
- `DraftOwn`, `DraftKept`: what is typed belongs to the task it is saved to, and
  survives what happens in the background as long as its task is listed, apart from the
  answers in `ClosesPanel`; `NoGhost`: an event stays drawn where it was dropped only
  while something will put it right, apart from `lost`.
- `Confirmed`: no word, file or dialog left over from an earlier visit deletes or
  replaces anything; `SettingsAgree`: the page shows the settings in use, but for
  working hours that were not set on it; `ButtonsReturn`: every flag is given back.

Four runs are expected to fail.  Each compares the code with a sentence of its
documentation and is described under `findings` in `PROJECT.json`:

- `outbox_mutation`: an edit committed after a run has read the task is folded
  into that run's row and has no job afterwards (`outbox.py:59`).
- `mirror_completed`: a run that fails between creating an event and committing
  its mirror, followed by the completion of the task, leaves the event in Google
  for good (`service.py:771`).
- `daily_idempotent`: a digest is posted twice if the outcome of a post is not
  recorded (`daily_todo_delivery.py:126`).
- `order_persists`: of two moves the second, made while the first is saved, is
  compared with the numbers of before the save, so that patches it needs are not
  sent and the server keeps another order than the page shows
  (`src/frontend/src/App.tsx:3106`).

`mutants` in `PROJECT.json` names, for every property of a passing run, a change
of the model that a plausible bug would make and that the run detects.

### Fairness

`FairSpec` of each module of the backend has weak fairness of each worker's steps
and of `Tick`.  It is justified by the worker loops, which poll until they are stopped
(`worker.py:51-75`, `tasks/notifications.py:47-51`), by the timeouts of every
HTTP call, and by time going on.  Users, failures and crashes are not fair:
nothing has to be requested, to fail or to crash.  The budget of crashes is what
keeps a job from being crashed for ever; for the outbox, where a crashed run
costs no attempt, this is a real assumption.  In `mirror_live` a worker that
waits for a lock is weakly fair only while the lock is free; the property holds
because the holder always gives it back and each worker has finitely many runs.

`BatchFairness` says that the worker goes on as long as there is a job; a user who holds
no lock is never waited for, so the fairness of one action, the worker's next step, is
enough.  That a reconciliation is not for ever overtaken by other jobs follows
from the budget of edits: the code ranks it lowest and has no aging.

In `WorkersFairSpec` the notification thread is weakly fair
(`tasks/notifications.py:47-51`); neither the clock nor the user has to move, and what
fails is bounded by `MaxMisses`.

`StoreFairness`, `OrderFairness` and `SettingsFairness` say that requests are
answered or fail, that the continuations of their handlers run, and that the poll's
interval (`App.tsx:1589`) ticks while the page is shown.  Nothing is asked of the
user: a view may stay open and a dialog unanswered for ever.

## Proofs

All theorems hold for every value of the constants that the named assumptions
allow (`QueueAssumption`, `OutboxAssumption`, `MirrorAssumption`, `BatchAssumption`,
`DailyAssumption`, `ReminderAssumption`, `IdsAssumption`, `StoreAssumption`,
`OrderAssumption`, `PanelAssumption`, `SettingsAssumption`): any number of jobs, workers,
tasks, calendars and requests under way, any budget of edits, crashes and failures.  TLC
evaluates each assumption in some run.

Every proof module is laid out alike: the parts of the inductive invariant, each with
what it says of the code; lemmas about the operators of the model; one lemma for each
action (or for actions that change the same); and the theorems.

`OutboxQueueProofs` has the lemmas on the row operators, what each statement of
`outbox.py` keeps of a row and of its type, which `Outbox` and `MirrorSync` share.

`OutboxProofs`.  None of the safety properties is inductive.  `Inductive` proves
`IInv`: `TypeOK`, `RetryBudget` and `OneOpenRow` together with `Placed` (a row in
use has a key and a unit left to visit, a busy worker is at a unit of a row in
use, the row a request found has the request's key) and `HolderOwns` (the row a
worker runs is "processing" and locked by that worker, unless a claim on its key
outlived its lease).  `HolderOwns` is the heart: two workers that run one row
would both be its `lockedBy`, which gives `Exclusive`; and an outcome is only
written by a worker whose row is "processing", so that no final row is written,
which gives `FinalIsFinal`.

`Durable` (`ChangesCarried`) needs all of that and three facts about a
run: it is at the unit after the row's `progress` (`PagesAgree`), what it has
read is still the last change (`ReadIsFresh`), and what it has sent is what
Google shows (`SentIsShown`), each unless the unit slipped.  Then closing the row,
or moving on to the next unit, drops no change, and an enqueue either adds a row
that will read the unit or records that it did not.

`MirrorSyncProofs`.  `Inv` is `QueueInv` (the types; the keys of the rows; what a worker
remembers fits its phase; a mirror is its task's; `HolderOwns` and `OneOpenRow` as in the
outbox), `Held` and the two properties `EventsTracked` and `NeverDark`.  That an event is
never forgotten, and that a task which moves is never dark, both rest on one run at a
time being at work on a task, which `HolderOwns` and `OneOpenRow` give as long as no
claim outlived its lease, and on what such a run has found staying as it was found.
`Held` says the latter, phase by phase: the mirror
it found is still there (`MirrorHeld`), what it sent is shown (`SentShows`), the old
event it removed is gone (`OldGone`), the mirrors a removal selected are its own
(`RemovalHeld`), and the category it goes for is the one the task has (`ReadAgrees`),
unless the task changed after it was read.  `WantedKept` follows from `ReadAgrees` and
`RemovalHeld`: the steps that delete an event do so where the task is not wanted.

`MirrorConvergence`.  `Converged` speaks of the moment when all jobs are over.  The
invariant says it of every moment: a task to which none of the named mishaps occurred is
shown as it should be (`Shaped`), or an open job whose run has not yet committed its work
will make it so (`Due`); that is `Carried`.  To close a job then means that its
task is `Shaped`, for which a run must work for the task of its row (`TargetsKept`,
`TasksKnown`), on its only mirror (`OneMirror`) or on all it has to remove (`TakesAll`),
with a version and a category that are still the task's (`UpToDate`).  When all jobs are
over none is `Due`.

`ReconcileProofs`.  `Repaired` is again a sentence about the end of things whose
invariant has to say what holds in the middle of a pass, at any border between batches
and at any point of a batch.  `BInv` has three parts.

- `Types`: the tables, and a run with the kind of requests its phase has.
- `Tables`: a pass is at a position that a run can have left (`Positions`); a mirror
  has an id of its own and its task (`Rows`); no task is in a deleted category
  (`Places`); Google shows what the mirrors say, less what was taken away, or what is
  loose (`Shows`); what a run that removes has read is what the mirrors say
  (`Deletions`); what a run that sends has asked for, one request a task, is loose
  until it is recorded (`Requests`).
- `Owing`: every task whose changes are promised (`Owed`) is `Carried`: it is right,
  or a job has it, or an open pass has still to come to it (`Treats`: it lies behind the
  position of the pass, by its own id or by its mirror's).  While a run is under way,
  which is to move that position, the task is also `Handled`: other jobs or passes have
  it, or it comes after what this run has read, or the run has read it as it still is
  and will ask for just that (`AsRead`).  And a task that changed after the run had read
  it is in the hands of a job or of a pass that starts anew (`Renewed`), because the
  request that changed it put it there.

The last part is what a page border could break: a task that is neither behind the
position nor right, with nobody to come back to it.  There is a lemma for each of the
steps of a run; `CommitBatch` and `CommitDeletes`, which replace `AsRead` by the tables,
are the long ones; `FinishBatch`, which only moves the position over tasks that are
`Handled` by then, is short.  With all passes and jobs over `Carried` leaves only "it is right",
which is `PassesRepair`.  `WantedComesBack` goes through the steps that take events
away: a sync of one task puts its event where it is wanted, a
removal in a batch belongs to a task that is not wanted or was `Renewed`, a job that
deletes hands on what is wanted again, and the rest is what the user does in Google.

`NotificationProofs`, the digests.  The invariant says that a worker at a record works under an
attempt that was counted, and two workers under different ones (`Leases`); that
messages belong to attempts, an attempt in phase "claimed" or "prepared" has
posted nothing and one about to be closed as "sent" has (`Messages`); that
without an overrun a worker holds its record (`HolderOwns`); and that a record
whose messages were all written down has at most one and is "sent" or about to
be (`PostedOnce`).  From it follow `OneDigestOnly`, `BoundedRetries` and
`QuietWhenClosed`; `Refines` shows that each step of the queue is a step of
`DigestLedger` or a stutter.

`NotificationProofs`, the reminders.  `MarkedWasPosted` needs to know what the sweep holds: it posts one
task at a time, which is unmarked (`SweepOK`), a mark follows a post (`MarkOK`), and what
it is going to post is the instant the task has, or the task is in `slips.lost`
(`HeldOK`).  `RemindedOnce` needs that whatever was posted is past (`PostedOK`) and that
what was posted is marked, about to be marked, or exempt (`OnceOK`): a mark that is
taken away gives a future instant, and a future instant was never posted.

`PageTasksProofs`.  `EchoShown` is inductive together with the types.  The step
that matters is the answer to a listing: `MergeLemma` says that what the merge lists
is at least as new as every echo, and that an echo that survives the merge is what
is listed.  `NeverReverted` follows from the lemma without any invariant but the
types; every other action lists the echo it records, or drops it.  `NoMoveStranded`
needs only that `saveState` is the record it began as (`Waiting`), which the loop keeps
whatever orders it saves.

`OrderReachesServer` too speaks of the end of things.  Its invariant, `Settles`, says
what holds on the way as long as nothing lapsed: the page's copies are of now or of
earlier, and one that is as new as the server's is the same (`Listings`); every list
has just the rows without a time (`Rowed`); the patches are those of the running save,
one a row, each of which asks for the place of its row or has got it (`Saving`); and a
number at the server is the place of its task, or a patch that makes it so is on its
way (`Ranked`).  The places meant are those in `Settling`, the order before the row
under the pointer was dragged.  The first lemmas say that each operation on a list
leaves an order of the right rows; `PlacesGrow` counts the rows before two rows, from
which it follows that tasks which carry their places as numbers are listed in that
order (`PlacesAreListed`).  `SaveSettles` is the step that matters: a save that starts
asks for every place that the server does not have, because with no save under way the
page's copies are the server's.  With an overlapping save they are not, which is where
`OrderPersists` fails.

`PageViewsProofs`, the panel.  `PanelInv` is `Typed`; `DraftIn`, a draft is there just
when its task is edited and listed, unless the panel has lost its form; `Reverts`, only
what was dragged on the calendar is put back; and `Covered`, what is drawn away from its place has a drop or an update that awaits
its answer, or a dialog that will put it back.  Since `Settled` appends the effects
of a render to every step, the lemmas about it come first: they say that the effects
establish `DraftIn` from less (`Ready`), so that an action need only show the part it
disturbs.  `DraftKept` follows from the same lemmas: what happens in the background, an
answer that is not in `ClosesPanel` (`AnswerPage`) or anything else (`BackgroundPage`),
hands the effects the draft as it was, and they leave the draft of a listed task alone.

`PageViewsProofs`, the settings.  `Confirmed` is not inductive: a word typed or a file
chosen in one view is still there after another view was opened.  `Remembered` says where
it counts: the word in the view that deletes the account, the file in the view that
imports, the dialogs wherever they are open, have been confirmed in this visit.
Opening a view forgets what its own button would send (`OpenedView`), an answer
leaves a page that remembers no more than before (`Narrower`), and the irrevocable
buttons are offered only where `Remembered` speaks (`WhereOffered`).  `PageAgrees` needs
`Accounted`: as long as nothing failed or overlapped, of the requests that may
clash at most one is under way (`Alone`), its answer carries what the server has now
(`Current`), and where the page differs from the server that request is the reason
(`AsStored`, `GoogleShown`, `UsersShown`); and `HoursShown`: hours that were set here are the server's or on their
way to it.  The attempt showed that the property, which
TLC had found true within its bound, was false beyond it, with a listing that overtakes
(see `SettingsPanels` above).

Only model-checked are the liveness properties (`JobsSettle`, `RunsEnd`, `PassesEnd`,
`DigestsSettle`, `DueReminded`, `StoreSettles`, `SavesEnd`, `ButtonsReturn`), as the
prover has no ENABLED.  Every other property of a passing run is a theorem.

The type invariants of `Outbox`, `DailyTodo`, `Reminders` and `SettingsPanels` are
proved and are in no run.

## Plan

1. Done: `Outbox`, `MirrorSync`, `ReconcileBatch`, `DailyTodo`, `Reminders`, and the
   page: `TaskStore`, `UnscheduledOrder`, `DetailPanel`, `SettingsPanels`, with their
   runs.  Proofs of every safety invariant and action property that a run checks, and of
   the refinement.
2. Several workers in `ReconcileBatch`: two runs that repair calendars at once
   (`service.py:1000`), a batch beside a task job.
3. `Connection`: OAuth state, disconnect in the middle of a run, error states.
4. `Accounts`, `TaskSeries`, `BackupImport`.
5. Pure operators checked against reference definitions: `Recurrence` (month ends,
   leap days), `RetryPolicy`, `DailyDigest` (selection and order).
6. Proofs of the safety invariants of 2 and 3 and lemmas about the operators of 5, where
   no recursion is involved.

Modules that concern one table or one page share runs, as those of the page do, and
safety and liveness are checked in one run where its size allows it, so that the
number of runs stays small.

## Not modelled

- The Google client: it builds and parses HTTP; its outcomes are the choices of
  `MirrorSync` and `ReconcileBatch`.
- Names and colors of categories, and two workers that reconcile at once.
- The digest's wording and the texts of reminders: pure formatting.
- Connection and OAuth, accounts, backup and series of tasks in the backend:
  planned (3 and 4).  The page's
  side of accounts, backup and series is in `SettingsPanels`, `TaskStore` and
  `DetailPanel`.
- The drawing of the calendar, gestures, animations, themes, the width of the
  sidebar, category filters, date arithmetic of drops and forms: layout and
  formatting without a state that requests or other actors share.
- The editor of categories in the page, other than a deletion as it meets the task
  panel and the store.
- Parsing of dates in the API wrappers, the precaching service worker, migrations
  other than the constraints the modules name, start-up scripts.
