------------------------------ MODULE TaskStore ------------------------------
(***************************************************************************)
(* The browser's copy of the tasks (App.tsx): what is listed, the local    *)
(* echoes of answered changes, the undo on offer, and the requests that    *)
(* are under way.                                                          *)
(*                                                                         *)
(* A task is abstracted to its version, the number of the server's write   *)
(* that produced it (updated_at grows with every write); Absent is "not    *)
(* there".  A request is sent, served by the server and answered to the    *)
(* page in three steps, so that answers overtake each other.  What a       *)
(* handler does once its await returns is named by the "then" of its call. *)
(* The account is one and the same in every session; a session is a token. *)
(***************************************************************************)
EXTENDS AppIds, Naturals

CONSTANTS
  Load,        \* GET /api/tasks requests that may be under way at once (bound)
  Call,        \* changing requests that may be under way at once (bound)
  Present,     \* the tasks that exist when the page opens
  MaxEvents    \* bound: changes here and on other devices, new dates shown, failed
               \* requests, lost answers, page loads, logouts and expired tokens,
               \* all together

ASSUME StoreAssumption ==
  /\ Present \subseteq Task
  /\ MaxEvents \in Nat

VARIABLES
  server,        \* version of every task at the server
  born,          \* tasks that have existed
  clock,         \* number of the server's last write
  expired,       \* sessions whose token the server refuses
  taskState,     \* status and listed versions
  locallyUpdated,\* locallyUpdatedTasksRef: answers to this page's own changes
  taskUndo,      \* the undo on offer
  authToken,     \* a token is stored
  session,       \* number of the last sign-in
  load,          \* listings under way
  call,          \* changes under way
  spent          \* events so far (bound of the model)

serverVars == <<server, born, clock, expired>>
pageVars == <<taskState, locallyUpdated, taskUndo, authToken, session>>
storeVars == <<serverVars, pageVars, load, call, spent>>

Absent == 0
Nothing == [t \in Task |-> Absent]
NoLoad == [at |-> "idle", silent |-> FALSE, session |-> 0, tasks |-> Nothing]
NoCall == [at |-> "idle", then |-> "none", task |-> None, undoable |-> FALSE,
           session |-> 0, version |-> 0]

\* What a change needs once it is answered, named for the handlers:
\*   moved     calendar drag and resize, checkbox, edit form   undo, reload
\*   placed    drop on the calendar, quick action       undo, echo, reload
\*   removed   deletion                                 undo, echo dropped, reload
\*   added     create form                              reload
\*   copied    duplicate                                echo, reload
\*   ordered   order of the unscheduled tasks           echo of a listed task
\*   regrouped deletion of a category                   reload
\*   imported  backup import                            echoes dropped, reload
\*   undone    undo of a change                         echo, reload
\*   restored  undo of a deletion                       echo
Creating == {"added", "copied", "restored"}
Undoing == {"undone", "restored"}
Deleting == {"removed", "regrouped"}
Then == {"none", "moved", "placed", "ordered", "imported"}
          \cup Creating \cup Undoing \cup Deleting

Versions == [Task -> Nat]
TaskStates == [status: {"loading", "refreshing", "ready", "error"}, tasks: Versions]
Undos == [kind: {"none", "update", "delete"}, task: Task \cup {None}]
Loads == [at: {"idle", "sent", "served", "failed", "refused"},
          silent: BOOLEAN, session: Nat, tasks: Versions]
Calls == [at: {"idle", "sent", "served", "failed", "refused"},
          then: Then, task: Task \cup {None},
          undoable: BOOLEAN, session: Nat, version: Nat]

StoreTypeOK ==
  /\ server \in Versions /\ born \subseteq Task /\ clock \in Nat
  /\ expired \subseteq Nat
  /\ taskState \in TaskStates
  /\ locallyUpdated \in Versions
  /\ taskUndo \in Undos
  /\ authToken \in BOOLEAN /\ session \in Nat \ {0}
  /\ load \in [Load -> Loads]
  /\ call \in [Call -> Calls]
  /\ spent \in 0..MaxEvents

NoUndo == [kind |-> "none", task |-> None]

\* The page opened, with a stored token or without: nothing is listed yet.
StoreInit ==
  /\ server = [t \in Task |-> IF t \in Present THEN 1 ELSE Absent]
  /\ born = Present
  /\ clock = 1
  /\ expired = {}
  /\ taskState = [status |-> "loading", tasks |-> Nothing]
  /\ locallyUpdated = Nothing
  /\ taskUndo = NoUndo
  /\ authToken \in BOOLEAN
  /\ session = 1
  /\ load = [l \in Load |-> NoLoad]
  /\ call = [c \in Call |-> NoCall]
  /\ spent = 0
-----------------------------------------------------------------------------
(* Listings.                                                               *)

Event == spent < MaxEvents /\ spent' = spent + 1

\* A listing is sent; the page says "refreshing" when it has tasks to show.
SendListing(l, silent, token) ==
  /\ load[l].at = "idle" /\ l = CHOOSE free \in Load : load[free].at = "idle"
  /\ load' = [load EXCEPT ![l] = [NoLoad EXCEPT !.at = "sent", !.silent = silent,
                                  !.session = token]]

RefreshingStatusBusy(tasks) ==   \* mutant: a status that TaskState does not have
  IF tasks = Nothing THEN "loading" ELSE "busy"

RefreshingStatus(tasks) == IF tasks = Nothing THEN "loading" ELSE "refreshing"

\* refreshTasks() after a change, with tasks listed by then.
Reload(l, tasks) ==
  /\ SendListing(l, FALSE, IF authToken THEN session ELSE 0)
  /\ taskState' = [status |-> RefreshingStatus(tasks), tasks |-> tasks]

taskSyncInFlight == \E l \in Load : load[l].at # "idle" /\ load[l].silent

\* A tick of the interval, the window's focus, the tab becoming visible.
RunTaskSyncRefresh(l) ==
  /\ authToken
  /\ ~ taskSyncInFlight
  /\ SendListing(l, TRUE, session)
  /\ taskState' = [taskState EXCEPT !.status = RefreshingStatus(taskState.tasks)]
  /\ UNCHANGED <<serverVars, locallyUpdated, taskUndo, authToken, session, call, spent>>

\* The calendar shows other dates.
HandleDatesSet(l) ==
  /\ authToken
  /\ Event
  /\ Reload(l, taskState.tasks)
  /\ UNCHANGED <<serverVars, locallyUpdated, taskUndo, authToken, session, call>>

ListingServed(l) ==
  /\ load[l].at = "sent"
  /\ \/ /\ load[l].session \notin expired \cup {0}
        /\ load' = [load EXCEPT ![l].at = "served", ![l].tasks = server]
        /\ UNCHANGED spent
     \/ /\ load[l].session \in expired \cup {0}
        /\ load' = [load EXCEPT ![l].at = "refused"]
        /\ UNCHANGED spent
     \/ /\ Event
        /\ load' = [load EXCEPT ![l].at = "failed"]
  /\ UNCHANGED <<serverVars, pageVars, call>>

AnyLoadedFresh(loaded, local) ==   \* mutant: updated_at is not compared
  loaded # Absent

SameLoadedFresh(loaded, local) ==  \* mutant: "=" for ">="
  loaded # Absent /\ loaded = local

isTaskAtLeastAsFresh(loaded, local) == loaded # Absent /\ loaded >= local

MergedMissing(loaded, local) ==    \* mutant: echoes only fill in what is missing
  [t \in Task |-> IF loaded[t] = Absent THEN local[t] ELSE loaded[t]]

\* mergeLocallyUpdatedTasks: an echo stays, and hides what was loaded, until a
\* listing is as fresh; a task that the listing lacks is listed from its echo.
Merged(loaded, local) ==
  [t \in Task |-> IF local[t] # Absent /\ ~ isTaskAtLeastAsFresh(loaded[t], local[t])
                  THEN local[t] ELSE loaded[t]]

EchoesAfter(loaded, local) ==
  [t \in Task |-> IF isTaskAtLeastAsFresh(loaded[t], local[t]) THEN Absent
                  ELSE local[t]]

\* The answer replaces whatever is listed by then, in whatever session.
ListingAnswered(l) ==
  /\ load[l].at = "served"
  /\ taskState' = [status |-> "ready", tasks |-> Merged(load[l].tasks, locallyUpdated)]
  /\ locallyUpdated' = EchoesAfter(load[l].tasks, locallyUpdated)
  /\ load' = [load EXCEPT ![l] = NoLoad]
  /\ UNCHANGED <<serverVars, taskUndo, authToken, session, call, spent>>

\* A failed poll is silent, and leaves the status it started with.
ListingFailed(l) ==
  /\ load[l].at = "failed"
  /\ taskState' = IF load[l].silent THEN taskState
                  ELSE [taskState EXCEPT !.status = "error"]
  /\ load' = [load EXCEPT ![l] = NoLoad]
  /\ UNCHANGED <<serverVars, locallyUpdated, taskUndo, authToken, session, call, spent>>
-----------------------------------------------------------------------------
(* The session.                                                            *)

\* resetAppData: requests under way are not recalled.
ResetAppData ==
  /\ taskState' = [status |-> "loading", tasks |-> Nothing]
  /\ locallyUpdated' = Nothing
  /\ taskUndo' = NoUndo

HandleLogout ==
  /\ authToken
  /\ Event
  /\ authToken' = FALSE
  /\ ResetAppData
  /\ UNCHANGED <<serverVars, session, load, call>>

\* A 401 ends the session of the page, whichever session asked.
HandleAuthExpired ==
  /\ authToken' = FALSE
  /\ ResetAppData
  /\ UNCHANGED <<serverVars, session, spent>>

ListingRefused(l) ==
  /\ load[l].at = "refused"
  /\ load' = [load EXCEPT ![l] = NoLoad]
  /\ HandleAuthExpired
  /\ UNCHANGED call

\* A refused order loads the tasks again even so, by then without a token.
CallRefused(c, l) ==
  /\ call[c].at = "refused"
  /\ call' = [call EXCEPT ![c] = NoCall]
  /\ HandleAuthExpired
  /\ IF call[c].then = "ordered" THEN SendListing(l, FALSE, 0) ELSE UNCHANGED load

\* A new token starts the poll at once, unless one is still under way.
HandleAuthSubmit(l) ==
  /\ ~ authToken
  /\ session' = session + 1
  /\ authToken' = TRUE
  /\ IF taskSyncInFlight THEN UNCHANGED <<load, taskState>>
     ELSE /\ SendListing(l, TRUE, session')
          /\ taskState' = [taskState EXCEPT !.status = RefreshingStatus(taskState.tasks)]
  /\ UNCHANGED <<serverVars, locallyUpdated, taskUndo, call, spent>>

\* The page is loaded again (by the user, or when Cloudflare Access asks for a
\* new login): only the stored token survives.
PageReload ==
  /\ Event
  /\ ResetAppData
  /\ load' = [l \in Load |-> NoLoad]
  /\ call' = [c \in Call |-> NoCall]
  /\ UNCHANGED <<serverVars, authToken, session>>
-----------------------------------------------------------------------------
(* Changes: how a handler starts.                                          *)

Listed(t) == taskState.tasks[t] # Absent
ClearUndoState == taskUndo' = NoUndo
KeepUndo == UNCHANGED taskUndo
UnderWay(kinds) == \E c \in Call : call[c].at # "idle" /\ call[c].then \in kinds

\* The request of a handler.
Send(c, then, t, undoable) ==
  /\ authToken
  /\ call[c].at = "idle" /\ c = CHOOSE free \in Call : call[free].at = "idle"
  /\ call' = [call EXCEPT ![c] = [NoCall EXCEPT !.at = "sent", !.then = then,
                !.task = t, !.undoable = undoable, !.session = session]]
  /\ UNCHANGED <<serverVars, taskState, locallyUpdated, authToken, session, load>>

Change(c, then, t, undoable) == Event /\ Send(c, then, t, undoable)

\* An update of a recurring task that leaves its series has no undo.
HandleEventChange(c, t, undoable) ==
  Listed(t) /\ Change(c, "moved", t, undoable) /\ ClearUndoState

HandleCheckboxChange(c, t) ==
  Listed(t) /\ Change(c, "moved", t, TRUE) /\ ClearUndoState

RunTaskUpdate(c, t, source, undoable) ==
  /\ \* the panel or the dialog may outlive the task's place in the list
     undoable => Listed(t)
  /\ Change(c, IF source = "calendar" THEN "placed" ELSE "moved", t, undoable)
  /\ ClearUndoState

\* The drop of an unscheduled task does not clear the undo.
HandleExternalTaskDrop(c, t, undoable) ==
  Listed(t) /\ Change(c, "placed", t, undoable) /\ KeepUndo

RunTaskDelete(c, t, undoable) ==
  /\ ~ UnderWay(Deleting)
  /\ undoable => Listed(t)
  /\ Change(c, "removed", t, undoable)
  /\ ClearUndoState

HandleSubmit(c) ==
  ~ UnderWay({"added"}) /\ Change(c, "added", None, FALSE) /\ ClearUndoState

HandleDuplicateFromMenu(c) ==
  /\ \E t \in Task : Listed(t)
  /\ ~ UnderWay({"copied"}) /\ Change(c, "copied", None, FALSE) /\ ClearUndoState

PersistUnscheduledOrder(c, t) ==
  /\ ~ UnderWay({"ordered"})
  /\ Listed(t)
  /\ Change(c, "ordered", t, FALSE)
  /\ ClearUndoState

HandleUndoTaskChange(c) ==
  /\ taskUndo # NoUndo
  /\ ~ UnderWay(Undoing)
  /\ Send(c, IF taskUndo.kind = "delete" THEN "restored" ELSE "undone",
          taskUndo.task, FALSE)
  /\ UNCHANGED <<taskUndo, spent>>

HandleDeleteEditingTaskList(c) ==
  /\ ~ UnderWay(Deleting)
  /\ Change(c, "regrouped", None, FALSE)
  /\ KeepUndo

HandleConfirmBackupImport(c) ==
  /\ ~ UnderWay({"imported"})
  /\ Change(c, "imported", None, FALSE)
  /\ KeepUndo
-----------------------------------------------------------------------------
(* Changes: what the server does with them, and other devices.             *)

\* The reply reaches the page, or is lost on the way.
Reply(c, t) ==
  \/ /\ call' = [call EXCEPT ![c].at = "served", ![c].task = t, ![c].version = clock']
     /\ UNCHANGED spent
  \/ /\ Event
     /\ call' = [call EXCEPT ![c].at = "failed"]

Accepted(c, kinds) ==
  /\ call[c].at = "sent" /\ call[c].then \in kinds
  /\ call[c].session \notin expired
  /\ clock' = clock + 1
  /\ UNCHANGED <<expired, pageVars, load>>

ServerUpdates(c) ==
  /\ Accepted(c, {"moved", "placed", "ordered", "undone"})
  /\ server[call[c].task] # Absent
  /\ server' = [server EXCEPT ![call[c].task] = clock']
  /\ Reply(c, call[c].task)
  /\ UNCHANGED born

ServerDeletes(c) ==
  /\ Accepted(c, {"removed"})
  /\ server[call[c].task] # Absent
  /\ server' = [server EXCEPT ![call[c].task] = Absent]
  /\ Reply(c, call[c].task)
  /\ UNCHANGED born

ServerCreates(c) ==
  /\ Accepted(c, Creating)
  /\ \E t \in Task \ born :
       /\ server' = [server EXCEPT ![t] = clock']
       /\ born' = born \cup {t}
       /\ Reply(c, t)

\* The tasks of a deleted category are written once more, without it.
ServerRegroups(c) ==
  /\ Accepted(c, {"regrouped"})
  /\ \E T \in SUBSET {t \in Task : server[t] # Absent} :
       server' = [t \in Task |-> IF t \in T THEN clock' ELSE server[t]]
  /\ Reply(c, None)
  /\ UNCHANGED born

\* A backup brings back the tasks it holds as old as they were.
ServerImports(c) ==
  /\ Accepted(c, {"imported"})
  /\ \E T \in SUBSET Task :
       /\ server' = [t \in Task |-> IF t \in T THEN 1 ELSE Absent]
       /\ born' = born \cup T
  /\ Reply(c, None)

\* The task is not there (404), or the request does not arrive.
CallLost(c) ==
  /\ call[c].at = "sent"
  /\ IF /\ call[c].then \in {"moved", "placed", "ordered", "undone", "removed"}
        /\ server[call[c].task] = Absent
     THEN UNCHANGED spent
     ELSE Event
  /\ call' = [call EXCEPT ![c].at = "failed"]
  /\ UNCHANGED <<serverVars, pageVars, load>>

CallUnauthorized(c) ==
  /\ call[c].at = "sent"
  /\ call[c].session \in expired
  /\ call' = [call EXCEPT ![c].at = "refused"]
  /\ UNCHANGED <<serverVars, pageVars, load, spent>>

OtherDevice(t) ==
  /\ Event
  /\ server[t] # Absent
  /\ clock' = clock + 1
  /\ \E v \in {clock', Absent} : server' = [server EXCEPT ![t] = v]
  /\ UNCHANGED <<born, expired, pageVars, load, call>>

TokenExpires(s) ==
  /\ s \notin expired
  /\ Event
  /\ expired' = expired \cup {s}
  /\ UNCHANGED <<server, born, clock, pageVars, load, call>>
-----------------------------------------------------------------------------
(* Changes: what a handler does once its await returns.                    *)

Answered(c, then) ==
  /\ call[c].at = "served" /\ call[c].then = then
  /\ call' = [call EXCEPT ![c] = NoCall]
  /\ UNCHANGED <<serverVars, authToken, session, spent>>

Offer(c, kind) ==
  taskUndo' = IF call[c].undoable
              THEN [kind |-> kind, task |-> call[c].task]
              ELSE taskUndo

\* replaceTaskInState: listed, and remembered as an echo.
Echoed(c) == [taskState.tasks EXCEPT ![call[c].task] = call[c].version]
ReplaceTaskInState(c) ==
  locallyUpdated' = [locallyUpdated EXCEPT ![call[c].task] = call[c].version]

MovedAnswered(c, l) ==
  /\ Answered(c, "moved")
  /\ Offer(c, "update")
  /\ Reload(l, taskState.tasks)
  /\ UNCHANGED locallyUpdated

PlacedAnswered(c, l) ==
  /\ Answered(c, "placed")
  /\ Offer(c, "update")
  /\ ReplaceTaskInState(c)
  /\ Reload(l, Echoed(c))

RemovedAnswered(c, l) ==
  /\ Answered(c, "removed")
  /\ Offer(c, "delete")
  /\ locallyUpdated' = [locallyUpdated EXCEPT ![call[c].task] = Absent]
  /\ Reload(l, taskState.tasks)

\* The create form and the deletion of a category only reload.
ReloadAnswered(c, l) ==
  /\ \E then \in {"added", "regrouped"} : Answered(c, then)
  /\ Reload(l, taskState.tasks)
  /\ UNCHANGED <<locallyUpdated, taskUndo>>

DuplicateAnswered(c, l) ==
  /\ Answered(c, "copied")
  /\ ReplaceTaskInState(c)
  /\ Reload(l, Echoed(c))
  /\ UNCHANGED taskUndo

\* replaceTasksInState lists no task that is not listed.
OrderAnswered(c) ==
  /\ Answered(c, "ordered")
  /\ ReplaceTaskInState(c)
  /\ taskState' = IF Listed(call[c].task) THEN [taskState EXCEPT !.tasks = Echoed(c)]
                  ELSE taskState
  /\ UNCHANGED <<taskUndo, load>>

ImportAnswered(c, l) ==
  /\ Answered(c, "imported")
  /\ locallyUpdated' = Nothing
  /\ Reload(l, taskState.tasks)
  /\ UNCHANGED taskUndo

\* Whatever undo is on offer by now is gone.
UndoneAnswered(c, l) ==
  /\ Answered(c, "undone")
  /\ ReplaceTaskInState(c)
  /\ Reload(l, Echoed(c))
  /\ ClearUndoState

RestoredAnswered(c) ==
  /\ Answered(c, "restored")
  /\ ReplaceTaskInState(c)
  /\ taskState' = [taskState EXCEPT !.tasks = Echoed(c)]
  /\ ClearUndoState
  /\ UNCHANGED load

\* An error shows a message; only a failed order loads the tasks again.
CallFailed(c, l) ==
  /\ call[c].at = "failed"
  /\ call' = [call EXCEPT ![c] = NoCall]
  /\ IF call[c].then = "ordered" THEN Reload(l, taskState.tasks)
     ELSE UNCHANGED <<taskState, load>>
  /\ UNCHANGED <<serverVars, locallyUpdated, taskUndo, authToken, session,
                 spent>>
-----------------------------------------------------------------------------
Starts(c) ==
  \/ \E t \in Task, undoable \in BOOLEAN :
       \/ HandleEventChange(c, t, undoable)
       \/ \E source \in {"form", "calendar"} : RunTaskUpdate(c, t, source, undoable)
       \/ HandleExternalTaskDrop(c, t, undoable)
       \/ RunTaskDelete(c, t, undoable)
  \/ \E t \in Task : HandleCheckboxChange(c, t) \/ PersistUnscheduledOrder(c, t)
  \/ HandleSubmit(c)
  \/ HandleDuplicateFromMenu(c)
  \/ HandleUndoTaskChange(c)
  \/ HandleDeleteEditingTaskList(c)
  \/ HandleConfirmBackupImport(c)

Served(c) ==
  \/ ServerUpdates(c) \/ ServerDeletes(c) \/ ServerCreates(c)
  \/ ServerRegroups(c) \/ ServerImports(c)
  \/ CallLost(c) \/ CallUnauthorized(c)

Continues(c) ==
  \/ \E l \in Load :
       \/ MovedAnswered(c, l) \/ PlacedAnswered(c, l) \/ RemovedAnswered(c, l)
       \/ ReloadAnswered(c, l) \/ DuplicateAnswered(c, l) \/ ImportAnswered(c, l)
       \/ UndoneAnswered(c, l) \/ CallFailed(c, l) \/ CallRefused(c, l)
  \/ OrderAnswered(c) \/ RestoredAnswered(c)

ListingArrives(l) == ListingAnswered(l) \/ ListingFailed(l) \/ ListingRefused(l)

StoreNext ==
  \/ \E l \in Load : \/ RunTaskSyncRefresh(l) \/ HandleDatesSet(l)
                     \/ ListingServed(l) \/ ListingArrives(l)
                     \/ HandleAuthSubmit(l)
  \/ \E c \in Call : Starts(c) \/ Served(c) \/ Continues(c)
  \/ \E t \in Task : OtherDevice(t)
  \/ \E s \in 1..session : TokenExpires(s)
  \/ HandleLogout
  \/ PageReload

\* The network answers, the page's callbacks run, and the interval of the poll
\* ticks while the page is visible; nothing is asked of the user.
StoreFairness ==
  /\ \A l \in Load : WF_storeVars(ListingServed(l) \/ ListingArrives(l))
  /\ \A c \in Call : WF_storeVars(Served(c) \/ Continues(c))
  /\ WF_storeVars(\E l \in Load : RunTaskSyncRefresh(l))

StoreSpec == StoreInit /\ [][StoreNext]_storeVars
-----------------------------------------------------------------------------
\* While the page remembers its own answered change, it lists the task as that
\* change left it, or (an order that was saved for a task gone from the list)
\* not at all: no listing computed before the change shows through.
EchoShown ==
  \A t \in Task : locallyUpdated[t] # Absent =>
    taskState.tasks[t] \in {locallyUpdated[t], Absent}

\* A listing never takes a task back behind a change that was answered and is
\* still remembered, however late the listing arrives, nor drops such a task.
ConfirmedNotReverted ==
  [][\A l \in Load : ListingAnswered(l) =>
       \A t \in Task : taskState'.tasks[t] >= locallyUpdated[t]]_storeVars

\* A task stays listed at what an echo says although the server's is older or gone:
\* it was deleted, or replaced by a backup, before the echo was taken.
Masked(t) == /\ server[t] < locallyUpdated[t]
             /\ locallyUpdated[t] # Absent
             /\ taskState.tasks[t] = locallyUpdated[t]

\* Once changes end, the page settles on what the server holds, whatever order
\* the answers of reloads, polls and changes came in; only masked tasks differ.
StoreSettles ==
  <>[](authToken => /\ taskState.status # "error"
                    /\ \A t \in Task : taskState.tasks[t] = server[t] \/ Masked(t))
==============================================================================
