----------------------------- MODULE DetailPanel -----------------------------
(***************************************************************************)
(* The panel in which a task is created or edited, and what opens, closes  *)
(* and covers it (App.tsx): the selected task, the draft of the edit form, *)
(* the two dialogs of recurring tasks, the context menu of the wide layout *)
(* and the quick actions of the narrow one.  Requests are answered while   *)
(* the user goes on, and the list of tasks changes underneath.             *)
(*                                                                         *)
(* A draft is the task it was taken from and whether the user has changed  *)
(* it.  The effects that React runs after a render are part of every step  *)
(* (Settled): the user sees no state between a render and its effects.     *)
(***************************************************************************)
EXTENDS AppIds, Naturals

CONSTANTS
  Recurring,   \* tasks that are occurrences of a series
  AtStart,     \* tasks listed when the panel is first used
  MaxActs      \* bound: acts of the user, tasks that come and go, sessions
               \* that expire

ASSUME PanelAssumption ==
  Recurring \subseteq Task /\ AtStart \subseteq Task /\ MaxActs \in Nat

VARIABLES
  panel,      \* the page's state about the panel, see NoPanel
  narrow,     \* isNarrowScreen(), isMobileLayout
  listedTasks,\* ids in taskState.tasks
  listStatus, \* taskState.status; an error is settled, as "ready" is
  listingsDue,\* listings under way
  existing,   \* tasks at the server, and those that were there once
  inFlight,   \* one request per kind: its button is disabled meanwhile
  acts        \* bound of the model

panelVars == <<panel, narrow, listedTasks, listStatus, listingsDue, existing,
               inFlight, acts>>

MaxListings == 2   \* bound: listings under way at once

NoDraft == [task |-> None, dirty |-> FALSE]
NoEdit == [task |-> None, source |-> "form", revert |-> FALSE]
NoDelete == [task |-> None, source |-> "detail"]
Kinds == {"create", "update", "delete", "copy", "drop"}
Idle == [at |-> "idle", task |-> None, source |-> "form", selected |-> None,
         pending |-> NoEdit]
NoPanel == [
  mode |-> "none", selected |-> None,  \* detailPanelMode, selectedTaskId
  form |-> "blank",                    \* formState, the create form
  draft |-> NoDraft, sync |-> None,    \* editState, editStateSyncTaskIdRef
  closing |-> FALSE,                   \* isDetailPanelClosing
  edit |-> NoEdit, del |-> NoDelete,   \* pendingTaskEdit, pendingTaskDelete
  menu |-> None, quick |-> None,       \* contextMenu, mobileQuickActionTaskId
  preview |-> FALSE,                   \* mobileMonthPreviewDate
  moved |-> {},                        \* events drawn where they were dragged to
  cleared |-> FALSE,  \* history: the open panel lost its form with its task
  lost |-> {}]        \* history: moves whose dialog another's failure closed,
                      \* or whose listing failed

MaybeTask == Task \cup {None}
Edits == [task: MaybeTask, source: {"form", "calendar"}, revert: BOOLEAN]

PanelTypeOK ==
  /\ panel \in [mode: {"none", "create", "edit"}, selected: MaybeTask,
                form: {"blank", "typed"},
                draft: [task: MaybeTask, dirty: BOOLEAN], sync: MaybeTask,
                closing: BOOLEAN, edit: Edits,
                del: [task: MaybeTask, source: {"detail", "menu"}],
                menu: MaybeTask, quick: MaybeTask, preview: BOOLEAN,
                moved: SUBSET Task, cleared: BOOLEAN,
                lost: SUBSET Task]
  /\ listedTasks \subseteq Task /\ listStatus \in {"refreshing", "ready"}
  /\ listingsDue \in 0..MaxListings
  /\ existing.now \subseteq existing.ever /\ existing.ever \subseteq Task
  /\ inFlight \in [Kinds -> [at: {"idle", "sent"}, task: MaybeTask,
                     source: {"form", "calendar", "detail", "menu", "category"},
                     selected: MaybeTask, pending: Edits]]
  /\ acts \in 0..MaxActs

PanelInit ==
  /\ panel = NoPanel
  /\ narrow \in BOOLEAN
  /\ listedTasks = AtStart
  /\ listStatus = "ready"
  /\ listingsDue = 0
  /\ existing = [now |-> AtStart, ever |-> AtStart]
  /\ inFlight = [k \in Kinds |-> Idle]
  /\ acts = 0
-----------------------------------------------------------------------------
(* Closing, and the effects that follow every render.                      *)

Reverted(pending) == IF pending.revert THEN {pending.task} ELSE {}

ClosedMisnamed(p, pending) ==   \* mutant: a mode that the panel does not have
  [p EXCEPT !.menu = None, !.quick = None, !.closing = TRUE, !.mode = "closed",
            !.selected = None, !.edit = NoEdit, !.moved = @ \ Reverted(pending)]

\* closeDetailPanel; "pending" is the pendingTaskEdit that its closure holds.
Closed(p, pending) ==
  [p EXCEPT !.menu = None, !.quick = None, !.closing = TRUE, !.mode = "none",
            !.selected = None, !.edit = NoEdit, !.moved = @ \ Reverted(pending)]

DraftSyncedOnce(p, tasks) ==   \* mutant: one draft per panel, not per task
  CASE p.mode # "edit" -> [p EXCEPT !.sync = None, !.draft = NoDraft, !.cleared = FALSE]
    [] p.mode = "edit" /\ p.selected \notin tasks ->
         [p EXCEPT !.draft = NoDraft, !.cleared = TRUE]
    [] p.mode = "edit" /\ p.selected \in tasks /\ p.sync # None -> p
    [] OTHER -> [p EXCEPT !.sync = p.selected, !.cleared = FALSE,
                          !.draft = [task |-> p.selected, dirty |-> FALSE]]

\* The draft is taken once for every task that is selected, and dropped when the
\* panel no longer edits or its task is no longer listed; a task that is listed
\* again has been synchronised already, and gets no form.
DraftSynced(p, tasks) ==
  CASE p.mode # "edit" -> [p EXCEPT !.sync = None, !.draft = NoDraft, !.cleared = FALSE]
    [] p.mode = "edit" /\ p.selected \notin tasks ->
         [p EXCEPT !.draft = NoDraft, !.cleared = TRUE]
    [] p.mode = "edit" /\ p.selected \in tasks /\ p.sync = p.selected -> p
    [] OTHER -> [p EXCEPT !.sync = p.selected, !.cleared = FALSE,
                          !.draft = [task |-> p.selected, dirty |-> FALSE]]

\* The panel of a task that a settled list lacks closes.
AutoClosed(p, tasks, status) ==
  IF /\ p.mode = "edit" /\ ~ p.closing /\ status = "ready"
     /\ p.selected # None /\ p.selected \notin tasks
  THEN Closed(p, p.edit) ELSE p

Settled(p, tasks, status) ==
  DraftSynced(AutoClosed(DraftSynced(p, tasks), tasks, status), tasks)

Shows(p) == panel' = Settled(p, listedTasks', listStatus')

listVars == <<listedTasks, listStatus, listingsDue, existing>>

\* A step of the page that asks nothing of the server.
PageStep(p) ==
  /\ UNCHANGED <<narrow, listVars, inFlight>>
  /\ Shows(p)

ActOfUser == acts < MaxActs /\ acts' = acts + 1
UserStep(p) == ActOfUser /\ PageStep(p)

\* The dialogs cover the page; that of a deletion shows only a listed task.
Unblocked == panel.edit = NoEdit /\ panel.del.task \notin listedTasks
SidebarShown == panel.mode = "none" /\ ~ panel.closing
Free(kind) == inFlight[kind].at = "idle"

\* The fallback timer, or the end of the panel's animation.
ClosingEnds ==
  /\ panel.closing
  /\ PageStep([panel EXCEPT !.closing = FALSE])
  /\ UNCHANGED acts

\* Close and Cancel, the settings button and the navigation of the narrow layout.
CloseDetailPanel ==
  /\ Unblocked
  /\ UserStep(Closed(panel, panel.edit))
-----------------------------------------------------------------------------
(* Opening.                                                                *)

\* openCreatePanel, openDateOnlyCreatePanel, openUnscheduledCreatePanel.
CreatePanel(p) ==
  [p EXCEPT !.menu = None, !.quick = None, !.mode = "create", !.selected = None,
            !.form = "blank"]

EditPanel(p, t) ==
  [p EXCEPT !.menu = None, !.quick = None, !.closing = FALSE, !.mode = "edit",
            !.selected = t]

\* A date is selected or clicked; in the narrow month view a click previews it.
OpenCreatePanel ==
  /\ Unblocked
  /\ \/ UserStep(CreatePanel(panel))
     \/ narrow /\ UserStep([panel EXCEPT !.preview = TRUE])

\* A row of the sidebar, a long press, or the quick actions' edit button.
OpenTaskDetailPanel(t) ==
  /\ Unblocked /\ t \in listedTasks
  /\ narrow \/ SidebarShown
  /\ UserStep(EditPanel(panel, t))

HandleEventClick(t) ==
  /\ Unblocked /\ t \in listedTasks
  /\ \/ /\ narrow
        /\ UserStep([panel EXCEPT !.closing = FALSE, !.mode = "none",
                                  !.selected = t, !.quick = t, !.menu = None])
     \/ /\ ~ narrow
        /\ UserStep([panel EXCEPT !.mode = "edit", !.quick = None,
                                  !.selected = t, !.menu = None])

\* The right button selects the task, whatever the panel is doing.
OpenContextMenu(t) ==
  /\ Unblocked /\ ~ narrow /\ t \in listedTasks
  /\ UserStep([panel EXCEPT !.selected = t, !.menu = t])

CloseMenu ==
  /\ Unblocked /\ panel.menu # None
  /\ UserStep([panel EXCEPT !.menu = None])

CloseQuickActions ==
  /\ Unblocked /\ panel.quick # None
  /\ UserStep([panel EXCEPT !.quick = None])

\* The list of the previewed day: close it, add a task to it, open one of it.
UsePreview ==
  /\ Unblocked /\ panel.preview
  /\ LET closed == [panel EXCEPT !.preview = FALSE]
     IN \/ UserStep(closed)
        \/ UserStep(CreatePanel(closed))
        \/ \E t \in listedTasks : UserStep(EditPanel(closed, t))

\* The user changes a field; a form can be created once it has a title.
TypeInCreateForm ==
  /\ Unblocked /\ panel.mode = "create"
  /\ UserStep([panel EXCEPT !.form = "typed"])

TypeInEditForm ==
  /\ Unblocked /\ panel.draft # NoDraft
  /\ UserStep([panel EXCEPT !.draft.dirty = TRUE])

\* Clears the schedule, and leaves the other fields as they are.
HandleMoveToNoTime ==
  /\ Unblocked
  /\ \/ panel.mode = "create" /\ UserStep(panel)
     \/ panel.draft # NoDraft /\ UserStep([panel EXCEPT !.draft.dirty = TRUE])
-----------------------------------------------------------------------------
(* Requests.                                                               *)

Request(kind, t, source, pending) ==
  inFlight' = [inFlight EXCEPT ![kind] =
    [at |-> "sent", task |-> t, source |-> source, selected |-> panel.selected,
     pending |-> pending]]

Asks(p) == ActOfUser /\ UNCHANGED <<narrow, listVars>> /\ Shows(p)

SubmitCreateForm ==
  /\ Unblocked /\ panel.mode = "create" /\ panel.form = "typed" /\ Free("create")
  /\ Request("create", None, "form", NoEdit)
  /\ Asks(panel)

\* An unchanged draft closes the panel, some changes of a series ask first.
SubmitEditForm ==
  /\ Unblocked /\ panel.draft # NoDraft /\ Free("update")
  /\ LET t == panel.selected
     IN \/ /\ ~ panel.draft.dirty
           /\ UserStep(Closed(panel, panel.edit))
        \/ /\ panel.draft.dirty /\ t \in Recurring
           /\ UserStep([panel EXCEPT !.edit = [task |-> t, source |-> "form",
                                               revert |-> FALSE]])
        \/ /\ panel.draft.dirty
           /\ Request("update", t, "form", NoEdit)
           /\ Asks(panel)

\* "Edit only this" or "Edit all": the dialog stays until the answer.
ChooseEdit ==
  /\ panel.edit # NoEdit /\ Free("update")
  /\ Request("update", panel.edit.task, panel.edit.source, panel.edit)
  /\ Asks(panel)

CancelEdit ==
  /\ panel.edit # NoEdit /\ Free("update")
  /\ UserStep([panel EXCEPT !.edit = NoEdit, !.moved = @ \ Reverted(panel.edit)])

ApplyMobileQuickAction ==
  /\ Unblocked /\ narrow /\ panel.quick \in listedTasks /\ Free("update")
  /\ \/ /\ panel.quick \in Recurring
        /\ UserStep([panel EXCEPT !.edit = [task |-> panel.quick,
                       source |-> "calendar", revert |-> FALSE]])
     \/ /\ panel.quick \notin Recurring
        /\ Request("update", panel.quick, "calendar", NoEdit)
        /\ Asks(panel)

\* An event is dragged or resized: it is drawn there before anything is saved.
HandleEventDrop(t) ==
  /\ Unblocked /\ ~ narrow /\ t \in listedTasks
  /\ LET drawn == [panel EXCEPT !.moved = @ \cup {t}]
     IN \/ /\ t \in Recurring
           /\ UserStep([drawn EXCEPT !.edit = [task |-> t, source |-> "calendar",
                                               revert |-> TRUE]])
        \/ /\ t \notin Recurring /\ Free("drop")
           /\ Request("drop", t, "calendar", NoEdit)
           /\ Asks(drawn)

\* A row of a recurring task is dropped on the calendar.
ExternalTaskDrop(t) ==
  /\ Unblocked /\ ~ narrow /\ SidebarShown /\ t \in listedTasks \cap Recurring
  /\ UserStep([panel EXCEPT !.edit = [task |-> t, source |-> "calendar",
                                      revert |-> FALSE]])

\* runTaskDelete, or the question before the deletion of a recurring task.
PromptOrDelete(p, t, source) ==
  \/ /\ t \in Recurring
     /\ UserStep([p EXCEPT !.menu = None, !.del = [task |-> t, source |-> source]])
  \/ /\ t \notin Recurring
     /\ Request("delete", t, source, NoEdit)
     /\ Asks([p EXCEPT !.del = NoDelete])

DeleteSelectedTask ==
  /\ Unblocked /\ panel.draft # NoDraft /\ Free("delete")
  /\ PromptOrDelete(panel, panel.selected, "detail")

DeleteFromMenu ==
  /\ Unblocked /\ panel.menu \in listedTasks /\ Free("delete")
  /\ PromptOrDelete(panel, panel.menu, "menu")

DeleteFromQuickActions ==
  /\ Unblocked /\ narrow /\ panel.quick \in listedTasks /\ Free("delete")
  /\ PromptOrDelete([panel EXCEPT !.quick = None], panel.quick, "detail")

ChooseDelete ==
  /\ panel.del.task \in listedTasks /\ panel.edit = NoEdit /\ Free("delete")
  /\ Request("delete", panel.del.task, panel.del.source, NoEdit)
  /\ Asks([panel EXCEPT !.del = NoDelete])

CancelDelete ==
  /\ panel.del.task \in listedTasks /\ panel.edit = NoEdit /\ Free("delete")
  /\ UserStep([panel EXCEPT !.del = NoDelete])

DuplicateTask ==
  /\ Unblocked /\ panel.menu \in listedTasks /\ Free("copy")
  /\ Request("copy", panel.menu, "menu", NoEdit)
  /\ Asks(panel)

\* A category is deleted from its editor in the sidebar.
DeleteCategory ==
  /\ Unblocked /\ SidebarShown /\ Free("delete")
  /\ Request("delete", None, "category", NoEdit)
  /\ Asks(panel)
-----------------------------------------------------------------------------
(* Answers.                                                                *)

\* reloadTasks after a change.
ReloadDue ==
  /\ listingsDue < MaxListings /\ listingsDue' = listingsDue + 1
  /\ listStatus' = "refreshing"
  /\ UNCHANGED listedTasks

Done(kind, source) ==
  /\ inFlight[kind].at = "sent" /\ inFlight[kind].source \in source
  /\ inFlight' = [inFlight EXCEPT ![kind] = Idle]
  /\ UNCHANGED <<narrow, acts>>

\* Whatever panel is open by now closes.
CreateDone ==
  /\ Done("create", {"form"})
  /\ ReloadDue
  /\ UNCHANGED existing
  /\ Shows(Closed([panel EXCEPT !.form = "blank"], NoEdit))

UpdateDoneCloses ==   \* mutant: a change made on the calendar closes the panel too
  /\ Done("update", {"form", "calendar"})
  /\ ReloadDue
  /\ UNCHANGED existing
  /\ LET c == inFlight["update"]
         saved == [panel EXCEPT !.edit = NoEdit, !.moved = @ \ {c.task}]
     IN Shows(Closed(saved, c.pending))

UpdateDone ==
  /\ Done("update", {"form", "calendar"})
  /\ ReloadDue
  /\ UNCHANGED existing
  /\ LET c == inFlight["update"]
         saved == [panel EXCEPT !.edit = NoEdit, !.moved = @ \ {c.task}]
     IN Shows(IF c.source = "form" THEN Closed(saved, c.pending) ELSE saved)

\* A menu's deletion closes the panel only of the task that was selected then.
DeleteDone ==
  /\ Done("delete", {"detail", "menu"})
  /\ ReloadDue
  /\ LET c == inFlight["delete"]
         kept == [panel EXCEPT !.del = NoDelete]
     IN /\ existing' = [existing EXCEPT !.now = @ \ {c.task}]
        /\ Shows(IF c.source = "detail" \/ c.selected = c.task
                 THEN Closed(kept, NoEdit)
                 ELSE [kept EXCEPT !.menu = None,
                         !.selected = IF @ = c.task THEN None ELSE @])

\* The selected task may have been one of the category's.
CategoryDone ==
  /\ Done("delete", {"category"})
  /\ ReloadDue
  /\ UNCHANGED existing
  /\ \E s \in {panel.selected, None} : Shows([panel EXCEPT !.selected = s])

CopyDone ==
  /\ Done("copy", {"menu"})
  /\ ReloadDue
  /\ UNCHANGED existing
  /\ Shows([panel EXCEPT !.menu = None])

DropDone ==
  /\ Done("drop", {"calendar"})
  /\ ReloadDue
  /\ UNCHANGED existing
  /\ Shows([panel EXCEPT !.moved = @ \ {inFlight["drop"].task}])

\* The move of a task is to be answered: its drop is under way, or its dialog is open,
\* or the request that this dialog made is.
CoveredBy(t, p, calls) ==
  \/ p.edit.revert /\ p.edit.task = t
  \/ calls["drop"].at = "sent" /\ calls["drop"].task = t
  \/ /\ calls["update"].at = "sent" /\ calls["update"].task = t
     /\ calls["update"].source = "calendar"
     /\ calls["update"].pending.revert /\ calls["update"].pending.task = t

RequestFailsUnreverted(kind) ==   \* mutant: a failed drop is not reverted
  /\ Done(kind, {"form", "calendar", "detail", "menu", "category"})
  /\ UNCHANGED listVars
  /\ Shows(panel)

\* A failure shows its message; what was dragged goes back.
RequestFails(kind) ==
  /\ Done(kind, {"form", "calendar", "detail", "menu", "category"})
  /\ UNCHANGED listVars
  /\ LET c == inFlight[kind]
     IN Shows(CASE kind = "drop" -> [panel EXCEPT !.moved = @ \ {c.task}]
                [] kind = "update" /\ c.source = "calendar" ->
                     [panel EXCEPT !.edit = NoEdit, !.moved = @ \ Reverted(c.pending),
                        !.lost = @ \cup (Reverted(panel.edit) \ Reverted(c.pending))]
                [] OTHER -> panel)

\* The poll.
PollDue ==
  /\ ReloadDue
  /\ UNCHANGED <<narrow, existing, inFlight, acts>>
  /\ Shows(panel)

\* A listing has what has been there all along.  What came or went meanwhile it
\* may lack or still show: it was asked for before, or a change made on this page
\* is merged into it.
Listings == {tasks \in SUBSET existing.ever : existing.now \cap AtStart \subseteq tasks}

\* The events are drawn anew from the tasks.
ListingDone ==
  /\ listingsDue > 0 /\ listingsDue' = listingsDue - 1
  /\ listStatus' = "ready"
  /\ listedTasks' \in Listings
  /\ UNCHANGED <<narrow, existing, inFlight, acts>>
  /\ Shows([panel EXCEPT !.moved = {}, !.lost = {}])

\* The list stays as it is.  The failure of a poll is not shown.
ListingFails ==
  /\ listingsDue > 0 /\ listingsDue' = listingsDue - 1
  /\ listStatus' \in {listStatus, "ready"}
  /\ UNCHANGED <<narrow, listedTasks, existing, inFlight, acts>>
  /\ Shows([panel EXCEPT !.lost = @ \cup {t \in panel.moved :
                            listingsDue' = 0 /\ ~ CoveredBy(t, panel, inFlight)}])

\* A request is refused for want of a session, and the user signs in again: the
\* calendar is left and drawn anew, and the list is asked for.  The request itself
\* fails as any other.
SessionExpires ==
  /\ ActOfUser
  /\ listingsDue < MaxListings /\ listingsDue' = listingsDue + 1
  /\ listedTasks' = {} /\ listStatus' = "refreshing"
  /\ UNCHANGED <<narrow, existing, inFlight>>
  /\ Shows([panel EXCEPT !.mode = "none", !.selected = None, !.moved = {}, !.lost = {}])

\* Elsewhere a task is deleted, or created under an id of its own.
TaskComesOrGoes(t) ==
  /\ ActOfUser
  /\ \/ t \in existing.now /\ existing' = [existing EXCEPT !.now = @ \ {t}]
     \/ /\ t \notin existing.ever
        /\ existing' = [now |-> existing.now \cup {t}, ever |-> existing.ever \cup {t}]
  /\ UNCHANGED <<panel, narrow, listedTasks, listStatus, listingsDue, inFlight>>
-----------------------------------------------------------------------------
Background == \/ CreateDone \/ UpdateDone \/ DeleteDone \/ CategoryDone
              \/ CopyDone \/ DropDone
              \/ \E k \in Kinds : RequestFails(k)
              \/ ListingDone \/ ListingFails \/ PollDue
              \/ ClosingEnds \/ SessionExpires
              \/ \E t \in Task : TaskComesOrGoes(t)

PanelNext ==
  \/ Background
  \/ CloseDetailPanel \/ OpenCreatePanel \/ UsePreview
  \/ TypeInCreateForm \/ TypeInEditForm \/ HandleMoveToNoTime
  \/ CloseMenu \/ CloseQuickActions
  \/ \E t \in Task : \/ OpenTaskDetailPanel(t) \/ HandleEventClick(t)
                     \/ OpenContextMenu(t) \/ HandleEventDrop(t)
                     \/ ExternalTaskDrop(t)
  \/ SubmitCreateForm \/ SubmitEditForm \/ ChooseEdit \/ CancelEdit
  \/ ApplyMobileQuickAction \/ DuplicateTask \/ DeleteCategory
  \/ DeleteSelectedTask \/ DeleteFromMenu \/ DeleteFromQuickActions
  \/ ChooseDelete \/ CancelDelete

PanelSpec == PanelInit /\ [][PanelNext]_panelVars
-----------------------------------------------------------------------------
\* The edit form is there exactly while its task is listed, and holds the draft of
\* that task and of no other: "Done" never writes one task's text into another.  A
\* task that comes back to a panel that has lost its form has none: one that a late
\* listing lacked, or that is selected again after a deletion cleared the selection.
DraftOwn ==
  LET editing == panel.mode = "edit" /\ panel.selected \in listedTasks
  IN /\ panel.draft # NoDraft => editing /\ panel.draft.task = panel.selected
     /\ editing /\ ~ panel.cleared => panel.draft # NoDraft

\* The answers that close the panel, or take its selection, whatever task it shows by
\* now: a task created, a form saved, a deletion asked for in the panel or of the task
\* that was selected then or is now, a category deleted with the selected task.
ClosesPanel ==
  \/ CreateDone
  \/ UpdateDone /\ inFlight["update"].source = "form"
  \/ /\ DeleteDone
     /\ \/ inFlight["delete"].source = "detail"
        \/ inFlight["delete"].task \in {inFlight["delete"].selected, panel.selected}
  \/ CategoryDone /\ panel'.selected # panel.selected

\* What the user typed survives polls, late and failing listings, changes made
\* elsewhere, failed requests and the answers to other requests, as long as its task
\* is listed; unless the answer is one of those that close the panel: what was typed
\* about a task that was opened before the answer to another one's is lost.
DraftKept ==
  [][Background /\ ~ ClosesPanel /\ panel.draft.task \in listedTasks'
       => panel'.draft = panel.draft]_panelVars

\* An event is drawn away from the stored place of its task only while that move
\* awaits its answer or the user's choice, or a listing that puts it right is due;
\* unless the failure of another update has closed the dialog of the move, or the
\* listing failed that its dialog was closed for.
NoGhost ==
  \A t \in panel.moved \ panel.lost :
    listingsDue > 0 \/ CoveredBy(t, panel, inFlight)
==============================================================================
