---------------------------- MODULE PageViewsProofs ----------------------------
(***************************************************************************)
(* The panel of a task and the settings.  The draft of the task panel is   *)
(* its task's own and survives what happens meanwhile, and no event is     *)
(* drawn for ever where it was dragged to; nothing irrevocable is asked    *)
(* unconfirmed, however often the user comes and goes.  Both for any       *)
(* tasks, layout and order of the answers.                                 *)
(***************************************************************************)
EXTENDS DetailPanel, SettingsPanels, TLAPS

Deletes == [task: MaybeTask, source: {"detail", "menu"}]
Drafts == [task: MaybeTask, dirty: BOOLEAN]
Panels == [mode: {"none", "create", "edit"}, selected: MaybeTask,
           form: {"blank", "typed"}, draft: Drafts, sync: MaybeTask,
           closing: BOOLEAN, edit: Edits, del: Deletes,
           menu: MaybeTask, quick: MaybeTask, preview: BOOLEAN,
           moved: SUBSET Task, cleared: BOOLEAN, lost: SUBSET Task]
Calls == [at: {"idle", "sent"}, task: MaybeTask,
          source: {"form", "calendar", "detail", "menu", "category"},
          selected: MaybeTask, pending: Edits]

Typed ==
  /\ panel \in Panels /\ listedTasks \subseteq Task
  /\ listStatus \in {"refreshing", "ready"} /\ listingsDue \in 0..MaxListings
  /\ existing \in [now: SUBSET Task, ever: SUBSET Task]
  /\ existing.now \subseteq existing.ever
  /\ inFlight \in [Kinds -> Calls] /\ acts \in 0..MaxActs

(***************************************************************************)
(* editStateSyncTaskIdRef is the task that is edited; there is a draft of  *)
(* it while it is listed, unless the open panel has lost its form.         *)
(***************************************************************************)
DraftIn(p, tasks) ==
  /\ p.mode # "edit" => p.draft = NoDraft /\ p.sync = None /\ ~ p.cleared
  /\ p.draft # NoDraft =>
       /\ p.mode = "edit" /\ p.selected \in tasks
       /\ p.draft.task = p.selected /\ p.sync = p.selected
  /\ p.mode = "edit" /\ ~ p.cleared =>
       /\ p.selected \in tasks /\ p.sync = p.selected /\ p.draft # NoDraft

\* An event that is drawn elsewhere is to be answered, or drawn anew by a listing.
Covered == \A t \in panel.moved \ panel.lost : listingsDue > 0 \/ CoveredBy(t, panel, inFlight)

\* Only a drag on the calendar is reverted.
Revertible(edit) == edit.revert => edit.source = "calendar" /\ edit.task # None

Reverts == Revertible(panel.edit)

PanelInv == Typed /\ DraftIn(panel, listedTasks) /\ Reverts /\ Covered

-----------------------------------------------------------------------------
(***************************************************************************)
(* What the effects after a render make of a page p whose draft they may   *)
(* meet.                                                                   *)
(***************************************************************************)
Ready(p, tasks) ==
  p.mode = "edit" /\ p.selected \in tasks /\ p.sync = p.selected =>
    /\ p.draft # NoDraft => p.draft.task = p.selected
    /\ ~ p.cleared => p.draft # NoDraft

SamePlace(p, q) ==
  /\ q.mode = p.mode /\ q.selected = p.selected /\ q.closing = p.closing
  /\ q.edit = p.edit /\ q.moved = p.moved /\ q.lost = p.lost

LEMMA ConstantTypes ==
  /\ NoDraft \in Drafts /\ NoDraft.task = None
  /\ NoEdit \in Edits /\ NoEdit.task = None /\ ~ NoEdit.revert
  /\ NoDelete \in Deletes /\ Idle \in Calls /\ Idle.at = "idle"
  BY DEF NoDraft, Drafts, NoEdit, Edits, NoDelete, Deletes, Idle, Calls, MaybeTask

LEMMA SyncedFacts ==
  ASSUME NEW p \in Panels, NEW tasks \in SUBSET Task, Ready(p, tasks)
  PROVE  LET q == DraftSynced(p, tasks) IN
         /\ q \in Panels /\ SamePlace(p, q) /\ DraftIn(q, tasks)
         /\ p.mode = "edit" /\ p.selected \in tasks /\ p.sync = p.selected => q = p
<1> DEFINE dropped == [p EXCEPT !.draft = NoDraft, !.cleared = TRUE]
           reset == [p EXCEPT !.sync = None, !.draft = NoDraft, !.cleared = FALSE]
           taken == [p EXCEPT !.sync = p.selected, !.cleared = FALSE,
                              !.draft = [task |-> p.selected, dirty |-> FALSE]]
<1>1. /\ p.selected \in MaybeTask /\ None \in MaybeTask /\ NoDraft \in Drafts
      /\ [task |-> p.selected, dirty |-> FALSE] \in Drafts /\ FALSE \in BOOLEAN
      /\ TRUE \in BOOLEAN
  BY ConstantTypes DEF Panels, MaybeTask, Drafts
<1>2. dropped \in Panels /\ reset \in Panels /\ taken \in Panels
  BY <1>1, Zenon DEF Panels
<1>3. None \notin tasks
  BY IdsAssumption
<1>4. CASE p.mode # "edit"
  <2>1. DraftSynced(p, tasks) = reset
    BY <1>4 DEF DraftSynced
  <2>2. /\ reset.mode = p.mode /\ reset.draft = NoDraft /\ reset.sync = None /\ ~ reset.cleared
        /\ SamePlace(p, reset)
    BY DEF Panels, SamePlace
  <2> QED
    BY <1>2, <1>4, <2>1, <2>2 DEF DraftIn
<1>5. CASE p.mode = "edit" /\ p.selected \notin tasks
  <2>1. DraftSynced(p, tasks) = dropped
    BY <1>5 DEF DraftSynced
  <2>2. /\ dropped.draft = NoDraft /\ dropped.cleared
        /\ SamePlace(p, dropped)
    BY DEF Panels, SamePlace
  <2> QED
    BY <1>2, <1>5, <2>1, <2>2 DEF DraftIn, Ready, SamePlace
<1>6. CASE p.mode = "edit" /\ p.selected \in tasks /\ p.sync = p.selected
  <2>1. DraftSynced(p, tasks) = p
    BY <1>6 DEF DraftSynced
  <2> QED
    BY <1>3, <1>6, <2>1 DEF DraftIn, Ready, SamePlace
<1>7. CASE p.mode = "edit" /\ p.selected \in tasks /\ p.sync # p.selected
  <2>1. DraftSynced(p, tasks) = taken
    BY <1>7 DEF DraftSynced
  <2>2. /\ taken.draft = [task |-> p.selected, dirty |-> FALSE] /\ taken.sync = p.selected
        /\ SamePlace(p, taken)
    BY DEF Panels, SamePlace
  <2>3. taken.draft # NoDraft /\ taken.draft.task = p.selected
    BY <1>3, <1>7, <2>2, ConstantTypes
  <2> QED
    BY <1>2, <1>3, <1>7, <2>1, <2>2, <2>3 DEF DraftIn, SamePlace
<1> QED
  BY <1>4, <1>5, <1>6, <1>7

LEMMA ClosedFacts ==
  ASSUME NEW p \in Panels, NEW pending \in Edits
  PROVE  LET q == Closed(p, pending) IN
         /\ q \in Panels /\ q.mode = "none" /\ q.selected = None /\ q.edit = NoEdit
         /\ q.moved = p.moved \ Reverted(pending) /\ q.lost = p.lost
<1>1. p.moved \ Reverted(pending) \in SUBSET Task /\ None \in MaybeTask /\ NoEdit \in Edits
  BY ConstantTypes DEF Panels, MaybeTask
<1>2. Closed(p, pending) \in Panels
  BY <1>1, Zenon DEF Closed, Panels
<1> QED
  BY <1>2 DEF Closed, Panels

LEMMA SettledFacts ==
  ASSUME NEW p \in Panels, NEW tasks \in SUBSET Task, NEW status, Ready(p, tasks)
  PROVE  LET q == Settled(p, tasks, status) IN
         /\ q \in Panels /\ DraftIn(q, tasks) /\ q.lost = p.lost
         /\ \/ q.selected = p.selected /\ q.edit = p.edit /\ q.moved = p.moved
            \/ q.selected = None /\ q.edit = NoEdit /\ q.moved = p.moved \ Reverted(p.edit)
         /\ p.mode = "edit" /\ p.selected \in tasks /\ p.sync = p.selected => q = p
<1>1. PICK s : s = DraftSynced(p, tasks)
  OBVIOUS
<1>2. /\ s \in Panels /\ SamePlace(p, s) /\ DraftIn(s, tasks)
      /\ p.mode = "edit" /\ p.selected \in tasks /\ p.sync = p.selected => s = p
  BY <1>1, SyncedFacts
<1>3. Settled(p, tasks, status) = DraftSynced(AutoClosed(s, tasks, status), tasks)
  BY <1>1 DEF Settled
<1>4. CASE AutoClosed(s, tasks, status) = s
  <2>1. Ready(s, tasks)
    BY <1>2 DEF DraftIn, Ready
  <2>2. SamePlace(s, DraftSynced(s, tasks)) /\ DraftSynced(s, tasks) \in Panels
        /\ DraftIn(DraftSynced(s, tasks), tasks)
    BY <1>2, <2>1, SyncedFacts
  <2>3. p.mode = "edit" /\ p.selected \in tasks /\ p.sync = p.selected
          => DraftSynced(s, tasks) = p
    BY <1>2, <2>1, SyncedFacts
  <2> QED
    BY <1>2, <1>3, <1>4, <2>2, <2>3 DEF SamePlace
<1>5. CASE AutoClosed(s, tasks, status) # s
  <2>1. /\ s.mode = "edit" /\ s.selected \notin tasks
        /\ AutoClosed(s, tasks, status) = Closed(s, s.edit)
    BY <1>5 DEF AutoClosed
  <2>2. PICK c : c = Closed(s, s.edit)
    OBVIOUS
  <2>3. s.edit \in Edits
    BY <1>2 DEF Panels
  <2>4. /\ c \in Panels /\ c.mode = "none" /\ c.selected = None /\ c.edit = NoEdit
        /\ c.moved = s.moved \ Reverted(s.edit) /\ c.lost = s.lost
    BY <1>2, <2>2, <2>3, ClosedFacts
  <2>5. Ready(c, tasks)
    BY <2>4 DEF Ready
  <2>6. SamePlace(c, DraftSynced(c, tasks)) /\ DraftSynced(c, tasks) \in Panels
        /\ DraftIn(DraftSynced(c, tasks), tasks)
    BY <2>4, <2>5, SyncedFacts
  <2> QED
    BY <1>2, <1>3, <2>1, <2>2, <2>4, <2>6 DEF SamePlace
<1> QED
  BY <1>4, <1>5

-----------------------------------------------------------------------------
(***************************************************************************)
(* A step leaves a page p to the effects, with the draft of before or one  *)
(* of the same task, whatever is selected by then.                         *)
(***************************************************************************)
Drafted(p) ==
  /\ p.sync = panel.sync /\ p.cleared = panel.cleared
  /\ \/ p.draft = panel.draft
     \/ p.draft # NoDraft /\ panel.draft # NoDraft /\ p.draft.task = panel.draft.task

LEMMA DraftedIsReady ==
  ASSUME PanelInv, NEW p, Drafted(p), NEW tasks \in SUBSET Task
  PROVE  Ready(p, tasks)
<1>1. DraftIn(panel, listedTasks) /\ None \notin tasks
  BY IdsAssumption DEF PanelInv
<1> QED
  BY <1>1 DEF Ready, Drafted, DraftIn

LEMMA StepKeeps ==
  ASSUME PanelInv, NEW p \in Panels, Drafted(p), Shows(p), Revertible(p.edit),
         listedTasks' \in SUBSET Task, listStatus' \in {"refreshing", "ready"},
         listingsDue' \in 0..MaxListings, inFlight' \in [Kinds -> Calls], acts' \in 0..MaxActs,
         existing' = existing \/ \E t : existing' = [existing EXCEPT !.now = @ \ {t}],
         \A t \in p.moved \ p.lost : listingsDue' > 0 \/ CoveredBy(t, p, inFlight')
  PROVE  PanelInv'
<1>1. Ready(p, listedTasks')
  BY DraftedIsReady
<1>2. /\ panel' \in Panels /\ DraftIn(panel', listedTasks') /\ panel'.lost = p.lost
      /\ \/ panel'.selected = p.selected /\ panel'.edit = p.edit /\ panel'.moved = p.moved
         \/ /\ panel'.selected = None /\ panel'.edit = NoEdit
            /\ panel'.moved = p.moved \ Reverted(p.edit)
  BY <1>1, SettledFacts DEF Shows
<1>3. /\ existing' \in [now: SUBSET Task, ever: SUBSET Task]
      /\ existing'.ever = existing.ever /\ existing'.now \subseteq existing.now
  BY DEF PanelInv, Typed
<1>4. Typed'
  BY <1>1, <1>2, <1>3 DEF PanelInv, Typed
<1>5. Reverts'
  BY <1>2, ConstantTypes DEF Reverts, Revertible
<1>6. Covered'
  <2> SUFFICES ASSUME NEW t \in panel'.moved \ panel'.lost
               PROVE  listingsDue' > 0 \/ CoveredBy(t, panel', inFlight')
    BY DEF Covered
  <2>1. t \in p.moved \ p.lost
    BY <1>2
  <2>2. CASE panel'.edit = p.edit
    BY <2>1, <2>2 DEF CoveredBy
  <2>3. CASE t \notin Reverted(p.edit)
    BY <2>1, <2>3 DEF CoveredBy, Reverted
  <2> QED
    BY <1>2, <2>2, <2>3
<1> QED
  BY <1>2, <1>4, <1>5, <1>6 DEF PanelInv

(***************************************************************************)
(* A step of the page alone, and one that also sends a request.            *)
(***************************************************************************)
LEMMA PageKeeps ==
  ASSUME PanelInv, NEW p \in Panels, Drafted(p), Shows(p), UNCHANGED listVars,
         Revertible(p.edit), p.lost = panel.lost,
         inFlight' \in [Kinds -> Calls], acts' \in 0..MaxActs,
         \A t \in p.moved : CoveredBy(t, p, inFlight') \/
           (t \in panel.moved /\ (CoveredBy(t, panel, inFlight) => CoveredBy(t, p, inFlight')))
  PROVE  PanelInv'
<1>1. \A t \in p.moved \ p.lost : listingsDue' > 0 \/ CoveredBy(t, p, inFlight')
  BY DEF PanelInv, Covered, listVars
<1> QED
  BY <1>1, StepKeeps DEF PanelInv, Typed, listVars

LEMMA UserKeeps ==
  ASSUME PanelInv, NEW p \in Panels, Drafted(p), UserStep(p) \/ (PageStep(p) /\ UNCHANGED acts),
         p.lost = panel.lost,
         Revertible(p.edit),
         \A t \in p.moved : (p.edit.revert /\ p.edit.task = t) \/
           (t \in panel.moved /\ (panel.edit.revert /\ panel.edit.task = t => p.edit = panel.edit))
  PROVE  PanelInv'
<1>1. acts' \in 0..MaxActs
  BY PanelAssumption DEF PanelInv, Typed, UserStep, ActOfUser
<1>2. UNCHANGED <<listVars, inFlight>> /\ Shows(p) /\ inFlight \in [Kinds -> Calls]
  BY DEF UserStep, PageStep, PanelInv, Typed
<1>3. \A t \in p.moved : CoveredBy(t, p, inFlight') \/
        (t \in panel.moved /\ (CoveredBy(t, panel, inFlight) => CoveredBy(t, p, inFlight')))
  BY <1>2 DEF CoveredBy
<1> QED
  BY <1>1, <1>2, <1>3, PageKeeps

LEMMA RequestFacts ==
  ASSUME PanelInv, NEW kind \in Kinds, NEW t \in MaybeTask,
         NEW source \in {"form", "calendar", "detail", "menu", "category"}, NEW pending \in Edits,
         Request(kind, t, source, pending), Free(kind)
  PROVE  /\ inFlight' \in [Kinds -> Calls]
         /\ inFlight'[kind].at = "sent" /\ inFlight'[kind].task = t
         /\ inFlight'[kind].source = source /\ inFlight'[kind].pending = pending
         /\ \A p, u : CoveredBy(u, p, inFlight) => CoveredBy(u, p, inFlight')
<1> DEFINE call == [at |-> "sent", task |-> t, source |-> source, selected |-> panel.selected,
                    pending |-> pending]
<1>1. call \in Calls /\ inFlight \in [Kinds -> Calls]
  BY DEF Calls, PanelInv, Typed, Panels
<1>2. inFlight' = [inFlight EXCEPT ![kind] = call]
  BY DEF Request
<1>3. inFlight'[kind] = call /\ \A k \in Kinds \ {kind} : inFlight'[k] = inFlight[k]
  BY <1>1, <1>2
<1>4. inFlight[kind].at # "sent" /\ "drop" \in Kinds /\ "update" \in Kinds
  BY DEF Free, Kinds
<1> QED
  BY <1>1, <1>2, <1>3, <1>4 DEF CoveredBy

LEMMA AskKeeps ==
  ASSUME PanelInv, NEW p \in Panels, Drafted(p), Asks(p), p.lost = panel.lost,
         p.edit = panel.edit,
         NEW kind \in Kinds, NEW t \in MaybeTask,
         NEW source \in {"form", "calendar", "detail", "menu", "category"}, NEW pending \in Edits,
         Request(kind, t, source, pending), Free(kind),
         p.moved = panel.moved \/ (p.moved = panel.moved \cup {t} /\ kind = "drop")
  PROVE  PanelInv'
<1>1. acts' \in 0..MaxActs /\ Shows(p) /\ UNCHANGED listVars
  BY PanelAssumption DEF PanelInv, Typed, Asks, ActOfUser
<1>2. /\ inFlight' \in [Kinds -> Calls]
      /\ inFlight'[kind].at = "sent" /\ inFlight'[kind].task = t
      /\ \A u : CoveredBy(u, panel, inFlight) => CoveredBy(u, panel, inFlight')
  BY RequestFacts
<1>3. \A u : CoveredBy(u, p, inFlight') <=> CoveredBy(u, panel, inFlight')
  BY DEF CoveredBy
<1>4. kind = "drop" => CoveredBy(t, p, inFlight')
  BY <1>2 DEF CoveredBy
<1> QED
  BY <1>1, <1>2, <1>3, <1>4, PageKeeps DEF PanelInv, Reverts

(***************************************************************************)
(* An answer after which the list is read again.                           *)
(***************************************************************************)
LEMMA DoneFacts ==
  ASSUME PanelInv, NEW kind \in Kinds, NEW source, Done(kind, source)
  PROVE  /\ inFlight' \in [Kinds -> Calls] /\ UNCHANGED acts
         /\ inFlight[kind] \in Calls /\ inFlight[kind].at = "sent"
         /\ inFlight[kind].source \in source
         /\ \A k \in Kinds \ {kind} : inFlight'[k] = inFlight[k]
  BY ConstantTypes DEF Done, PanelInv, Typed

LEMMA AnswerKeeps ==
  ASSUME PanelInv, NEW p \in Panels, Drafted(p), Shows(p), ReloadDue,
         Revertible(p.edit),
         inFlight' \in [Kinds -> Calls], UNCHANGED acts,
         existing' = existing \/ \E t : existing' = [existing EXCEPT !.now = @ \ {t}]
  PROVE  PanelInv'
<1>1. listingsDue' \in 0..MaxListings /\ listingsDue' > 0 /\ UNCHANGED listedTasks
      /\ listStatus' = "refreshing"
  BY DEF ReloadDue, MaxListings, PanelInv, Typed
<1> QED
  BY <1>1, StepKeeps DEF PanelInv, Typed

-----------------------------------------------------------------------------
(***************************************************************************)
(* The acts of the user.  First those that leave the draft, the dialog of  *)
(* an edit and the events alone.                                           *)
(***************************************************************************)
Untouched(p) ==
  /\ p \in Panels /\ p.edit = panel.edit /\ p.moved = panel.moved /\ p.lost = panel.lost

LEMMA UntouchedKeeps ==
  ASSUME PanelInv, NEW p, Untouched(p), Drafted(p), UserStep(p) \/ (PageStep(p) /\ UNCHANGED acts)
  PROVE  PanelInv'
  BY UserKeeps DEF Untouched, PanelInv, Reverts

LEMMA ClosingEndsKeeps == ASSUME PanelInv, ClosingEnds PROVE PanelInv'
<1> DEFINE p == [panel EXCEPT !.closing = FALSE]
<1>1. panel \in Panels
  BY DEF PanelInv, Typed
<1>2. p \in Panels
  BY <1>1, Zenon DEF Panels
<1>3. Untouched(p) /\ Drafted(p)
  BY <1>1, <1>2 DEF Untouched, Drafted, Panels
<1> QED
  BY <1>3, UntouchedKeeps DEF ClosingEnds

LEMMA CloseKeeps ==
  ASSUME PanelInv, UserStep(Closed(panel, panel.edit))
  PROVE  PanelInv'
<1>1. PICK p : p = Closed(panel, panel.edit)
  OBVIOUS
<1>2. panel \in Panels /\ panel.edit \in Edits
  BY DEF PanelInv, Typed, Panels
<1>3. /\ p \in Panels /\ p.mode = "none" /\ p.selected = None /\ p.edit = NoEdit
      /\ p.moved = panel.moved \ Reverted(panel.edit) /\ p.lost = panel.lost
  BY <1>1, <1>2, ClosedFacts
<1>4. p.sync = panel.sync /\ p.draft = panel.draft /\ p.cleared = panel.cleared
  BY <1>1, <1>2 DEF Closed, Panels
<1>5. Drafted(p)
  BY <1>3, <1>4 DEF Drafted
<1>6. ~ p.edit.revert
  BY <1>3, ConstantTypes
<1>7. \A t \in p.moved : t \in panel.moved /\ ~ (panel.edit.revert /\ panel.edit.task = t)
  BY <1>3 DEF Reverted
<1> QED
  BY <1>1, <1>3, <1>5, <1>6, <1>7, UserKeeps DEF Revertible

LEMMA CreateKeeps ==
  ASSUME PanelInv, NEW p, Untouched(p), Drafted(p), UserStep(CreatePanel(p))
  PROVE  PanelInv'
<1>1. PICK q : q = CreatePanel(p)
  OBVIOUS
<1>2. q \in Panels
  <2>1. None \in MaybeTask /\ p \in Panels
    BY DEF MaybeTask, Untouched
  <2> QED
    BY <1>1, <2>1, Zenon DEF CreatePanel, Panels
<1>3. /\ q.cleared = p.cleared /\ q.sync = p.sync /\ q.draft = p.draft
      /\ q.edit = p.edit /\ q.moved = p.moved /\ q.lost = p.lost
  BY <1>1 DEF CreatePanel, Panels, Untouched
<1> QED
  BY <1>1, <1>2, <1>3, UntouchedKeeps DEF Untouched, Drafted

LEMMA EditKeeps ==
  ASSUME PanelInv, NEW p, Untouched(p), Drafted(p), NEW t \in listedTasks,
         UserStep(EditPanel(p, t))
  PROVE  PanelInv'
<1>1. PICK q : q = EditPanel(p, t)
  OBVIOUS
<1>2. q \in Panels
  <2>1. None \in MaybeTask /\ t \in MaybeTask /\ p \in Panels
    BY DEF MaybeTask, Untouched, PanelInv, Typed
  <2> QED
    BY <1>1, <2>1, Zenon DEF EditPanel, Panels
<1>3. /\ q.sync = p.sync /\ q.draft = p.draft /\ q.cleared = p.cleared
      /\ q.edit = p.edit /\ q.moved = p.moved /\ q.lost = p.lost
  BY <1>1 DEF EditPanel, Panels, Untouched
<1> QED
  BY <1>1, <1>2, <1>3, UntouchedKeeps DEF Untouched, Drafted

LEMMA PreviewUntouched ==
  ASSUME PanelInv, NEW preview \in BOOLEAN
  PROVE  LET p == [panel EXCEPT !.preview = preview] IN
         Untouched(p) /\ Drafted(p)
<1> DEFINE p == [panel EXCEPT !.preview = preview]
<1>1. panel \in Panels
  BY DEF PanelInv, Typed
<1>2. p \in Panels
  BY <1>1, Zenon DEF Panels
<1> QED
  BY <1>1, <1>2 DEF Untouched, Drafted, Panels

LEMMA PanelItselfUntouched == PanelInv => Untouched(panel) /\ Drafted(panel)
  BY DEF PanelInv, Typed, Untouched, Drafted

LEMMA OpenKeeps ==
  ASSUME PanelInv, OpenCreatePanel \/ UsePreview \/ \E t \in Task : OpenTaskDetailPanel(t)
  PROVE  PanelInv'
<1>1. CASE UserStep(CreatePanel(panel))
  BY <1>1, CreateKeeps, PanelItselfUntouched
<1>2. CASE \E preview \in BOOLEAN :
             LET p == [panel EXCEPT !.preview = preview] IN
             \/ UserStep(p) \/ UserStep(CreatePanel(p))
             \/ \E t \in listedTasks : UserStep(EditPanel(p, t))
  <2>1. PICK preview \in BOOLEAN :
             LET p == [panel EXCEPT !.preview = preview] IN
             \/ UserStep(p) \/ UserStep(CreatePanel(p))
             \/ \E t \in listedTasks : UserStep(EditPanel(p, t))
    BY <1>2
  <2>2. PICK p : p = [panel EXCEPT !.preview = preview]
    OBVIOUS
  <2>3. Untouched(p) /\ Drafted(p)
    BY <2>2, PreviewUntouched
  <2>4. UserStep(p) \/ UserStep(CreatePanel(p)) \/ \E t \in listedTasks : UserStep(EditPanel(p, t))
    BY <2>1, <2>2
  <2> QED
    BY <2>3, <2>4, UntouchedKeeps, CreateKeeps, EditKeeps
<1>3. CASE \E t \in listedTasks : UserStep(EditPanel(panel, t))
  BY <1>3, EditKeeps, PanelItselfUntouched
<1> QED
  BY <1>1, <1>2, <1>3 DEF OpenCreatePanel, UsePreview, OpenTaskDetailPanel

LEMMA SelectKeeps ==
  ASSUME PanelInv, NEW t \in Task, HandleEventClick(t) \/ OpenContextMenu(t)
  PROVE  PanelInv'
<1>1. panel \in Panels /\ t \in MaybeTask /\ None \in MaybeTask /\ t \in listedTasks
  BY DEF PanelInv, Typed, MaybeTask, HandleEventClick, OpenContextMenu
<1>2. PICK p \in Panels :
        /\ UserStep(p) /\ p.sync = panel.sync /\ p.draft = panel.draft
        /\ p.cleared = panel.cleared /\ Untouched(p)
  <2>1. CASE UserStep([panel EXCEPT !.closing = FALSE, !.mode = "none", !.selected = t,
                                    !.quick = t, !.menu = None])
    <3> DEFINE q == [panel EXCEPT !.closing = FALSE, !.mode = "none", !.selected = t,
                                  !.quick = t, !.menu = None]
    <3>1. q \in Panels
      BY <1>1, Zenon DEF Panels
    <3>2. /\ q.sync = panel.sync /\ q.draft = panel.draft
          /\ q.cleared = panel.cleared /\ Untouched(q)
      BY <1>1, <3>1 DEF Panels, Untouched
    <3> QED
      BY <2>1, <3>1, <3>2
  <2>2. CASE UserStep([panel EXCEPT !.mode = "edit", !.quick = None, !.selected = t, !.menu = None])
    <3> DEFINE q == [panel EXCEPT !.mode = "edit", !.quick = None, !.selected = t, !.menu = None]
    <3>1. q \in Panels
      BY <1>1, Zenon DEF Panels
    <3>2. /\ q.sync = panel.sync /\ q.draft = panel.draft
          /\ q.cleared = panel.cleared /\ Untouched(q)
      BY <1>1, <3>1 DEF Panels, Untouched
    <3> QED
      BY <2>2, <3>1, <3>2
  <2>3. CASE UserStep([panel EXCEPT !.selected = t, !.menu = t])
    <3> DEFINE q == [panel EXCEPT !.selected = t, !.menu = t]
    <3>1. q \in Panels
      BY <1>1, Zenon DEF Panels
    <3>2. /\ q.sync = panel.sync /\ q.draft = panel.draft
          /\ q.cleared = panel.cleared /\ Untouched(q)
      BY <1>1, <3>1 DEF Panels, Untouched
    <3> QED
      BY <2>3, <3>1, <3>2
  <2> QED
    BY <2>1, <2>2, <2>3 DEF HandleEventClick, OpenContextMenu
<1>3. Drafted(p)
  BY <1>2 DEF Drafted
<1> QED
  BY <1>2, <1>3, UntouchedKeeps

(***************************************************************************)
(* A field of its own changes: a menu, a form, the confirmation of a       *)
(* deletion.                                                               *)
(***************************************************************************)
SameTask(p) == p.mode = panel.mode /\ p.selected = panel.selected /\ p.cleared = panel.cleared

LEMMA FieldFacts ==
  ASSUME PanelInv, NEW q, Untouched(q), Drafted(q), SameTask(q),
         NEW menu \in MaybeTask, NEW del \in Deletes, NEW form \in {"blank", "typed"}
  PROVE  /\ LET p == [q EXCEPT !.menu = menu] IN Untouched(p) /\ Drafted(p) /\ SameTask(p)
         /\ LET p == [q EXCEPT !.quick = menu] IN Untouched(p) /\ Drafted(p) /\ SameTask(p)
         /\ LET p == [q EXCEPT !.del = del] IN Untouched(p) /\ Drafted(p) /\ SameTask(p)
         /\ LET p == [q EXCEPT !.form = form] IN Untouched(p) /\ Drafted(p) /\ SameTask(p)
         /\ LET p == [q EXCEPT !.menu = menu, !.del = del] IN
            Untouched(p) /\ Drafted(p) /\ SameTask(p)
<1> DEFINE a == [q EXCEPT !.menu = menu]
           b == [q EXCEPT !.quick = menu]
           c == [q EXCEPT !.del = del]
           d == [q EXCEPT !.form = form]
           e == [q EXCEPT !.menu = menu, !.del = del]
<1>1. q \in Panels
  BY DEF Untouched
<1>2. a \in Panels /\ b \in Panels
  BY <1>1, Zenon DEF Panels
<1>3. c \in Panels /\ d \in Panels /\ e \in Panels
  BY <1>1, Zenon DEF Panels
<1>4. ASSUME NEW p \in {a, b, c, d, e}
      PROVE  /\ p.mode = q.mode /\ p.selected = q.selected /\ p.sync = q.sync /\ p.draft = q.draft
             /\ p.cleared = q.cleared /\ p.edit = q.edit /\ p.moved = q.moved /\ p.lost = q.lost
  BY <1>1, <1>4 DEF Panels
<1>5. ASSUME NEW p \in {a, b, c, d, e}, p \in Panels PROVE Untouched(p) /\ Drafted(p) /\ SameTask(p)
  BY <1>4, <1>5 DEF Untouched, Drafted, SameTask
<1> QED
  BY <1>2, <1>3, <1>5

LEMMA PanelUntouched == PanelInv => Untouched(panel) /\ Drafted(panel) /\ SameTask(panel)
  BY PanelItselfUntouched DEF SameTask

LEMMA FormKeeps ==
  ASSUME PanelInv, CloseMenu \/ CloseQuickActions \/ TypeInCreateForm \/ CancelDelete
  PROVE  PanelInv'
<1>1. None \in MaybeTask /\ NoDelete \in Deletes
  BY ConstantTypes DEF MaybeTask
<1>2. PICK p : /\ p \in { [panel EXCEPT !.menu = None], [panel EXCEPT !.quick = None],
                          [panel EXCEPT !.form = "typed"], [panel EXCEPT !.del = NoDelete] }
               /\ UserStep(p)
  BY DEF CloseMenu, CloseQuickActions, TypeInCreateForm, CancelDelete
<1>3. /\ LET q == [panel EXCEPT !.menu = None] IN Untouched(q) /\ Drafted(q)
      /\ LET q == [panel EXCEPT !.quick = None] IN Untouched(q) /\ Drafted(q)
  BY <1>1, PanelUntouched, FieldFacts
<1>4. /\ LET q == [panel EXCEPT !.form = "typed"] IN Untouched(q) /\ Drafted(q)
      /\ LET q == [panel EXCEPT !.del = NoDelete] IN Untouched(q) /\ Drafted(q)
  BY <1>1, PanelUntouched, FieldFacts
<1>5. Untouched(p) /\ Drafted(p)
  BY <1>2, <1>3, <1>4
<1> QED
  BY <1>2, <1>5, UntouchedKeeps

LEMMA TypingKeeps ==
  ASSUME PanelInv, TypeInEditForm \/ HandleMoveToNoTime
  PROVE  PanelInv'
<1>1. CASE UserStep(panel)
  BY <1>1, PanelItselfUntouched, UntouchedKeeps
<1>2. CASE panel.draft # NoDraft /\ UserStep([panel EXCEPT !.draft.dirty = TRUE])
  <2> DEFINE p == [panel EXCEPT !.draft.dirty = TRUE]
  <2>1. panel \in Panels /\ panel.draft \in Drafts
    BY DEF PanelInv, Typed, Panels
  <2>2. PICK draft \in Drafts : draft = [panel.draft EXCEPT !.dirty = TRUE]
    BY <2>1 DEF Drafts
  <2>3. p = [panel EXCEPT !.draft = draft] /\ draft.task = panel.draft.task /\ draft.dirty = TRUE
    BY <2>1, <2>2 DEF Panels, Drafts
  <2>4. p \in Panels
    BY <2>1, <2>3, Zenon DEF Panels
  <2>5. draft # NoDraft
    BY <2>3 DEF NoDraft
  <2>6. /\ p.draft = draft /\ p.sync = panel.sync /\ SameTask(p) /\ Untouched(p)
    BY <2>1, <2>3, <2>4 DEF Panels, SameTask, Untouched
  <2>7. Drafted(p)
    BY <1>2, <2>3, <2>5, <2>6 DEF Drafted, SameTask
  <2> QED
    BY <1>2, <2>6, <2>7, UntouchedKeeps
<1> QED
  BY <1>1, <1>2 DEF TypeInEditForm, HandleMoveToNoTime

(***************************************************************************)
(* The dialog of an edit opens.                                            *)
(***************************************************************************)
LEMMA DialogFacts ==
  ASSUME NEW p \in Panels, NEW edit \in Edits
  PROVE  LET q == [p EXCEPT !.edit = edit] IN
         /\ q \in Panels /\ q.edit = edit /\ q.moved = p.moved /\ q.lost = p.lost
         /\ q.mode = p.mode /\ q.selected = p.selected /\ q.sync = p.sync /\ q.draft = p.draft
         /\ q.cleared = p.cleared
<1>1. [p EXCEPT !.edit = edit] \in Panels
  BY Zenon DEF Panels
<1> QED
  BY <1>1 DEF Panels

LEMMA DrawnFacts ==
  ASSUME NEW p \in Panels, NEW moved \in SUBSET Task
  PROVE  LET q == [p EXCEPT !.moved = moved] IN
         /\ q \in Panels /\ q.edit = p.edit /\ q.moved = moved /\ q.lost = p.lost
         /\ q.mode = p.mode /\ q.selected = p.selected /\ q.sync = p.sync /\ q.draft = p.draft
         /\ q.cleared = p.cleared
<1>1. [p EXCEPT !.moved = moved] \in Panels
  BY Zenon DEF Panels
<1> QED
  BY <1>1 DEF Panels

LEMMA DialogKeeps ==
  ASSUME PanelInv, Unblocked, NEW t \in Task, NEW edit \in Edits, NEW p,
         UserStep([p EXCEPT !.edit = edit]),
         \/ p = panel
         \/ p = [panel EXCEPT !.moved = @ \cup {t}] /\ edit.revert /\ edit.task = t,
         Revertible(edit)
  PROVE  PanelInv'
<1> DEFINE q == [p EXCEPT !.edit = edit]
<1>1. panel \in Panels /\ panel.moved \cup {t} \in SUBSET Task
  BY DEF PanelInv, Typed, Panels
<1>2. /\ p \in Panels /\ p.lost = panel.lost /\ SameTask(p)
      /\ p.sync = panel.sync /\ p.draft = panel.draft
      /\ \/ p.moved = panel.moved
         \/ p.moved = panel.moved \cup {t} /\ edit.revert /\ edit.task = t
  <2>1. CASE p = panel
    BY <1>1, <2>1 DEF SameTask
  <2>2. CASE p = [panel EXCEPT !.moved = @ \cup {t}] /\ edit.revert /\ edit.task = t
    <3>1. p = [panel EXCEPT !.moved = panel.moved \cup {t}]
      BY <2>2
    <3> QED
      BY <1>1, <2>2, <3>1, DrawnFacts DEF SameTask
  <2> QED
    BY <2>1, <2>2
<1>3. /\ q \in Panels /\ q.edit = edit /\ q.moved = p.moved /\ q.lost = p.lost
      /\ q.sync = p.sync /\ q.draft = p.draft
      /\ q.mode = p.mode /\ q.selected = p.selected /\ q.cleared = p.cleared
  BY <1>2, DialogFacts
<1>4. Drafted(q)
  BY <1>2, <1>3 DEF Drafted, SameTask
<1>5. ~ panel.edit.revert
  BY ConstantTypes DEF Unblocked
<1>6. UserStep(q)
  OBVIOUS
<1>7. \A u \in q.moved : (q.edit.revert /\ q.edit.task = u) \/
        (u \in panel.moved /\ (panel.edit.revert /\ panel.edit.task = u => q.edit = panel.edit))
  BY <1>2, <1>3, <1>5
<1> HIDE DEF q
<1> QED
  BY <1>2, <1>3, <1>4, <1>6, <1>7, UserKeeps

LEMMA DropKeeps ==
  ASSUME PanelInv, NEW t \in Task, HandleEventDrop(t) \/ ExternalTaskDrop(t)
  PROVE  PanelInv'
<1>1. t \in MaybeTask /\ Unblocked /\ "drop" \in Kinds
  BY DEF MaybeTask, HandleEventDrop, ExternalTaskDrop, Kinds
<1> DEFINE drawn == [panel EXCEPT !.moved = @ \cup {t}]
           ask == [task |-> t, source |-> "calendar", revert |-> TRUE]
           keep == [task |-> t, source |-> "calendar", revert |-> FALSE]
<1>2. ask \in Edits /\ keep \in Edits
  BY <1>1 DEF Edits
<1>3. CASE UserStep([drawn EXCEPT !.edit = ask])
  <2>1. ask.revert /\ ask.task = t /\ Revertible(ask)
    BY IdsAssumption DEF Revertible
  <2>2. PICK p, edit : p = drawn /\ edit = ask
    OBVIOUS
  <2> QED
    BY <1>1, <1>2, <1>3, <2>1, <2>2, DialogKeeps
<1>4. CASE UserStep([panel EXCEPT !.edit = keep])
  <2>1. Revertible(keep)
    BY DEF Revertible
  <2> QED
    BY <1>1, <1>2, <1>4, <2>1, DialogKeeps
<1>5. CASE Free("drop") /\ Request("drop", t, "calendar", NoEdit) /\ Asks(drawn)
  <2>1. panel \in Panels /\ panel.moved \cup {t} \in SUBSET Task
    BY DEF PanelInv, Typed, Panels
  <2>2. /\ drawn \in Panels /\ drawn.edit = panel.edit /\ drawn.moved = panel.moved \cup {t}
        /\ drawn.lost = panel.lost /\ Drafted(drawn)
    BY <2>1, DrawnFacts DEF Drafted
  <2> HIDE DEF drawn
  <2> QED
    BY <1>1, <1>5, <2>2, ConstantTypes, AskKeeps
<1> QED
  BY <1>3, <1>4, <1>5 DEF HandleEventDrop, ExternalTaskDrop

LEMMA UntouchedAsk ==
  ASSUME PanelInv, NEW p, Untouched(p), Drafted(p), Asks(p),
         NEW kind \in Kinds, NEW t \in MaybeTask,
         NEW source \in {"form", "calendar", "detail", "menu", "category"}, NEW pending \in Edits,
         Request(kind, t, source, pending), Free(kind)
  PROVE  PanelInv'
  BY AskKeeps DEF Untouched

LEMMA EditFormKeeps ==
  ASSUME PanelInv, SubmitEditForm \/ ChooseEdit \/ ApplyMobileQuickAction
  PROVE  PanelInv'
<1>1. panel \in Panels /\ panel.edit \in Edits /\ panel.edit.task \in MaybeTask
      /\ panel.edit.source \in {"form", "calendar"} /\ panel.selected \in MaybeTask
      /\ listedTasks \subseteq Task
  BY DEF PanelInv, Typed, Panels, Edits
<1>2. NoEdit \in Edits /\ "update" \in Kinds
  BY ConstantTypes DEF Kinds
<1>3. CASE UserStep(Closed(panel, panel.edit))
  BY <1>3, CloseKeeps
<1>4. CASE SubmitEditForm /\ UserStep([panel EXCEPT !.edit = [task |-> panel.selected,
             source |-> "form", revert |-> FALSE]])
  <2> DEFINE edit == [task |-> panel.selected, source |-> "form", revert |-> FALSE]
  <2>1. edit \in Edits /\ Unblocked /\ panel.selected \in Task
    BY <1>1, <1>4 DEF Edits, SubmitEditForm, PanelInv, DraftIn
  <2> QED
    BY <1>4, <2>1, DialogKeeps DEF Revertible
<1>5. CASE ApplyMobileQuickAction /\ UserStep([panel EXCEPT !.edit = [task |-> panel.quick,
             source |-> "calendar", revert |-> FALSE]])
  <2> DEFINE edit == [task |-> panel.quick, source |-> "calendar", revert |-> FALSE]
  <2>1. panel.quick \in Task /\ Unblocked
    BY <1>1, <1>5 DEF ApplyMobileQuickAction
  <2>2. edit \in Edits
    BY <2>1 DEF Edits, MaybeTask
  <2> QED
    BY <1>5, <2>1, <2>2, DialogKeeps DEF Revertible
<1>6. CASE Asks(panel) /\ Free("update")
           /\ \E t \in MaybeTask, source \in {"form", "calendar"}, pending \in Edits :
                Request("update", t, source, pending)
  BY <1>2, <1>6, PanelItselfUntouched, UntouchedAsk
<1>7. CASE SubmitEditForm
  BY <1>1, <1>2, <1>3, <1>4, <1>6, <1>7 DEF SubmitEditForm
<1>8. CASE ChooseEdit
  BY <1>1, <1>6, <1>8 DEF ChooseEdit
<1>9. CASE ApplyMobileQuickAction
  <2>1. panel.quick \in MaybeTask
    BY <1>1, <1>9 DEF ApplyMobileQuickAction, MaybeTask
  <2> QED
    BY <1>2, <1>5, <1>6, <1>9, <2>1 DEF ApplyMobileQuickAction
<1> QED
  BY <1>7, <1>8, <1>9

LEMMA CancelEditKeeps == ASSUME PanelInv, CancelEdit PROVE PanelInv'
<1> DEFINE moved == panel.moved \ Reverted(panel.edit)
           q == [panel EXCEPT !.edit = NoEdit]
           p == [panel EXCEPT !.edit = NoEdit, !.moved = moved]
<1>1. panel \in Panels /\ moved \in SUBSET Task /\ NoEdit \in Edits
  BY ConstantTypes DEF PanelInv, Typed, Panels
<1>2. p = [q EXCEPT !.moved = moved]
  BY <1>1 DEF Panels
<1>3. /\ p \in Panels /\ p.edit = NoEdit /\ p.moved = moved /\ p.lost = panel.lost
      /\ p.sync = panel.sync /\ p.draft = panel.draft /\ SameTask(p)
  <2>1. /\ q \in Panels /\ q.edit = NoEdit /\ q.lost = panel.lost
        /\ q.sync = panel.sync /\ q.draft = panel.draft /\ SameTask(q)
    BY <1>1, DialogFacts DEF SameTask
  <2> HIDE DEF q
  <2> QED
    BY <1>1, <1>2, <2>1, DrawnFacts DEF SameTask
<1>4. Drafted(p)
  BY <1>3 DEF Drafted, SameTask
<1>5. \A t \in moved : t \in panel.moved /\ ~ (panel.edit.revert /\ panel.edit.task = t)
  BY DEF Reverted
<1>6. UserStep(p)
  BY <1>1 DEF CancelEdit, Panels
<1> HIDE DEF p
<1> QED
  BY <1>3, <1>4, <1>5, <1>6, ConstantTypes, UserKeeps DEF Revertible

LEMMA PromptKeeps ==
  ASSUME PanelInv, NEW q, Untouched(q), Drafted(q), SameTask(q), NEW t \in Task,
         NEW source \in {"detail", "menu"}, Free("delete"), PromptOrDelete(q, t, source)
  PROVE  PanelInv'
<1> DEFINE del == [task |-> t, source |-> source]
           p == [q EXCEPT !.menu = None, !.del = del]
           r == [q EXCEPT !.del = NoDelete]
<1>1. del \in Deletes /\ t \in MaybeTask /\ NoDelete \in Deletes /\ None \in MaybeTask
      /\ "delete" \in Kinds /\ NoEdit \in Edits
  BY ConstantTypes DEF Deletes, MaybeTask, Kinds
<1>2. Untouched(p) /\ Drafted(p)
  BY <1>1, FieldFacts
<1>3. Untouched(r) /\ Drafted(r)
  BY <1>1, FieldFacts
<1>4. CASE UserStep(p)
  BY <1>2, <1>4, UntouchedKeeps
<1>5. CASE Request("delete", t, source, NoEdit) /\ Asks(r)
  BY <1>1, <1>3, <1>5, UntouchedAsk
<1> QED
  BY <1>4, <1>5 DEF PromptOrDelete

LEMMA DeleteAskKeeps ==
  ASSUME PanelInv, DeleteSelectedTask \/ DeleteFromMenu \/ DeleteFromQuickActions
  PROVE  PanelInv'
<1>1. None \in MaybeTask /\ listedTasks \subseteq Task
  BY DEF MaybeTask, PanelInv, Typed
<1>2. CASE DeleteSelectedTask
  <2>1. panel.selected \in Task
    BY <1>1, <1>2 DEF DeleteSelectedTask, PanelInv, DraftIn
  <2> QED
    BY <1>2, <2>1, PanelUntouched, PromptKeeps DEF DeleteSelectedTask
<1>3. CASE DeleteFromMenu
  BY <1>1, <1>3, PanelUntouched, PromptKeeps DEF DeleteFromMenu
<1>4. CASE DeleteFromQuickActions
  <2> DEFINE p == [panel EXCEPT !.quick = None]
  <2>1. Untouched(p) /\ Drafted(p) /\ SameTask(p)
    BY <1>1, ConstantTypes, PanelUntouched, FieldFacts
  <2>2. panel.quick \in Task /\ Free("delete") /\ PromptOrDelete(p, panel.quick, "detail")
    BY <1>1, <1>4 DEF DeleteFromQuickActions
  <2> HIDE DEF p
  <2> QED
    BY <2>1, <2>2, PromptKeeps
<1> QED
  BY <1>2, <1>3, <1>4

LEMMA RequestKeeps ==
  ASSUME PanelInv, SubmitCreateForm \/ ChooseDelete \/ DuplicateTask \/ DeleteCategory
  PROVE  PanelInv'
<1>1. /\ None \in MaybeTask /\ NoDelete \in Deletes /\ NoEdit \in Edits
      /\ panel.del.task \in MaybeTask /\ panel.menu \in MaybeTask
      /\ panel.del.source \in {"detail", "menu"}
      /\ "create" \in Kinds /\ "delete" \in Kinds /\ "copy" \in Kinds
  BY ConstantTypes DEF MaybeTask, PanelInv, Typed, Panels, Deletes, Kinds
<1>2. CASE \/ Free("create") /\ Request("create", None, "form", NoEdit) /\ Asks(panel)
           \/ Free("copy") /\ Request("copy", panel.menu, "menu", NoEdit) /\ Asks(panel)
           \/ Free("delete") /\ Request("delete", None, "category", NoEdit) /\ Asks(panel)
  BY <1>1, <1>2, PanelUntouched, UntouchedAsk
<1>3. CASE ChooseDelete
  <2> DEFINE p == [panel EXCEPT !.del = NoDelete]
  <2>1. Untouched(p) /\ Drafted(p)
    BY <1>1, PanelUntouched, FieldFacts
  <2>2. Free("delete") /\ Request("delete", panel.del.task, panel.del.source, NoEdit) /\ Asks(p)
    BY <1>3 DEF ChooseDelete
  <2> HIDE DEF p
  <2> QED
    BY <1>1, <2>1, <2>2, UntouchedAsk
<1> QED
  BY <1>2, <1>3 DEF SubmitCreateForm, DuplicateTask, DeleteCategory

-----------------------------------------------------------------------------
(***************************************************************************)
(* The answers.  After one of a request that succeeded the list is read    *)
(* again, which draws every event where it is stored.                      *)
(***************************************************************************)
LEMMA CloseAnswer ==
  ASSUME PanelInv, NEW p \in Panels, p.sync = panel.sync, p.draft = panel.draft,
         p.cleared = panel.cleared, NEW pending \in Edits, Shows(Closed(p, pending)), ReloadDue,
         inFlight' \in [Kinds -> Calls], UNCHANGED acts,
         existing' = existing \/ \E t : existing' = [existing EXCEPT !.now = @ \ {t}]
  PROVE  PanelInv'
<1>1. PICK q : q = Closed(p, pending)
  OBVIOUS
<1>2. q \in Panels /\ q.mode = "none" /\ q.selected = None /\ q.edit = NoEdit
  BY <1>1, ClosedFacts
<1>3. q.sync = p.sync /\ q.draft = p.draft /\ q.cleared = p.cleared
  BY <1>1 DEF Closed, Panels
<1> QED
  BY <1>1, <1>2, <1>3, ConstantTypes, AnswerKeeps DEF Drafted, Revertible

LEMMA CreateDoneKeeps == ASSUME PanelInv, CreateDone PROVE PanelInv'
<1>1. PICK p : p = [panel EXCEPT !.form = "blank"]
  OBVIOUS
<1>2. Untouched(p) /\ p.sync = panel.sync /\ p.draft = panel.draft /\ p.cleared = panel.cleared
  <2>1. Untouched(p)
    BY <1>1, ConstantTypes, PanelUntouched, FieldFacts DEF MaybeTask
  <2> QED
    BY <1>1, <2>1 DEF PanelInv, Typed, Panels
<1>3. inFlight' \in [Kinds -> Calls] /\ UNCHANGED acts
  BY DoneFacts DEF CreateDone, Kinds
<1> QED
  BY <1>1, <1>2, <1>3, CloseAnswer, ConstantTypes DEF CreateDone, Untouched

LEMMA UpdateDoneKeeps == ASSUME PanelInv, UpdateDone PROVE PanelInv'
<1> DEFINE c == inFlight["update"]
           q == [panel EXCEPT !.edit = NoEdit]
           moved == panel.moved \ {c.task}
<1>1. PICK p : p = [panel EXCEPT !.edit = NoEdit, !.moved = @ \ {c.task}]
  OBVIOUS
<1>2. panel \in Panels /\ moved \in SUBSET Task /\ NoEdit \in Edits
  BY ConstantTypes DEF PanelInv, Typed, Panels
<1>3. p = [q EXCEPT !.moved = moved]
  BY <1>1, <1>2 DEF Panels
<1>4. /\ p \in Panels /\ p.edit = NoEdit
      /\ p.sync = panel.sync /\ p.draft = panel.draft /\ SameTask(p)
  <2>1. /\ q \in Panels /\ q.edit = NoEdit
        /\ q.sync = panel.sync /\ q.draft = panel.draft /\ SameTask(q)
    BY <1>2, DialogFacts DEF SameTask
  <2> HIDE DEF q
  <2> QED
    BY <1>2, <1>3, <2>1, DrawnFacts DEF SameTask
<1>5. inFlight' \in [Kinds -> Calls] /\ UNCHANGED acts /\ c.pending \in Edits
  BY DoneFacts DEF UpdateDone, Kinds, Calls
<1>6. Shows(IF c.source = "form" THEN Closed(p, c.pending) ELSE p) /\ ReloadDue
      /\ UNCHANGED existing
  BY <1>1 DEF UpdateDone
<1>7. CASE c.source = "form"
  BY <1>4, <1>5, <1>6, <1>7, CloseAnswer DEF SameTask
<1>8. CASE c.source # "form"
  <2>1. Drafted(p)
    BY <1>4 DEF Drafted, SameTask
  <2> QED
    BY <1>4, <1>5, <1>6, <1>8, <2>1, ConstantTypes, AnswerKeeps DEF Revertible
<1> QED
  BY <1>7, <1>8

LEMMA DeselectedKeeps ==
  ASSUME PanelInv, NEW q, Untouched(q), Drafted(q), NEW s \in MaybeTask,
         Shows([q EXCEPT !.selected = s]), ReloadDue,
         inFlight' \in [Kinds -> Calls], UNCHANGED acts,
         existing' = existing \/ \E t : existing' = [existing EXCEPT !.now = @ \ {t}]
  PROVE  PanelInv'
<1>1. PICK p : p = [q EXCEPT !.selected = s]
  OBVIOUS
<1>2. q \in Panels
  BY DEF Untouched
<1>3. p \in Panels
  BY <1>1, <1>2, Zenon DEF Panels
<1>4. /\ p.cleared = q.cleared /\ p.sync = q.sync /\ p.draft = q.draft /\ p.edit = q.edit
  BY <1>1, <1>2 DEF Panels
<1> QED
  BY <1>1, <1>3, <1>4, AnswerKeeps DEF PanelInv, Reverts, Untouched, Drafted

LEMMA DeleteDoneKeeps == ASSUME PanelInv, DeleteDone PROVE PanelInv'
<1> DEFINE c == inFlight["delete"]
           s == IF panel.selected = c.task THEN None ELSE panel.selected
<1>1. None \in MaybeTask /\ NoDelete \in Deletes /\ NoEdit \in Edits
  BY ConstantTypes DEF MaybeTask
<1>2. PICK p : p = [panel EXCEPT !.del = NoDelete]
  OBVIOUS
<1>3. PICK q : q = [p EXCEPT !.menu = None]
  OBVIOUS
<1>4. Untouched(p) /\ Drafted(p) /\ SameTask(p)
  BY <1>1, <1>2, PanelUntouched, FieldFacts
<1>5. Untouched(q) /\ Drafted(q) /\ SameTask(q)
  BY <1>1, <1>3, <1>4, FieldFacts
<1>6. p.sync = panel.sync /\ p.draft = panel.draft /\ p.cleared = panel.cleared
  BY <1>2 DEF PanelInv, Typed, Panels
<1>7. /\ inFlight' \in [Kinds -> Calls] /\ UNCHANGED acts /\ ReloadDue
      /\ \E t : existing' = [existing EXCEPT !.now = @ \ {t}]
  BY DoneFacts DEF DeleteDone, Kinds
<1>8. Shows(Closed(p, NoEdit)) \/ Shows([q EXCEPT !.selected = s])
  <2>1. panel \in Panels /\ p \in Panels /\ p.selected = panel.selected
    BY <1>2, <1>4 DEF Untouched, PanelInv, Typed, SameTask
  <2>2. [q EXCEPT !.selected = s]
          = [p EXCEPT !.menu = None, !.selected = IF @ = c.task THEN None ELSE @]
    BY <1>3, <2>1 DEF Panels
  <2> QED
    BY <1>2, <2>2 DEF DeleteDone
<1>9. s \in MaybeTask
  BY <1>1 DEF PanelInv, Typed, Panels
<1> HIDE DEF s
<1> QED
  BY <1>1, <1>4, <1>5, <1>6, <1>7, <1>8, <1>9, CloseAnswer, DeselectedKeeps DEF Untouched

LEMMA ListAnswerKeeps ==
  ASSUME PanelInv, CategoryDone \/ CopyDone \/ DropDone \/ PollDue
  PROVE  PanelInv'
<1>1. ReloadDue /\ UNCHANGED <<existing, acts>> /\ inFlight' \in [Kinds -> Calls]
  <2>1. CASE PollDue
    BY <2>1 DEF PollDue, PanelInv, Typed
  <2>2. CASE CategoryDone \/ CopyDone \/ DropDone
    BY <2>2, DoneFacts DEF CategoryDone, CopyDone, DropDone, Kinds
  <2> QED
    BY <2>1, <2>2
<1>2. CASE CategoryDone
  <2>1. panel.selected \in MaybeTask /\ None \in MaybeTask
    BY DEF PanelInv, Typed, Panels, MaybeTask
  <2> QED
    BY <1>1, <1>2, <2>1, PanelUntouched, DeselectedKeeps DEF CategoryDone
<1>3. CASE CopyDone
  <2> DEFINE p == [panel EXCEPT !.menu = None]
  <2>1. Untouched(p) /\ Drafted(p) /\ Shows(p)
    BY <1>3, ConstantTypes, PanelUntouched, FieldFacts DEF MaybeTask, CopyDone
  <2> HIDE DEF p
  <2> QED
    BY <1>1, <2>1, AnswerKeeps DEF Untouched, PanelInv, Reverts
<1>4. CASE DropDone
  <2> DEFINE moved == panel.moved \ {inFlight["drop"].task}
             p == [panel EXCEPT !.moved = moved]
  <2>1. panel \in Panels /\ moved \in SUBSET Task
    BY DEF PanelInv, Typed, Panels
  <2>2. p \in Panels /\ p.edit = panel.edit /\ Drafted(p) /\ Shows(p)
    BY <1>4, <2>1, DrawnFacts DEF Drafted, DropDone
  <2> HIDE DEF p
  <2> QED
    BY <1>1, <2>2, AnswerKeeps DEF PanelInv, Reverts
<1>5. CASE PollDue
  BY <1>1, <1>5, PanelUntouched, AnswerKeeps DEF PollDue, Untouched, PanelInv, Reverts
<1> QED
  BY <1>2, <1>3, <1>4, <1>5

LEMMA RedrawnFacts ==
  ASSUME PanelInv, NEW lost \in SUBSET Task
  PROVE  /\ LET p == [panel EXCEPT !.moved = {}, !.lost = {}]
            IN p \in Panels /\ p.moved = {} /\ Drafted(p) /\ SameTask(p) /\ p.edit = panel.edit
         /\ LET p == [panel EXCEPT !.lost = lost]
            IN /\ p \in Panels /\ p.moved = panel.moved /\ p.lost = lost
               /\ Drafted(p) /\ SameTask(p) /\ p.edit = panel.edit
         /\ LET p == [panel EXCEPT !.mode = "none", !.selected = None, !.moved = {}, !.lost = {}]
            IN p \in Panels /\ p.moved = {} /\ Drafted(p) /\ p.edit = panel.edit
<1> DEFINE a == [panel EXCEPT !.moved = {}, !.lost = {}]
           b == [panel EXCEPT !.lost = lost]
           c == [panel EXCEPT !.mode = "none", !.selected = None, !.moved = {}, !.lost = {}]
<1>1. panel \in Panels /\ {} \in SUBSET Task /\ None \in MaybeTask
  BY DEF PanelInv, Typed, MaybeTask
<1>2. a \in Panels /\ b \in Panels
  BY <1>1, Zenon DEF Panels
<1>3. c \in Panels
  BY <1>1, Zenon DEF Panels
<1>4. a.moved = {} /\ Drafted(a) /\ SameTask(a) /\ a.edit = panel.edit
  BY <1>1 DEF Drafted, SameTask, Panels
<1>5. /\ b.moved = panel.moved /\ b.lost = lost
      /\ Drafted(b) /\ SameTask(b) /\ b.edit = panel.edit
  BY <1>1 DEF Drafted, SameTask, Panels
<1>6. c.moved = {} /\ Drafted(c) /\ c.edit = panel.edit
  BY <1>1 DEF Drafted, Panels
<1> QED
  BY <1>2, <1>3, <1>4, <1>5, <1>6

LEMMA ListingKeeps == ASSUME PanelInv, ListingDone PROVE PanelInv'
<1> DEFINE p == [panel EXCEPT !.moved = {}, !.lost = {}]
<1>1. p \in Panels /\ p.moved = {} /\ p.edit = panel.edit /\ Drafted(p)
  BY RedrawnFacts
<1>2. /\ listingsDue' \in 0..MaxListings /\ listedTasks' \in SUBSET Task /\ listStatus' = "ready"
      /\ UNCHANGED <<existing, inFlight, acts>> /\ Shows(p)
  BY DEF ListingDone, Listings, PanelInv, Typed, MaxListings
<1> HIDE DEF p
<1> QED
  BY <1>1, <1>2, StepKeeps DEF PanelInv, Typed, Reverts

(***************************************************************************)
(* A listing that fails leaves the events where they are drawn: those that *)
(* only it would have put right are noted as lost.                         *)
(***************************************************************************)
LEMMA ListingFailsKeeps == ASSUME PanelInv, ListingFails PROVE PanelInv'
<1>1. PICK lost \in SUBSET Task :
        lost = panel.lost \cup {t \in panel.moved :
                 listingsDue' = 0 /\ ~ CoveredBy(t, panel, inFlight)}
  BY DEF PanelInv, Typed, Panels
<1> DEFINE p == [panel EXCEPT !.lost = lost]
<1>2. /\ p \in Panels /\ p.moved = panel.moved /\ p.lost = lost
      /\ p.edit = panel.edit /\ Drafted(p)
  BY RedrawnFacts
<1>3. /\ listingsDue' \in 0..MaxListings /\ UNCHANGED listedTasks
      /\ listStatus' \in {"refreshing", "ready"} /\ listedTasks \in SUBSET Task
      /\ UNCHANGED <<existing, inFlight, acts>>
  BY DEF ListingFails, PanelInv, Typed, MaxListings
<1>4. Shows(p)
  <2>1. p = [panel EXCEPT !.lost = @ \cup {t \in panel.moved :
                             listingsDue' = 0 /\ ~ CoveredBy(t, panel, inFlight)}]
    BY <1>1 DEF PanelInv, Typed, Panels
  <2> HIDE DEF p
  <2> QED
    BY <2>1 DEF ListingFails
<1> HIDE DEF p
<1>5. ASSUME NEW t \in p.moved \ p.lost PROVE listingsDue' > 0 \/ CoveredBy(t, p, inFlight')
  BY <1>1, <1>2, <1>3, <1>5 DEF CoveredBy, MaxListings
<1> QED
  BY <1>2, <1>3, <1>4, <1>5, StepKeeps DEF PanelInv, Typed, Reverts

LEMMA ExpiryKeeps == ASSUME PanelInv, SessionExpires PROVE PanelInv'
<1> DEFINE p == [panel EXCEPT !.mode = "none", !.selected = None, !.moved = {}, !.lost = {}]
<1>1. p \in Panels /\ p.moved = {} /\ p.edit = panel.edit /\ Drafted(p)
  BY RedrawnFacts
<1>2. /\ listingsDue' \in 0..MaxListings /\ listedTasks' \in SUBSET Task
      /\ listStatus' = "refreshing" /\ UNCHANGED <<existing, inFlight>> /\ Shows(p)
      /\ acts' \in 0..MaxActs
  BY PanelAssumption DEF SessionExpires, ActOfUser, PanelInv, Typed, MaxListings
<1> HIDE DEF p
<1> QED
  BY <1>1, <1>2, StepKeeps DEF PanelInv, Typed, Reverts

(***************************************************************************)
(* A failure: a drop that failed is put back; one whose dialog asked for   *)
(* the update too, and the move of a dialog that another update closes is  *)
(* noted as lost.                                                          *)
(***************************************************************************)
LEMMA FailureCovers ==
  ASSUME PanelInv, NEW kind \in Kinds, RequestFails(kind), NEW t,
         t \in panel.moved \ panel.lost, listingsDue = 0,
         kind = "drop" => inFlight["drop"].task # t,
         kind = "update" /\ inFlight["update"].source = "calendar" =>
           t \notin Reverted(inFlight["update"].pending)
  PROVE  CoveredBy(t, panel, inFlight')
<1>1. CoveredBy(t, panel, inFlight)
  BY DEF PanelInv, Covered
<1>2. \A k \in Kinds \ {kind} : inFlight'[k] = inFlight[k]
  BY DoneFacts DEF RequestFails
<1>3. "drop" \in Kinds /\ "update" \in Kinds
  BY DEF Kinds
<1> QED
  BY <1>1, <1>2, <1>3 DEF CoveredBy, Reverted

LEMMA FailureKeeps ==
  ASSUME PanelInv, NEW kind \in Kinds, RequestFails(kind)
  PROVE  PanelInv'
<1> DEFINE c == inFlight[kind]
           gone == Reverted(panel.edit) \ Reverted(c.pending)
<1>1. /\ inFlight' \in [Kinds -> Calls] /\ UNCHANGED <<listVars, acts>> /\ c \in Calls
  BY DoneFacts DEF RequestFails
<1>2. panel \in Panels /\ NoEdit \in Edits /\ panel.edit \in Edits
  BY ConstantTypes DEF PanelInv, Typed, Panels
<1>3. CASE kind = "drop"
  <2> DEFINE moved == panel.moved \ {c.task}
             p == [panel EXCEPT !.moved = moved]
  <2>1. moved \in SUBSET Task
    BY <1>2 DEF Panels
  <2>2. /\ p \in Panels /\ p.edit = panel.edit /\ p.moved = moved /\ p.lost = panel.lost
        /\ Drafted(p)
    BY <1>2, <2>1, DrawnFacts DEF Drafted
  <2>3. Shows(p)
    BY <1>3 DEF RequestFails
  <2>4. ASSUME NEW t \in p.moved \ p.lost PROVE listingsDue > 0 \/ CoveredBy(t, p, inFlight')
    <3>1. t \in panel.moved \ panel.lost /\ t # inFlight["drop"].task
      BY <1>3, <2>2, <2>4
    <3>2. listingsDue = 0 => CoveredBy(t, panel, inFlight')
      BY <1>3, <3>1, FailureCovers
    <3>3. listingsDue \in Nat
      BY DEF PanelInv, Typed
    <3> QED
      BY <2>2, <3>2, <3>3 DEF CoveredBy
  <2> HIDE DEF p
  <2> QED
    BY <1>1, <2>2, <2>3, <2>4, StepKeeps DEF PanelInv, Typed, Reverts, listVars
<1>4. CASE kind = "update" /\ c.source = "calendar"
  <2> DEFINE moved == panel.moved \ Reverted(c.pending)
             lost == panel.lost \cup gone
             p == [panel EXCEPT !.edit = NoEdit, !.moved = moved, !.lost = lost]
  <2>1. moved \in SUBSET Task /\ lost \in SUBSET Task
    <3>1. panel.edit.revert => panel.edit.task \in Task
      BY <1>2 DEF Edits, MaybeTask, PanelInv, Reverts, Revertible
    <3>2. gone \subseteq Task
      BY <3>1 DEF Reverted
    <3> QED
      BY <1>2, <3>2 DEF Panels
  <2>2. p \in Panels
    BY <1>2, <2>1, Zenon DEF Panels
  <2>3. /\ p.edit = NoEdit /\ p.moved = moved /\ p.lost = lost /\ Drafted(p)
    BY <1>2 DEF Drafted, Panels
  <2>4. Shows(p)
    <3>1. p = [panel EXCEPT !.edit = NoEdit, !.moved = @ \ Reverted(c.pending),
                            !.lost = @ \cup (Reverted(panel.edit) \ Reverted(c.pending))]
      BY <1>2 DEF Panels
    <3> HIDE DEF p
    <3> QED
      BY <1>4, <3>1 DEF RequestFails
  <2>5. ASSUME NEW t \in p.moved \ p.lost PROVE listingsDue > 0 \/ CoveredBy(t, p, inFlight')
    <3>1. t \in panel.moved \ panel.lost /\ t \notin Reverted(inFlight["update"].pending)
          /\ t \notin Reverted(panel.edit)
      BY <1>4, <2>3, <2>5
    <3>2. listingsDue = 0 => CoveredBy(t, panel, inFlight')
      BY <1>4, <3>1, FailureCovers
    <3>3. listingsDue \in Nat
      BY DEF PanelInv, Typed
    <3> QED
      BY <2>3, <3>1, <3>2, <3>3 DEF CoveredBy, Reverted
  <2> HIDE DEF p
  <2> QED
    BY <1>1, <2>2, <2>3, <2>4, <2>5, ConstantTypes, StepKeeps
       DEF PanelInv, Typed, listVars, Revertible
<1>5. CASE kind # "drop" /\ ~ (kind = "update" /\ c.source = "calendar")
  <2>1. Shows(panel)
    BY <1>5 DEF RequestFails
  <2>2. ASSUME NEW t \in panel.moved \ panel.lost
        PROVE  listingsDue > 0 \/ CoveredBy(t, panel, inFlight')
    <3>1. listingsDue = 0 => CoveredBy(t, panel, inFlight')
      BY <1>5, <2>2, FailureCovers
    <3> QED
      BY <3>1 DEF PanelInv, Typed
  <2> QED
    BY <1>1, <1>2, <2>1, <2>2, PanelItselfUntouched, StepKeeps
    DEF PanelInv, Typed, Reverts, listVars
<1> QED
  BY <1>3, <1>4, <1>5

(***************************************************************************)
(* What is changed elsewhere touches nothing here.                         *)
(***************************************************************************)
LEMMA ElsewhereKeeps ==
  ASSUME PanelInv, NEW t \in Task, TaskComesOrGoes(t)
  PROVE  PanelInv'
<1>1. /\ UNCHANGED <<panel, listedTasks, listStatus, listingsDue, inFlight>>
      /\ acts' \in 0..MaxActs
  BY PanelAssumption DEF TaskComesOrGoes, ActOfUser, PanelInv, Typed
<1>2. /\ existing' \in [now: SUBSET Task, ever: SUBSET Task]
      /\ existing'.now \subseteq existing'.ever
  BY DEF TaskComesOrGoes, PanelInv, Typed
<1>3. Typed'
  BY <1>1, <1>2 DEF PanelInv, Typed
<1>4. Covered'
  BY <1>1 DEF PanelInv, Covered, CoveredBy
<1> QED
  BY <1>1, <1>3, <1>4 DEF PanelInv, DraftIn, Reverts

-----------------------------------------------------------------------------
LEMMA InitPanelInv == PanelInit => PanelInv
<1> SUFFICES ASSUME PanelInit PROVE PanelInv
  OBVIOUS
<1>1. NoPanel \in Panels /\ NoPanel.mode = "none" /\ NoPanel.selected = None
      /\ NoPanel.draft = NoDraft /\ NoPanel.sync = None /\ ~ NoPanel.cleared
      /\ NoPanel.edit = NoEdit /\ NoPanel.moved = {}
  BY ConstantTypes DEF NoPanel, Panels, MaybeTask
<1>2. panel = NoPanel
  BY DEF PanelInit
<1>3. Typed
  BY <1>1, <1>2, PanelAssumption, ConstantTypes DEF PanelInit, Typed, MaxListings
<1>4. DraftIn(panel, listedTasks) /\ Reverts /\ Covered
  BY <1>1, <1>2, ConstantTypes
  DEF PanelInit, DraftIn, Reverts, Revertible, Covered
<1> QED
  BY <1>3, <1>4 DEF PanelInv

LEMMA NextPanelInv == PanelInv /\ [PanelNext]_panelVars => PanelInv'
<1> SUFFICES ASSUME PanelInv, [PanelNext]_panelVars PROVE PanelInv'
  OBVIOUS
<1>1. CASE Background
  <2>1. CASE \/ CreateDone \/ UpdateDone \/ DeleteDone \/ CategoryDone
             \/ CopyDone \/ DropDone
    BY <2>1, CreateDoneKeeps, UpdateDoneKeeps, DeleteDoneKeeps, ListAnswerKeeps
  <2>2. CASE \E k \in Kinds : RequestFails(k)
    BY <2>2, FailureKeeps
  <2>3. CASE \E t \in Task : TaskComesOrGoes(t)
    BY <2>3, ElsewhereKeeps
  <2>4. CASE \/ ListingDone \/ ListingFails \/ PollDue
             \/ ClosingEnds \/ SessionExpires
    BY <2>4, ListingKeeps, ListingFailsKeeps, ListAnswerKeeps, ClosingEndsKeeps, ExpiryKeeps
  <2> QED
    BY <1>1, <2>1, <2>2, <2>3, <2>4 DEF Background
<1>2. CASE CloseDetailPanel \/ OpenCreatePanel \/ UsePreview
  BY <1>2, CloseKeeps, OpenKeeps DEF CloseDetailPanel
<1>3. CASE TypeInCreateForm \/ TypeInEditForm \/ HandleMoveToNoTime
  BY <1>3, FormKeeps, TypingKeeps
<1>4. CASE CloseMenu \/ CloseQuickActions
  BY <1>4, FormKeeps
<1>5. CASE \E t \in Task : \/ OpenTaskDetailPanel(t) \/ HandleEventClick(t)
                           \/ OpenContextMenu(t) \/ HandleEventDrop(t)
                           \/ ExternalTaskDrop(t)
  BY <1>5, OpenKeeps, SelectKeeps, DropKeeps
<1>6. CASE SubmitCreateForm \/ SubmitEditForm \/ ChooseEdit \/ CancelEdit
  BY <1>6, RequestKeeps, EditFormKeeps, CancelEditKeeps
<1>7. CASE ApplyMobileQuickAction \/ DuplicateTask \/ DeleteCategory
  BY <1>7, RequestKeeps, EditFormKeeps
<1>8. CASE DeleteSelectedTask \/ DeleteFromMenu \/ DeleteFromQuickActions
  BY <1>8, DeleteAskKeeps
<1>9. CASE ChooseDelete \/ CancelDelete
  BY <1>9, RequestKeeps, FormKeeps
<1>10. CASE UNCHANGED panelVars
  BY <1>10 DEF panelVars, PanelInv, Typed, DraftIn, Reverts, Revertible, Covered,
     CoveredBy
<1> QED
  BY <1>1, <1>2, <1>3, <1>4, <1>5, <1>6, <1>7, <1>8, <1>9, <1>10 DEF PanelNext

LEMMA PanelInvAlways == PanelSpec => []PanelInv
  BY InitPanelInv, NextPanelInv, PTL DEF PanelSpec

(***************************************************************************)
(* The state of the panel, its dialogs, menus and requests stays           *)
(* well-formed (App.tsx).                                                  *)
(***************************************************************************)
THEOREM PanelTypes == PanelSpec => []PanelTypeOK
<1>1. PanelInv => PanelTypeOK
  BY DEF PanelInv, Typed, PanelTypeOK, Panels, Drafts, Deletes, Calls
<1> QED
  BY <1>1, PanelInvAlways, PTL

(***************************************************************************)
(* The edit form is there exactly while its task is listed, with the draft *)
(* of that task, whatever was selected, deleted, listed or answered before *)
(* (editStateSyncTaskIdRef and the effects about it), unless a deletion    *)
(* cleared the selection of the open panel, or a late listing lacked the   *)
(* task.                                                                   *)
(***************************************************************************)
THEOREM DraftIsOwn == PanelSpec => []DraftOwn
<1>1. PanelInv => DraftOwn
  BY DEF PanelInv, DraftIn, DraftOwn
<1> QED
  BY <1>1, PanelInvAlways, PTL

(***************************************************************************)
(* No event is drawn for ever where it was dragged to: its request or its  *)
(* dialog is still open, or a listing that puts it right is due, unless    *)
(* the failure of another update closed the dialog or the listing failed   *)
(* (handleEventDrop, closeDetailPanel, applyTaskEdit, refreshTasks).       *)
(***************************************************************************)
THEOREM NoGhostStays == PanelSpec => []NoGhost
<1>1. PanelInv => NoGhost
  BY DEF PanelInv, Covered, NoGhost
<1> QED
  BY <1>1, PanelInvAlways, PTL

(***************************************************************************)
(* What happens in the background, unless it closes the panel or ends the  *)
(* session, hands the effects a page with the same mode, selection and     *)
(* draft.                                                                  *)
(***************************************************************************)
SameDraft(p) == SameTask(p) /\ p.sync = panel.sync /\ p.draft = panel.draft

LEMMA AnswerPage ==
  ASSUME PanelInv, ~ ClosesPanel, CreateDone \/ UpdateDone \/ DeleteDone \/ CategoryDone
  PROVE  \E p \in Panels : Shows(p) /\ SameDraft(p)
<1>1. panel \in Panels /\ NoEdit \in Edits /\ NoDelete \in Deletes /\ None \in MaybeTask
  BY ConstantTypes DEF PanelInv, Typed, MaybeTask
<1>2. CASE CreateDone
  BY <1>2 DEF ClosesPanel
<1>3. CASE UpdateDone
  <2> DEFINE moved == panel.moved \ {inFlight["update"].task}
             p == [panel EXCEPT !.edit = NoEdit, !.moved = moved]
  <2>1. moved \in SUBSET Task
    BY <1>1 DEF Panels
  <2>2. p \in Panels
    BY <1>1, <2>1, Zenon DEF Panels
  <2>3. SameDraft(p)
    BY <1>1, <2>2 DEF SameDraft, SameTask, Panels
  <2>4. p = [panel EXCEPT !.edit = NoEdit, !.moved = @ \ {inFlight["update"].task}]
    BY <1>1 DEF Panels
  <2> HIDE DEF p
  <2>5. Shows(p)
    BY <1>3, <2>4 DEF UpdateDone, ClosesPanel
  <2> QED
    BY <2>2, <2>3, <2>5
<1>4. CASE DeleteDone
  <2> DEFINE p == [panel EXCEPT !.del = NoDelete, !.menu = None]
  <2>1. p \in Panels
    BY <1>1, Zenon DEF Panels
  <2>2. SameDraft(p)
    BY <1>1, <2>1 DEF SameDraft, SameTask, Panels
  <2>3. /\ inFlight["delete"].source # "detail"
        /\ inFlight["delete"].selected # inFlight["delete"].task
        /\ panel.selected # inFlight["delete"].task
    BY <1>4 DEF ClosesPanel
  <2>4. p = [[panel EXCEPT !.del = NoDelete] EXCEPT !.menu = None,
               !.selected = IF @ = inFlight["delete"].task THEN None ELSE @]
    BY <1>1, <2>3 DEF Panels
  <2> HIDE DEF p
  <2>5. Shows(p)
    BY <1>4, <2>3, <2>4 DEF DeleteDone
  <2> QED
    BY <2>1, <2>2, <2>5
<1>5. CASE CategoryDone
  <2>1. PICK s \in {panel.selected, None} : Shows([panel EXCEPT !.selected = s])
    BY <1>5 DEF CategoryDone
  <2>2. panel'.selected = panel.selected
    BY <1>5 DEF ClosesPanel
  <2>3. PICK p : p = [panel EXCEPT !.selected = s]
    OBVIOUS
  <2>4. s \in MaybeTask
    BY <1>1 DEF Panels
  <2>5. p \in Panels
    BY <1>1, <2>3, <2>4, Zenon DEF Panels
  <2>6. /\ p.selected = s /\ p.mode = panel.mode /\ p.sync = panel.sync
        /\ p.draft = panel.draft /\ p.cleared = panel.cleared
    BY <1>1, <2>3 DEF Panels
  <2>7. listedTasks' \in SUBSET Task /\ Ready(p, listedTasks')
    <3>1. listedTasks' \in SUBSET Task
      BY <1>5 DEF CategoryDone, ReloadDue, PanelInv, Typed
    <3> QED
      BY <2>6, <3>1, DraftedIsReady DEF Drafted
  <2>8. panel'.selected \in {s, None}
    <3>1. panel' = Settled(p, listedTasks', listStatus')
      BY <2>1, <2>3 DEF Shows
    <3>2. PICK status : status = listStatus'
      OBVIOUS
    <3> QED
      BY <2>5, <2>6, <2>7, <3>1, <3>2, SettledFacts
  <2>9. s = panel.selected
    BY <2>1, <2>2, <2>8
  <2> QED
    BY <2>1, <2>3, <2>5, <2>6, <2>9 DEF SameDraft, SameTask
<1> QED
  BY <1>2, <1>3, <1>4, <1>5

LEMMA BackgroundPage ==
  ASSUME PanelInv, Background, ~ ClosesPanel, ~ SessionExpires, ~ UNCHANGED panel
  PROVE  \E p \in Panels : Shows(p) /\ SameDraft(p)
<1>1. panel \in Panels /\ NoEdit \in Edits /\ None \in MaybeTask
  BY ConstantTypes DEF PanelInv, Typed, MaybeTask
<1>2. ASSUME NEW moved \in SUBSET Task, NEW lost \in SUBSET Task, NEW edit \in Edits
      PROVE  LET p == [panel EXCEPT !.edit = edit, !.moved = moved, !.lost = lost]
             IN p \in Panels /\ SameDraft(p)
  <2>1. [panel EXCEPT !.edit = edit, !.moved = moved, !.lost = lost] \in Panels
    BY <1>1, Zenon DEF Panels
  <2> QED
    BY <1>1, <2>1 DEF Panels, SameDraft, SameTask
<1>3. CASE ListingDone
  <2> DEFINE p == [panel EXCEPT !.moved = {}, !.lost = {}]
  <2>1. p \in Panels
    BY <1>1, Zenon DEF Panels
  <2>2. SameDraft(p) /\ Shows(p)
    BY <1>1, <1>3 DEF Panels, ListingDone, SameDraft, SameTask
  <2> QED
    BY <2>1, <2>2
<1>4. CASE ListingFails
  <2>1. PICK lost \in SUBSET Task :
          lost = panel.lost \cup {t \in panel.moved :
                   listingsDue' = 0 /\ ~ CoveredBy(t, panel, inFlight)}
    BY <1>1 DEF Panels
  <2> DEFINE p == [panel EXCEPT !.lost = lost]
  <2>2. p \in Panels
    BY <1>1, Zenon DEF Panels
  <2>3. SameDraft(p)
    BY <1>1 DEF Panels, SameDraft, SameTask
  <2>4. p = [panel EXCEPT !.lost = @ \cup {t \in panel.moved :
                             listingsDue' = 0 /\ ~ CoveredBy(t, panel, inFlight)}]
    BY <1>1, <2>1 DEF Panels
  <2> HIDE DEF p
  <2>5. Shows(p)
    BY <1>4, <2>4 DEF ListingFails
  <2> QED
    BY <2>2, <2>3, <2>5
<1>5. CASE PollDue
  BY <1>1, <1>5 DEF PollDue, SameDraft, SameTask
<1>6. CASE ClosingEnds
  <2> DEFINE p == [panel EXCEPT !.closing = FALSE]
  <2>1. p \in Panels
    BY <1>1, Zenon DEF Panels
  <2>2. SameDraft(p) /\ Shows(p)
    BY <1>1, <1>6 DEF Panels, ClosingEnds, PageStep, SameDraft, SameTask
  <2> QED
    BY <2>1, <2>2
<1>7. CASE CopyDone
  <2> DEFINE p == [panel EXCEPT !.menu = None]
  <2>1. p \in Panels
    BY <1>1, Zenon DEF Panels
  <2>2. SameDraft(p) /\ Shows(p)
    BY <1>1, <1>7 DEF Panels, CopyDone, SameDraft, SameTask
  <2> QED
    BY <2>1, <2>2
<1>8. CASE DropDone
  <2> DEFINE moved == panel.moved \ {inFlight["drop"].task}
             p == [panel EXCEPT !.moved = moved]
  <2>1. moved \in SUBSET Task
    BY <1>1 DEF Panels
  <2>2. p \in Panels /\ SameDraft(p)
    BY <1>1, <2>1, DrawnFacts DEF SameDraft, SameTask
  <2>3. Shows(p)
    BY <1>8 DEF DropDone
  <2> QED
    BY <2>2, <2>3
<1>9. CASE \E k \in Kinds : RequestFails(k)
  <2>1. PICK k \in Kinds : RequestFails(k)
    BY <1>9
  <2> DEFINE c == inFlight[k]
             lost == panel.lost \cup (Reverted(panel.edit) \ Reverted(c.pending))
             dropped == [panel EXCEPT !.moved = @ \ {c.task}]
             reverted == [panel EXCEPT !.edit = NoEdit, !.moved = @ \ Reverted(c.pending),
                            !.lost = @ \cup (Reverted(panel.edit) \ Reverted(c.pending))]
  <2>2. Shows(dropped) \/ Shows(reverted) \/ Shows(panel)
    BY <2>1 DEF RequestFails
  <2>3. dropped \in Panels /\ SameDraft(dropped)
    <3>1. panel.moved \ {c.task} \in SUBSET Task
      BY <1>1 DEF Panels
    <3> QED
      BY <1>1, <3>1, DrawnFacts DEF SameDraft, SameTask
  <2>4. reverted \in Panels /\ SameDraft(reverted)
    <3>1. panel.moved \ Reverted(c.pending) \in SUBSET Task
      BY <1>1 DEF Panels
    <3>2. lost \in SUBSET Task
      <4>1. panel.edit.revert => panel.edit.task \in Task
        BY <1>1 DEF Panels, Edits, MaybeTask, PanelInv, Reverts, Revertible
      <4> QED
        BY <1>1, <4>1 DEF Panels, Reverted
    <3>3. reverted = [panel EXCEPT !.edit = NoEdit, !.moved = panel.moved \ Reverted(c.pending),
                                   !.lost = lost]
      BY <1>1 DEF Panels
    <3> QED
      BY <1>1, <1>2, <3>1, <3>2, <3>3
  <2> HIDE DEF dropped, reverted
  <2>5. SameDraft(panel)
    BY DEF SameDraft, SameTask
  <2> QED
    BY <1>1, <2>2, <2>3, <2>4, <2>5
<1> QED
  BY <1>3, <1>4, <1>5, <1>6, <1>7, <1>8, <1>9, AnswerPage DEF Background, TaskComesOrGoes

LEMMA DraftStep ==
  ASSUME PanelInv, Background, ~ ClosesPanel, panel.draft.task \in listedTasks'
  PROVE  panel'.draft = panel.draft
<1> SUFFICES ASSUME ~ UNCHANGED panel PROVE panel'.draft = panel.draft
  OBVIOUS
<1>1. ~ SessionExpires
  BY DEF SessionExpires
<1>2. PICK p \in Panels : Shows(p) /\ SameDraft(p)
  BY <1>1, BackgroundPage
<1>3. listedTasks' \in SUBSET Task
  BY NextPanelInv DEF PanelNext, PanelInv, Typed
<1>4. Ready(p, listedTasks')
  BY <1>2, <1>3, DraftedIsReady DEF Drafted, SameDraft, SameTask
<1>5. panel.draft # NoDraft
  BY <1>3, ConstantTypes, IdsAssumption
<1>6. p.mode = "edit" /\ p.selected \in listedTasks' /\ p.sync = p.selected
  BY <1>2, <1>5 DEF PanelInv, DraftIn, SameDraft, SameTask
<1>7. panel' = p
  BY <1>2, <1>3, <1>4, <1>6, SettledFacts DEF Shows
<1> QED
  BY <1>2, <1>7 DEF SameDraft

(***************************************************************************)
(* No poll, late or failing listing, failed request, answer or change made *)
(* elsewhere touches what the user has typed about a task that is still    *)
(* listed (the effect that takes the draft once for each task), but the    *)
(* answers that close whatever panel is open: to a creation, a saved form, *)
(* a deletion asked for in the panel or of a task selected then or now,    *)
(* and of the selected task's category (closeDetailPanel).                 *)
(***************************************************************************)
THEOREM DraftIsKept == PanelSpec => DraftKept
<1>1. PanelInv /\ [PanelNext]_panelVars =>
        [Background /\ ~ ClosesPanel /\ panel.draft.task \in listedTasks'
           => panel'.draft = panel.draft]_panelVars
  BY DraftStep
<1> QED
  BY <1>1, PanelInvAlways, PTL DEF PanelSpec, DraftKept
-----------------------------------------------------------------------------

(***************************************************************************)
(* What a view would send without asking again was confirmed in this       *)
(* visit: the word that is typed, the file that is chosen, and the dialogs *)
(* that are open.  A word or a file that is left over in another view is   *)
(* forgotten when its view is opened.                                      *)
(***************************************************************************)
Remembered ==
  /\ settings.view = "delete-account" /\ settings.phrase = "DELETE"
       => "account" \in confirmed
  /\ settings.view = "backup" /\ settings.file => "import" \in confirmed
  /\ settings.dialog => "disconnect" \in confirmed
  /\ settings.candidate # NoUser => "user" \in confirmed

-----------------------------------------------------------------------------
(***************************************************************************)
(* Lemmas about the page's state and its requests.                         *)
(***************************************************************************)
USE DEF NoUser, Others

LEMMA BlankType == Blank \in PageSettings
  BY DEF Blank, PageSettings, Views

LEMMA ResetForms ==
  ASSUME NEW p \in PageSettings
  PROVE  /\ AccountFormsReset(p) \in PageSettings
         /\ AccountFormsReset(p).phrase = "" /\ AccountFormsReset(p).candidate = NoUser
         /\ AccountFormsReset(p).view = p.view /\ AccountFormsReset(p).file = p.file
         /\ AccountFormsReset(p).dialog = p.dialog
<1>1. p.busy \ {"password", "account"} \in SUBSET Flags
  BY DEF PageSettings
<1> QED
  BY <1>1 DEF AccountFormsReset, PageSettings

LEMMA ResetData ==
  ASSUME NEW p \in PageSettings
  PROVE  /\ DataReset(p) \in PageSettings
         /\ DataReset(p).view = "closed" /\ ~ DataReset(p).dialog
         /\ DataReset(p).candidate = NoUser
<1>1. PICK blank \in PageSettings : blank = Blank
  BY BlankType
<1>2. PICK busy \in SUBSET Flags : busy = p.busy \cap {"saving", "testing", "timezone"}
  BY DEF PageSettings
<1> DEFINE q == [blank EXCEPT !.week = p.week, !.hours = p.hours, !.hoursSet = p.hoursSet,
                              !.busy = busy]
<1>3. q \in PageSettings /\ q.view = blank.view /\ q.dialog = blank.dialog
  BY DEF PageSettings
<1>4. blank.view = "closed" /\ ~ blank.dialog
  BY <1>1 DEF Blank
<1>5. DataReset(p) = AccountFormsReset(q)
  BY <1>1, <1>2 DEF DataReset
<1> QED
  BY <1>3, <1>4, <1>5, ResetForms

\* A view that is opened has forgotten what it would send.
LEMMA OpenedView ==
  ASSUME NEW p \in PageSettings, NEW view \in Views
  PROVE  /\ Opened(p, view) \in PageSettings
         /\ Opened(p, view).view = view
         /\ view = "delete-account" => Opened(p, view).phrase = ""
         /\ view = "backup" => ~ Opened(p, view).file
         /\ Opened(p, view).dialog => p.dialog
         /\ Opened(p, view).candidate \in {NoUser, p.candidate}
<1> DEFINE shown == [p EXCEPT !.view = view]
<1>1. shown \in PageSettings /\ shown.view = view /\ shown.dialog = p.dialog
      /\ shown.candidate = p.candidate
  BY DEF PageSettings
<1>2. CASE view \in {"menu", "account", "change-password", "delete-account"}
  BY <1>1, <1>2, ResetForms DEF Opened
<1>3. CASE view = "webhook"
  <2>1. Opened(p, view) = [shown EXCEPT !.draft = p.webhook]
    BY <1>3 DEF Opened
  <2> QED
    BY <1>1, <1>3, <2>1 DEF PageSettings
<1>4. CASE view = "backup"
  <2>1. Opened(p, view) = [shown EXCEPT !.file = FALSE]
    BY <1>4 DEF Opened
  <2> QED
    BY <1>1, <1>4, <2>1 DEF PageSettings
<1>5. CASE view = "google-calendar"
  <2>1. Opened(p, view) = [shown EXCEPT !.dialog = FALSE, !.busy = @ \cup {"loading"}]
    BY <1>5 DEF Opened
  <2>2. PICK busy \in SUBSET Flags : busy = shown.busy \cup {"loading"}
    BY <1>1 DEF PageSettings, Flags
  <2>3. Opened(p, view) = [shown EXCEPT !.dialog = FALSE, !.busy = busy]
    BY <2>1, <2>2
  <2>4. PICK q \in PageSettings : q = shown
    BY <1>1
  <2>5. PICK r : r = [q EXCEPT !.dialog = FALSE, !.busy = busy]
    OBVIOUS
  <2>6. r \in PageSettings
    BY <2>5, Zenon DEF PageSettings
  <2>7. r.view = q.view /\ ~ r.dialog /\ r.candidate = q.candidate
    BY <2>5, Zenon DEF PageSettings
  <2>8. Opened(p, view) = r
    BY <2>3, <2>4, <2>5
  <2> HIDE DEF shown
  <2> QED
    BY <1>1, <1>5, <2>4, <2>6, <2>7, <2>8
<1>6. CASE view = "admin"
  <2>1. Opened(p, view) = [shown EXCEPT !.busy = @ \cup {"listing"}]
    BY <1>6 DEF Opened
  <2>2. shown.busy \cup {"listing"} \in SUBSET Flags
    BY <1>1 DEF PageSettings, Flags
  <2> QED
    BY <1>1, <1>6, <2>1, <2>2 DEF PageSettings
<1>7. CASE view \in {"closed", "calendar-display"}
  <2>1. Opened(p, view) = shown
    BY <1>7 DEF Opened
  <2> QED
    BY <1>1, <1>7, <2>1
<1> QED
  BY <1>2, <1>3, <1>4, <1>5, <1>6, <1>7 DEF Views

LEMMA AskType ==
  ASSUME tries \in 0 .. MaxTries, NEW kind \in RequestKinds, NEW value \in 0 .. 2
  PROVE  /\ Ask(kind, value, "none") \in Requests
         /\ Ask(kind, value, "none").kind = kind
         /\ Ask(kind, value, "none").value = value
<1>1. AtServer \in ServerSettings
  BY DEF AtServer, ServerSettings
<1> QED
  BY <1>1 DEF Ask, Requests

\* Only these views offer the deletion of the account and the import.
LEMMA WhereOffered ==
  ASSUME settings \in PageSettings
  PROVE  /\ Offered("deletion") => /\ settings.view = "delete-account"
                                   /\ settings.phrase = "DELETE"
         /\ Offered("import") => settings.view = "backup" /\ settings.file
<1>1. CASE settings.view \in {"closed", "menu", "account", "calendar-display", "admin"}
  BY <1>1 DEF Offered, Controls, MenuControls, AccountControls, CalendarControls,
              TimezoneControls, NotificationControls
<1>2. CASE settings.view = "change-password"
  BY <1>2 DEF Offered, Controls, ChangePasswordControls
<1>3. CASE settings.view = "delete-account"
  BY <1>3 DEF Offered, Controls, DeleteAccountControls
<1>4. CASE settings.view = "backup"
  BY <1>4 DEF Offered, Controls, BackupControls, PageSettings
<1>5. CASE settings.view = "google-calendar"
  BY <1>5 DEF Offered, Controls, GoogleCalendarControls
<1>6. CASE settings.view = "webhook"
  BY <1>6 DEF Offered, Controls, WebhookControls, WebhookBusy
<1> QED
  BY <1>1, <1>2, <1>3, <1>4, <1>5, <1>6 DEF PageSettings, Views

-----------------------------------------------------------------------------
(***************************************************************************)
(* The invariant, and what a step may ask for.                             *)
(***************************************************************************)
IInv == SettingsTypeOK /\ Remembered

AsksConfirmed == \A r \in requests' \ requests :
                   r.kind \in Irrevocable /\ r.at = "sent" => r.kind \in confirmed

\* What a request changes besides the page.
RequestsTyped == /\ requests \subseteq Requests
                 /\ \A r \in requests : r.kind \in Preferences => r.value \in 0..1
                 /\ unsettled \subseteq {"overlap", "failure"}

LEMMA Sent ==
  ASSUME SettingsTypeOK, NEW kind \in RequestKinds, NEW value \in 0 .. 2,
         kind \in Preferences => value \in 0..1,
         kind \in Irrevocable => kind \in confirmed,
         Sends(Ask(kind, value, "none"))
  PROVE  RequestsTyped' /\ AsksConfirmed
<1> DEFINE r == Ask(kind, value, "none")
<1>1. r \in Requests /\ r.kind = kind /\ r.value = value
  BY AskType DEF SettingsTypeOK
<1>2. requests' = requests \cup {r} /\ unsettled' \in {unsettled, unsettled \cup {"overlap"}}
  BY DEF Sends, SendsBeside
<1> HIDE DEF r
<1> QED
  BY <1>1, <1>2 DEF SettingsTypeOK, RequestsTyped, AsksConfirmed

LEMMA NothingSent ==
  ASSUME SettingsTypeOK, SendsNothing
  PROVE  RequestsTyped' /\ AsksConfirmed
BY DEF SettingsTypeOK, SendsNothing, RequestsTyped, AsksConfirmed

\* An act of the user keeps the invariant if the page it leaves is one of the
\* page's states and remembers what was confirmed.
LEMMA Acted ==
  ASSUME SettingsTypeOK, NEW p \in PageSettings, Acts(p), RequestsTyped',
         confirmed' \subseteq Irrevocable
  PROVE  SettingsTypeOK' /\ settings' = p
BY SettingsAssumption
   DEF SettingsTypeOK, Acts, Try, RequestsTyped, Irrevocable

-----------------------------------------------------------------------------
(***************************************************************************)
(* One lemma for each group of actions.                                    *)
(***************************************************************************)
LEMMA SessionSteps ==
  ASSUME IInv, Mount \/ SignIn \/ SignOut
  PROVE  IInv' /\ AsksConfirmed
<1> USE DEF IInv
<1>k. "load" \in RequestKinds /\ "load" \notin Preferences /\ "load" \notin Irrevocable
      /\ 0 \in 0 .. 2
  BY DEF RequestKinds, Preferences, Irrevocable
<1>1. CASE Mount
  <2>1. RequestsTyped' /\ AsksConfirmed
    BY <1>1, <1>k, Sent DEF Mount
  <2> QED
    BY <1>1, <2>1 DEF Mount, SettingsTypeOK, RequestsTyped, Remembered
<1>2. CASE SignIn
  <2>1. RequestsTyped' /\ AsksConfirmed
    BY <1>2, <1>k, Sent DEF SignIn
  <2>2. tries' \in 0 .. MaxTries
    BY <1>2, SettingsAssumption DEF SignIn, Try, SettingsTypeOK
  <2> QED
    BY <1>2, <2>1, <2>2 DEF SignIn, SettingsTypeOK, RequestsTyped, Remembered
<1>3. CASE SignOut
  <2>1. RequestsTyped' /\ AsksConfirmed
    BY <1>3, NothingSent DEF SignOut
  <2>2. tries' \in 0 .. MaxTries
    BY <1>3, SettingsAssumption DEF SignOut, Try, SettingsTypeOK
  <2>3. settings' = DataReset(settings) /\ settings \in PageSettings
    BY <1>3 DEF SignOut, SettingsTypeOK
  <2>4. /\ settings' \in PageSettings /\ settings'.view = "closed"
        /\ ~ settings'.dialog /\ settings'.candidate = NoUser
    BY <2>3, ResetData
  <2> QED
    BY <1>3, <2>1, <2>2, <2>4 DEF SignOut, SettingsTypeOK, RequestsTyped, Remembered
<1> QED
  BY <1>1, <1>2, <1>3

LEMMA ViewSteps ==
  ASSUME IInv, (\E view \in Views : OpenView(view)) \/ CloseSettingsPanels
  PROVE  IInv' /\ AsksConfirmed
<1> USE DEF IInv
<1>p. settings \in PageSettings
  BY DEF SettingsTypeOK
<1>1. ASSUME NEW view \in Views, OpenView(view)
      PROVE  IInv' /\ AsksConfirmed
  <2> DEFINE p == Opened(settings, view)
  <2>1. RequestsTyped' /\ AsksConfirmed
    <3>1. CASE SendsNothing
      BY <3>1, NothingSent
    <3>2. CASE Sends(Ask("status", 0, "none"))
      BY <3>2, Sent DEF RequestKinds, Preferences, Irrevocable
    <3>3. CASE Sends(Ask("users", 0, "none"))
      BY <3>3, Sent DEF RequestKinds, Preferences, Irrevocable
    <3> QED
      BY <1>1, <3>1, <3>2, <3>3 DEF OpenView
  <2>2. Acts(p) /\ confirmed' = {} /\ ~ settings.dialog /\ settings.candidate = NoUser
    BY <1>1 DEF OpenView, Offered, NoDialog
  <2>3. /\ p \in PageSettings /\ p.view = view
        /\ view = "delete-account" => p.phrase = ""
        /\ view = "backup" => ~ p.file
        /\ ~ p.dialog /\ p.candidate = NoUser
    BY <1>p, <2>2, OpenedView
  <2> HIDE DEF p
  <2>4. SettingsTypeOK' /\ settings' = p
    BY <2>1, <2>2, <2>3, Acted
  <2> QED
    BY <2>1, <2>3, <2>4 DEF Remembered
<1>2. CASE CloseSettingsPanels
  <2> DEFINE q == [settings EXCEPT !.view = "closed"]
             p == AccountFormsReset(q)
  <2>1. RequestsTyped' /\ AsksConfirmed
    BY <1>2, NothingSent DEF CloseSettingsPanels
  <2>2. Acts(p) /\ confirmed' = {} /\ ~ settings.dialog
    BY <1>2 DEF CloseSettingsPanels, NoDialog
  <2>3. q \in PageSettings /\ q.view = "closed" /\ q.dialog = settings.dialog
    BY <1>p DEF PageSettings, Views
  <2>4. /\ p \in PageSettings /\ p.view = "closed" /\ ~ p.dialog
        /\ p.candidate = NoUser
    BY <2>2, <2>3, ResetForms
  <2> HIDE DEF p
  <2>5. SettingsTypeOK' /\ settings' = p
    BY <2>1, <2>2, <2>4, Acted
  <2> QED
    BY <2>1, <2>4, <2>5 DEF Remembered
<1> QED
  BY <1>1, <1>2

\* A page that differs in what needs no confirmation.
LEMMA StaysConfirmed ==
  ASSUME IInv, NEW p \in PageSettings, Acts(p), RequestsTyped', UNCHANGED confirmed,
         p.view = settings.view, p.phrase = settings.phrase, p.file = settings.file,
         p.dialog \in {FALSE, settings.dialog}, p.candidate \in {NoUser, settings.candidate}
  PROVE  IInv'
<1>1. SettingsTypeOK' /\ settings' = p
  BY Acted DEF IInv, SettingsTypeOK, Irrevocable
<1> QED
  BY <1>1 DEF IInv, Remembered

LEMMA RequestActs ==
  ASSUME IInv,
         \/ \E q \in Preferences : UpdatePreference(q)
         \/ SaveWebhookSettings
         \/ \E kind \in Plain : PlainRequest(kind)
  PROVE  IInv' /\ AsksConfirmed
<1>p. SettingsTypeOK /\ settings \in PageSettings
  BY DEF IInv, SettingsTypeOK
<1>1. ASSUME NEW q \in Preferences, UpdatePreference(q)
      PROVE  IInv' /\ AsksConfirmed
  <2>s. PICK set \in BOOLEAN : set = (settings.hoursSet \/ q = "hours")
    OBVIOUS
  <2> DEFINE p == [settings EXCEPT ![q] = 1 - settings[q], !.hoursSet = set]
  <2>0. settings[q] \in 0..1
    BY <1>p, Zenon DEF Preferences, PageSettings
  <2>1. settings[q] \in 0..1 /\ 1 - settings[q] \in 0..1
    BY <2>0
  <2>2. Acts(p) /\ Sends(Ask(q, 1 - settings[q], "none")) /\ UNCHANGED confirmed
    <3>1. p = [settings EXCEPT ![q] = 1 - @, !.hoursSet = @ \/ q = "hours"]
      BY <1>p, <2>s DEF PageSettings, Preferences
    <3> HIDE DEF p
    <3> QED
      BY <1>1, <3>1 DEF UpdatePreference
  <2>3. RequestsTyped' /\ AsksConfirmed
    <3>1. q \in RequestKinds /\ q \notin Irrevocable /\ 1 - settings[q] \in 0..2
      BY <2>1 DEF Preferences, RequestKinds, Irrevocable
    <3> QED
      BY <1>p, <2>1, <2>2, <3>1, Sent
  <2>4. /\ p \in PageSettings /\ p.view = settings.view
        /\ p.phrase = settings.phrase /\ p.file = settings.file
        /\ p.dialog = settings.dialog /\ p.candidate = settings.candidate
    <3>1. CASE q = "week"
      BY <1>p, <2>1, <3>1 DEF PageSettings
    <3>2. CASE q = "daily"
      BY <1>p, <2>1, <3>2 DEF PageSettings
    <3>3. CASE q = "hours"
      BY <1>p, <2>1, <3>3 DEF PageSettings
    <3> QED
      BY <3>1, <3>2, <3>3 DEF Preferences
  <2> HIDE DEF p
  <2> QED
    BY <2>2, <2>3, <2>4, StaysConfirmed
<1>2. ASSUME NEW flag \in Plain \cup {"saving"}, NEW value \in 0 .. 2,
             Acts([settings EXCEPT !.busy = @ \cup {flag}]),
             Sends(Ask(flag, value, "none")), UNCHANGED confirmed
      PROVE  IInv' /\ AsksConfirmed
  <2> DEFINE p == [settings EXCEPT !.busy = @ \cup {flag}]
  <2>1. RequestsTyped' /\ AsksConfirmed
    <3>1. flag \in RequestKinds /\ flag \notin Irrevocable /\ flag \notin Preferences
      BY DEF Plain, Preferences, RequestKinds, Irrevocable
    <3> QED
      BY <1>p, <1>2, <3>1, Sent
  <2>2. settings.busy \cup {flag} \in SUBSET Flags
    BY <1>p DEF PageSettings, Flags
  <2>3. /\ p \in PageSettings /\ p.view = settings.view
        /\ p.phrase = settings.phrase /\ p.file = settings.file
        /\ p.dialog = settings.dialog /\ p.candidate = settings.candidate
    BY <1>p, <2>2 DEF PageSettings
  <2> HIDE DEF p
  <2>4. Acts(p) /\ UNCHANGED confirmed
    BY <1>2 DEF p
  <2> QED
    BY <2>1, <2>3, <2>4, StaysConfirmed
<1>3. CASE SaveWebhookSettings
  <2>1. settings.draft \in 0 .. 2
    BY <1>p DEF PageSettings
  <2> QED
    BY <1>2, <1>3, <2>1 DEF SaveWebhookSettings
<1>4. CASE \E kind \in Plain : PlainRequest(kind)
  BY <1>2, <1>4 DEF PlainRequest
<1> QED
  BY <1>1, <1>3, <1>4

\* What the user confirms is remembered.
LEMMA ConfirmActs ==
  ASSUME IInv,
         \/ TypeDelete \/ HandleBackupImportFileChange \/ OpenDisconnectConfirm
         \/ \E u \in Others : OpenDeleteAdminUserConfirm(u)
  PROVE  IInv' /\ AsksConfirmed
<1>p. SettingsTypeOK /\ settings \in PageSettings
  BY DEF IInv, SettingsTypeOK
<1>0. ASSUME NEW what \in Irrevocable, NEW p, Confirm(what, p)
      PROVE  /\ RequestsTyped' /\ AsksConfirmed
             /\ confirmed' = confirmed \cup {what} /\ confirmed' \subseteq Irrevocable
             /\ p \in PageSettings => SettingsTypeOK' /\ settings' = p
  <2>1. RequestsTyped' /\ AsksConfirmed
    BY <1>p, <1>0, NothingSent DEF Confirm
  <2>2. confirmed' = confirmed \cup {what} /\ confirmed' \subseteq Irrevocable
    BY <1>p, <1>0 DEF Confirm, SettingsTypeOK, Irrevocable
  <2> QED
    BY <1>p, <1>0, <2>1, <2>2, Acted DEF Confirm
<1>1. CASE TypeDelete
  <2> DEFINE p == [settings EXCEPT !.phrase = "DELETE"]
  <2>1. Confirm("account", p)
    BY <1>1 DEF TypeDelete
  <2>2. /\ p \in PageSettings /\ p.view = settings.view /\ p.file = settings.file
        /\ p.dialog = settings.dialog /\ p.candidate = settings.candidate
    BY <1>p DEF PageSettings
  <2> HIDE DEF p
  <2> QED
    BY <1>0, <2>1, <2>2 DEF IInv, Remembered, Irrevocable
<1>2. CASE HandleBackupImportFileChange
  <2> DEFINE p == [settings EXCEPT !.file = TRUE]
  <2>1. Confirm("import", p)
    BY <1>2 DEF HandleBackupImportFileChange
  <2>2. /\ p \in PageSettings /\ p.view = settings.view /\ p.phrase = settings.phrase
        /\ p.dialog = settings.dialog /\ p.candidate = settings.candidate
    BY <1>p DEF PageSettings
  <2> HIDE DEF p
  <2> QED
    BY <1>0, <2>1, <2>2 DEF IInv, Remembered, Irrevocable
<1>3. CASE OpenDisconnectConfirm
  <2> DEFINE p == [settings EXCEPT !.dialog = TRUE]
  <2>1. Confirm("disconnect", p)
    BY <1>3 DEF OpenDisconnectConfirm
  <2>2. /\ p \in PageSettings /\ p.view = settings.view /\ p.phrase = settings.phrase
        /\ p.file = settings.file /\ p.candidate = settings.candidate
    BY <1>p DEF PageSettings
  <2> HIDE DEF p
  <2> QED
    BY <1>0, <2>1, <2>2 DEF IInv, Remembered, Irrevocable
<1>4. ASSUME NEW u \in Others, OpenDeleteAdminUserConfirm(u)
      PROVE  IInv' /\ AsksConfirmed
  <2> DEFINE p == [settings EXCEPT !.candidate = u]
  <2>1. Confirm("user", p)
    BY <1>4 DEF OpenDeleteAdminUserConfirm
  <2>2. /\ p \in PageSettings /\ p.view = settings.view /\ p.phrase = settings.phrase
        /\ p.file = settings.file /\ p.dialog = settings.dialog
    BY <1>p DEF PageSettings
  <2> HIDE DEF p
  <2> QED
    BY <1>0, <2>1, <2>2 DEF IInv, Remembered, Irrevocable
<1> QED
  BY <1>1, <1>2, <1>3, <1>4

\* What cannot be taken back is offered where it was confirmed.
LEMMA IrrevocableActs ==
  ASSUME IInv,
         \/ HandleDeleteAccount \/ ConfirmBackupImport
         \/ HandleDisconnectGoogleCalendar \/ HandleDeleteAdminUser
  PROVE  IInv' /\ AsksConfirmed
<1>p. SettingsTypeOK /\ settings \in PageSettings
  BY DEF IInv, SettingsTypeOK
<1>0. ASSUME NEW flag \in {"account", "import", "disconnect"}, flag \in confirmed,
             Acts([settings EXCEPT !.busy = @ \cup {flag}]),
             Sends(Ask(flag, 0, "none")), UNCHANGED confirmed
      PROVE  IInv' /\ AsksConfirmed
  <2> DEFINE p == [settings EXCEPT !.busy = @ \cup {flag}]
  <2>1. RequestsTyped' /\ AsksConfirmed
    <3>1. flag \in RequestKinds /\ flag \notin Preferences
      BY DEF Preferences, RequestKinds
    <3> QED
      BY <1>p, <1>0, <3>1, Sent
  <2>2. settings.busy \cup {flag} \in SUBSET Flags
    BY <1>p DEF PageSettings, Flags
  <2>3. /\ p \in PageSettings /\ p.view = settings.view
        /\ p.phrase = settings.phrase /\ p.file = settings.file
        /\ p.dialog = settings.dialog /\ p.candidate = settings.candidate
    BY <1>p, <2>2 DEF PageSettings
  <2> HIDE DEF p
  <2>4. Acts(p) /\ UNCHANGED confirmed
    BY <1>0 DEF p
  <2> QED
    BY <2>1, <2>3, <2>4, StaysConfirmed
<1>1. CASE HandleDeleteAccount
  <2>1. "account" \in confirmed
    BY <1>p, <1>1, WhereOffered DEF HandleDeleteAccount, IInv, Remembered
  <2> QED
    BY <1>0, <1>1, <2>1 DEF HandleDeleteAccount
<1>2. CASE ConfirmBackupImport
  <2>1. "import" \in confirmed
    BY <1>p, <1>2, WhereOffered DEF ConfirmBackupImport, IInv, Remembered
  <2> QED
    BY <1>0, <1>2, <2>1 DEF ConfirmBackupImport
<1>3. CASE HandleDisconnectGoogleCalendar
  <2>1. "disconnect" \in confirmed
    BY <1>3 DEF HandleDisconnectGoogleCalendar, DisconnectDialogControls, IInv, Remembered
  <2> QED
    BY <1>0, <1>3, <2>1 DEF HandleDisconnectGoogleCalendar
<1>4. CASE HandleDeleteAdminUser
  <2> DEFINE p == [settings EXCEPT !.deleting = settings.candidate]
  <2>1. settings.candidate # NoUser /\ settings.candidate \in 1..2
    BY <1>p, <1>4 DEF HandleDeleteAdminUser, AdminDialogControls, PageSettings
  <2>2. "user" \in confirmed
    BY <2>1 DEF IInv, Remembered
  <2>3. Acts(p) /\ Sends(Ask("user", settings.candidate, "none")) /\ UNCHANGED confirmed
    BY <1>4 DEF HandleDeleteAdminUser
  <2>4. RequestsTyped' /\ AsksConfirmed
    <3>1. "user" \in RequestKinds /\ "user" \notin Preferences
          /\ settings.candidate \in 0 .. 2
      BY <2>1 DEF Preferences, RequestKinds
    <3> QED
      BY <1>p, <2>2, <2>3, <3>1, Sent
  <2>5. /\ p \in PageSettings /\ p.view = settings.view
        /\ p.phrase = settings.phrase /\ p.file = settings.file
        /\ p.dialog = settings.dialog /\ p.candidate = settings.candidate
    BY <1>p DEF PageSettings
  <2> HIDE DEF p
  <2> QED
    BY <2>3, <2>4, <2>5, StaysConfirmed
<1> QED
  BY <1>1, <1>2, <1>3, <1>4

LEMMA OtherActs ==
  ASSUME IInv, (\E value \in {0, 2} : EditWebhook(value)) \/ CancelDialog
  PROVE  IInv' /\ AsksConfirmed
<1>p. SettingsTypeOK /\ settings \in PageSettings
  BY DEF IInv, SettingsTypeOK
<1>1. ASSUME NEW value \in {0, 2}, EditWebhook(value)
      PROVE  IInv' /\ AsksConfirmed
  <2> DEFINE p == [settings EXCEPT !.draft = value]
  <2>1. RequestsTyped' /\ AsksConfirmed
    BY <1>p, <1>1, NothingSent DEF EditWebhook
  <2>2. Acts(p) /\ UNCHANGED confirmed
    BY <1>1 DEF EditWebhook
  <2>0. value \in 0..2
    OBVIOUS
  <2>3. /\ p \in PageSettings /\ p.view = settings.view
        /\ p.phrase = settings.phrase /\ p.file = settings.file
        /\ p.dialog = settings.dialog /\ p.candidate = settings.candidate
    BY <1>p, <2>0 DEF PageSettings
  <2> HIDE DEF p
  <2> QED
    BY <2>1, <2>2, <2>3, StaysConfirmed
<1>2. ASSUME CancelDialog,
             NEW p, \/ p = [settings EXCEPT !.dialog = FALSE]
                    \/ p = [settings EXCEPT !.candidate = NoUser],
             Acts(p)
      PROVE  IInv' /\ AsksConfirmed
  <2>1. RequestsTyped' /\ AsksConfirmed /\ UNCHANGED confirmed
    BY <1>p, <1>2, NothingSent DEF CancelDialog
  <2>2. /\ p \in PageSettings /\ p.view = settings.view
        /\ p.phrase = settings.phrase /\ p.file = settings.file
        /\ p.dialog \in {FALSE, settings.dialog} /\ p.candidate \in {NoUser, settings.candidate}
    BY <1>p, <1>2 DEF PageSettings
  <2>3. Acts(p)
    BY <1>2
  <2> QED
    BY <2>1, <2>2, <2>3, StaysConfirmed
<1>3. CASE CancelDialog
  BY <1>2, <1>3 DEF CancelDialog
<1> QED
  BY <1>1, <1>3

-----------------------------------------------------------------------------
(***************************************************************************)
(* The server's steps, and the answers.                                    *)
(***************************************************************************)
LEMMA ServerAfter ==
  ASSUME SettingsTypeOK, NEW r \in requests
  PROVE  AfterAll(r) \in ServerSettings
<1>p. /\ serverSettings \in ServerSettings /\ r \in Requests
      /\ r.kind \in Preferences => r.value \in 0..1
  BY DEF SettingsTypeOK
<1>1. CASE r.kind = "week"
  <2>1. AfterAll(r) = [serverSettings EXCEPT !.week = r.value] /\ r.value \in 0..1
    BY <1>p, <1>1 DEF AfterAll, Preferences
  <2> QED
    BY <1>p, <2>1 DEF ServerSettings
<1>2. CASE r.kind = "daily"
  <2>1. AfterAll(r) = [serverSettings EXCEPT !.daily = r.value] /\ r.value \in 0..1
    BY <1>p, <1>2 DEF AfterAll, Preferences
  <2> QED
    BY <1>p, <2>1 DEF ServerSettings
<1>3. CASE r.kind = "hours"
  <2>1. AfterAll(r) = [serverSettings EXCEPT !.hours = r.value] /\ r.value \in 0..1
    BY <1>p, <1>3 DEF AfterAll, Preferences
  <2> QED
    BY <1>p, <2>1 DEF ServerSettings
<1>4. CASE r.kind = "saving"
  <2>1. AfterAll(r) = [serverSettings EXCEPT !.webhook = r.value] /\ r.value \in 0..2
    BY <1>p, <1>4 DEF AfterAll, Preferences, Requests
  <2> QED
    BY <1>p, <2>1 DEF ServerSettings
<1>5. CASE r.kind = "disconnect"
  <2>1. AfterAll(r) = [serverSettings EXCEPT !.google = "disabled"]
    BY <1>5 DEF AfterAll, Preferences
  <2> QED
    BY <1>p, <2>1 DEF ServerSettings
<1>6. CASE r.kind = "user"
  <2>1. AfterAll(r) = [serverSettings EXCEPT !.users = @ \ {r.value}]
    BY <1>6 DEF AfterAll, Preferences
  <2>2. serverSettings.users \ {r.value} \in SUBSET Others
    BY <1>p DEF ServerSettings
  <2> QED
    BY <1>p, <2>1, <2>2 DEF ServerSettings
<1>7. CASE r.kind \notin Preferences \cup {"saving", "disconnect", "user"}
  BY <1>p, <1>7 DEF AfterAll
<1> QED
  BY <1>1, <1>2, <1>3, <1>4, <1>5, <1>6, <1>7 DEF Preferences

LEMMA ServerSteps ==
  ASSUME IInv, NEW r \in requests, RequestServed(r)
  PROVE  IInv' /\ AsksConfirmed
<1>p. /\ SettingsTypeOK /\ r \in Requests /\ requests \subseteq Requests
      /\ \A q \in requests : q.kind \in Preferences => q.value \in 0..1
  BY DEF IInv, SettingsTypeOK
<1>u. UNCHANGED <<settings, hoursStored, account, confirmed>>
  BY DEF RequestServed
<1>1. ASSUME NEW q \in Requests, q.kind = r.kind, q.value = r.value, q.at # "sent",
             requests' = (requests \ {r}) \cup {q}
      PROVE  /\ requests' \subseteq Requests /\ AsksConfirmed
             /\ \A s \in requests' : s.kind \in Preferences => s.value \in 0..1
  <2>1. \A s \in requests' : s = q \/ s \in requests
    BY <1>1
  <2>2. \A s \in requests' \ requests : s = q
    BY <1>1
  <2> QED
    BY <1>p, <1>1, <2>1, <2>2 DEF AsksConfirmed
<1>2. CASE /\ serverSettings' = AfterAll(r)
           /\ requests' = (requests \ {r}) \cup
                            {[r EXCEPT !.at = "served", !.seen = serverSettings']}
           /\ UNCHANGED <<unsettled, tries>>
  <2> DEFINE q == [r EXCEPT !.at = "served", !.seen = serverSettings']
  <2>1. serverSettings' \in ServerSettings
    BY <1>p, <1>2, ServerAfter
  <2>2. q \in Requests /\ q.kind = r.kind /\ q.value = r.value /\ q.at = "served"
    BY <1>p, <2>1 DEF Requests
  <2>3. requests' = (requests \ {r}) \cup {q}
    BY <1>2
  <2> HIDE DEF q
  <2>4. /\ requests' \subseteq Requests /\ AsksConfirmed
        /\ \A s \in requests' : s.kind \in Preferences => s.value \in 0..1
    BY <1>1, <2>2, <2>3
  <2> QED
    BY <1>u, <1>2, <2>1, <2>4 DEF IInv, SettingsTypeOK, Remembered
<1>3. CASE /\ Try
           /\ requests' = (requests \ {r}) \cup {[r EXCEPT !.at = "failed"]}
           /\ unsettled' = unsettled \cup {"failure"}
           /\ UNCHANGED serverSettings
  <2> DEFINE q == [r EXCEPT !.at = "failed"]
  <2>2. q \in Requests /\ q.kind = r.kind /\ q.value = r.value /\ q.at = "failed"
    BY <1>p DEF Requests
  <2>3. requests' = (requests \ {r}) \cup {q}
    BY <1>3
  <2> HIDE DEF q
  <2>4. /\ requests' \subseteq Requests /\ AsksConfirmed
        /\ \A s \in requests' : s.kind \in Preferences => s.value \in 0..1
    BY <1>1, <2>2, <2>3
  <2>5. tries' \in 0 .. MaxTries
    BY <1>p, <1>3, SettingsAssumption DEF Try, SettingsTypeOK
  <2> QED
    BY <1>u, <1>3, <2>4, <2>5 DEF IInv, SettingsTypeOK, Remembered
<1> QED
  BY <1>2, <1>3 DEF RequestServed

\* Disconnecting, syncing and deleting go on with a listing, which needs no
\* confirmation, and leave at most one dialog fewer.
LEMMA ContinuedSteps ==
  ASSUME IInv, NEW r \in requests, RequestContinued(r)
  PROVE  IInv' /\ AsksConfirmed
<1>p. /\ settings \in PageSettings /\ r \in Requests /\ requests \subseteq Requests
      /\ \A q \in requests : q.kind \in Preferences => q.value \in 0..1
  BY DEF IInv, SettingsTypeOK
<1>k. r.kind \in {"disconnect", "sync", "user"}
  BY DEF RequestContinued, Continued
<1> DEFINE kind == IF r.kind = "user" THEN "users" ELSE "status"
           next == [r EXCEPT !.at = "sent", !.then = r.kind, !.kind = kind]
<1>1. /\ next \in Requests /\ next.kind \in {"users", "status"}
  <2>1. kind \in RequestKinds /\ kind \in {"users", "status"}
    BY DEF RequestKinds
  <2>2. r.kind \in Flags \cup {"none", "user"}
    BY <1>k DEF Flags, Plain
  <2> HIDE DEF kind
  <2> QED
    BY <1>p, <2>1, <2>2 DEF Requests
<1>2. /\ requests' = (requests \ {r}) \cup {next}
      /\ unsettled' \in {unsettled, unsettled \cup {"overlap"}}
  BY DEF RequestContinued, SendsBeside
<1> HIDE DEF next
<1>3. /\ requests' \subseteq Requests /\ AsksConfirmed
      /\ \A q \in requests' : q.kind \in Preferences => q.value \in 0..1
  <2>1. \A q \in requests' : q = next \/ q \in requests
    BY <1>2
  <2>2. \A q \in requests' \ requests : q = next
    BY <1>2
  <2> QED
    BY <1>p, <1>1, <2>1, <2>2 DEF AsksConfirmed, Irrevocable, Preferences
<1>4. /\ settings' \in PageSettings /\ settings'.view = settings.view
      /\ settings'.phrase = settings.phrase /\ settings'.file = settings.file
      /\ settings'.dialog \in {FALSE, settings.dialog}
      /\ settings'.candidate \in {NoUser, settings.candidate}
  <2>0. /\ settings.busy \cup {"listing"} \in SUBSET Flags
        /\ settings.busy \cup {"loading"} \in SUBSET Flags
    BY <1>p DEF PageSettings, Flags
  <2>1. CASE r.kind = "user"
    <3>1. settings' = [settings EXCEPT !.candidate = NoUser, !.busy = @ \cup {"listing"}]
      BY <2>1 DEF RequestContinued
    <3> QED
      BY <1>p, <2>0, <3>1 DEF PageSettings
  <2>2. CASE r.kind # "user"
    <3>1. settings' = [settings EXCEPT !.busy = @ \cup {"loading"},
                         !.dialog = @ /\ r.kind # "disconnect"]
      BY <2>2 DEF RequestContinued
    <3>2. PICK dialog \in BOOLEAN : dialog = (settings.dialog /\ r.kind # "disconnect")
      OBVIOUS
    <3>3. settings' = [settings EXCEPT !.busy = @ \cup {"loading"}, !.dialog = dialog]
      BY <3>1, <3>2
    <3>4. dialog \in {FALSE, settings.dialog}
      BY <1>p, <3>2 DEF PageSettings
    <3> QED
      BY <1>p, <2>0, <3>3, <3>4 DEF PageSettings
  <2> QED
    BY <2>1, <2>2
<1>5. UNCHANGED <<serverSettings, hoursStored, account, confirmed, tries>>
  BY DEF RequestContinued
<1>6. unsettled' \subseteq {"overlap", "failure"}
  BY <1>2 DEF IInv, SettingsTypeOK
<1> QED
  BY <1>3, <1>4, <1>5, <1>6 DEF IInv, SettingsTypeOK, Remembered

\* A page that remembers no more than another one.
Narrower(q, p) ==
  /\ q \in PageSettings
  /\ (q.view = p.view /\ q.phrase = p.phrase) \/ q.view = "menu"
  /\ q.file \in {FALSE, p.file} \/ q.view = "menu"
  /\ q.dialog \in {FALSE, p.dialog} /\ q.candidate \in {NoUser, p.candidate}

LEMMA ShownNarrower ==
  ASSUME SettingsTypeOK, NEW r \in requests
  PROVE  Narrower(AnswerShown(r, settings), settings)
<1>p. /\ settings \in PageSettings /\ r \in Requests
      /\ r.seen \in ServerSettings /\ r.value \in 0 .. 2
  BY DEF SettingsTypeOK, Requests
<1>1. CASE r.kind = "load"
  <2>1. PICK hours \in 0..1 : hours = IF hoursStored THEN settings.hours ELSE r.seen.hours
    BY <1>p DEF PageSettings, ServerSettings
  <2>2. AnswerShown(r, settings) =
          [settings EXCEPT !.webhook = r.seen.webhook, !.draft = r.seen.webhook,
             !.week = r.seen.week, !.daily = r.seen.daily, !.hours = hours]
    BY <1>1, <2>1 DEF AnswerShown, Loaded
  <2>3. r.seen.webhook \in 0..2 /\ r.seen.week \in 0..1 /\ r.seen.daily \in 0..1
    BY <1>p DEF ServerSettings
  <2>4. PICK q : q = AnswerShown(r, settings)
    OBVIOUS
  <2>5. q \in PageSettings
    BY <1>p, <2>2, <2>3, <2>4, ZenonT(60) DEF PageSettings
  <2>6. /\ q.view = settings.view /\ q.phrase = settings.phrase /\ q.file = settings.file
        /\ q.dialog = settings.dialog /\ q.candidate = settings.candidate
    BY <1>p, <2>2, <2>4, Zenon DEF PageSettings
  <2> QED
    BY <2>4, <2>5, <2>6 DEF Narrower
<1>2. CASE r.kind = "saving"
  <2> DEFINE p == [settings EXCEPT !.webhook = r.value, !.draft = r.value]
  <2>1. /\ p \in PageSettings /\ p.dialog = settings.dialog
        /\ p.candidate = settings.candidate
    BY <1>p DEF PageSettings
  <2>2. AnswerShown(r, settings) = AccountFormsReset([p EXCEPT !.view = "menu"])
    BY <1>2 DEF AnswerShown, Opened
  <2> HIDE DEF p
  <2> DEFINE q == [p EXCEPT !.view = "menu"]
  <2>3. /\ q \in PageSettings /\ q.view = "menu" /\ q.dialog = settings.dialog
    BY <2>1 DEF PageSettings, Views
  <2>4. AnswerShown(r, settings) = AccountFormsReset(q)
    BY <2>2
  <2> HIDE DEF q
  <2> QED
    BY <2>3, <2>4, ResetForms DEF Narrower
<1>3. CASE r.kind = "status"
  <2>1. AnswerShown(r, settings) = [settings EXCEPT !.google = r.seen.google]
    BY <1>3 DEF AnswerShown
  <2>2. r.seen.google \in {"connected", "disabled"}
    BY <1>p DEF ServerSettings
  <2> QED
    BY <1>p, <2>1, <2>2 DEF Narrower, PageSettings
<1>4. CASE r.kind = "users"
  <2>1. AnswerShown(r, settings) = [settings EXCEPT !.users = r.seen.users]
    BY <1>4 DEF AnswerShown
  <2>2. r.seen.users \in SUBSET Others
    BY <1>p DEF ServerSettings
  <2> QED
    BY <1>p, <2>1, <2>2 DEF Narrower, PageSettings
<1>5. CASE r.kind = "import"
  <2>1. AnswerShown(r, settings) = [settings EXCEPT !.file = FALSE]
    BY <1>5 DEF AnswerShown
  <2> QED
    BY <1>p, <2>1 DEF Narrower, PageSettings
<1>6. CASE r.kind \notin {"load", "saving", "status", "users", "import"}
  <2>1. AnswerShown(r, settings) = settings
    BY <1>6 DEF AnswerShown
  <2> QED
    BY <1>p, <2>1 DEF Narrower
<1> QED
  BY <1>1, <1>2, <1>3, <1>4, <1>5, <1>6

LEMMA AnsweredSteps ==
  ASSUME IInv, NEW r \in requests, RequestAnswered(r)
  PROVE  IInv' /\ AsksConfirmed
<1>p. settings \in PageSettings
  BY DEF IInv, SettingsTypeOK
<1>1. PICK q : /\ q \in {settings, AnswerShown(r, settings)}
               /\ settings' = Finished(r, q)
  BY DEF RequestAnswered
<1>2. Narrower(q, settings)
  BY <1>p, <1>1, ShownNarrower DEF Narrower, IInv
<1>3. Narrower(settings', settings)
  <2>1. PICK busy \in SUBSET Flags : busy = q.busy \ FlagOf(r)
    BY <1>2 DEF Narrower, PageSettings
  <2>2. PICK deleting \in Others \cup {NoUser} :
          deleting = IF r.then = "user" \/ r.kind = "user" THEN NoUser ELSE q.deleting
    BY <1>2 DEF Narrower, PageSettings
  <2>3. settings' = [q EXCEPT !.busy = busy, !.deleting = deleting]
    BY <1>1, <2>1, <2>2 DEF Finished
  <2> QED
    BY <1>2, <2>3 DEF Narrower, PageSettings
<1>4. /\ requests' = requests \ {r}
      /\ UNCHANGED <<serverSettings, hoursStored, account, confirmed, unsettled, tries>>
  BY DEF RequestAnswered
<1>5. Remembered'
  BY <1>p, <1>3, <1>4 DEF IInv, Remembered, Narrower, PageSettings
<1> QED
  BY <1>3, <1>4, <1>5 DEF IInv, SettingsTypeOK, AsksConfirmed, Narrower

LEMMA LeavingSteps ==
  ASSUME IInv, NEW r \in requests, ConnectAnswered(r) \/ AccountDeleted(r)
  PROVE  IInv' /\ AsksConfirmed
<1>p. settings \in PageSettings /\ SettingsTypeOK
  BY DEF IInv, SettingsTypeOK
<1>1. CASE ConnectAnswered(r)
  <2>1. PICK blank \in PageSettings : blank = Blank
    BY BlankType
  <2>2. settings' = [blank EXCEPT !.hours = settings.hours, !.hoursSet = settings.hoursSet]
    BY <1>1, <2>1 DEF ConnectAnswered
  <2>3. blank.view = "closed" /\ ~ blank.dialog /\ blank.candidate = NoUser
    BY <2>1 DEF Blank
  <2>4. /\ settings' \in PageSettings /\ settings'.view = "closed"
        /\ ~ settings'.dialog /\ settings'.candidate = NoUser
    <3>1. PICK hours \in 0..1, set \in BOOLEAN : hours = settings.hours /\ set = settings.hoursSet
      BY <1>p DEF PageSettings
    <3>2. settings' = [blank EXCEPT !.hours = hours, !.hoursSet = set]
      BY <2>2, <3>1
    <3>3. settings' \in PageSettings
      BY <3>2, Zenon DEF PageSettings
    <3>4. settings'.view = blank.view /\ settings'.dialog = blank.dialog
          /\ settings'.candidate = blank.candidate
      BY <3>2, Zenon DEF PageSettings
    <3> QED
      BY <2>3, <3>3, <3>4
  <2>5. serverSettings' \in ServerSettings
    BY <1>1 DEF ConnectAnswered, IInv, SettingsTypeOK, ServerSettings
  <2> DEFINE q == Ask("load", 0, "none")
  <2>6. q \in Requests /\ q.kind = "load"
    BY <1>p, AskType DEF SettingsTypeOK, RequestKinds
  <2>7. requests' \subseteq {q}
    BY <1>1 DEF ConnectAnswered
  <2> HIDE DEF q
  <2>8. /\ requests' \subseteq Requests /\ AsksConfirmed
        /\ \A s \in requests' : s.kind \in Preferences => s.value \in 0..1
    BY <2>6, <2>7 DEF AsksConfirmed, Irrevocable, Preferences
  <2>9. unsettled' \subseteq {"overlap", "failure"}
    BY <1>p, <1>1 DEF ConnectAnswered, SettingsTypeOK
  <2>10. confirmed' = {} /\ UNCHANGED <<hoursStored, account, tries>>
    BY <1>1 DEF ConnectAnswered
  <2> QED
    BY <1>p, <2>4, <2>5, <2>8, <2>9, <2>10 DEF IInv, SettingsTypeOK, Remembered
<1>2. CASE AccountDeleted(r)
  <2>1. settings' = DataReset(settings)
    BY <1>2 DEF AccountDeleted
  <2>2. /\ settings' \in PageSettings /\ settings'.view = "closed"
        /\ ~ settings'.dialog /\ settings'.candidate = NoUser
    BY <1>p, <2>1, ResetData
  <2>3. /\ account' = "gone" /\ requests' = requests \ {r} /\ confirmed' = {}
        /\ UNCHANGED <<serverSettings, hoursStored, unsettled, tries>>
    BY <1>2 DEF AccountDeleted
  <2> QED
    BY <1>p, <2>2, <2>3 DEF IInv, SettingsTypeOK, Remembered, AsksConfirmed
<1> QED
  BY <1>1, <1>2

-----------------------------------------------------------------------------
(***************************************************************************)
(* The theorems.                                                           *)
(***************************************************************************)
LEMMA Step ==
  ASSUME IInv, [SettingsNext]_settingsVars
  PROVE  IInv' /\ AsksConfirmed
<1>1. CASE RequestStep
  BY <1>1, ServerSteps, ContinuedSteps, AnsweredSteps, LeavingSteps DEF RequestStep
<1>2. CASE Mount \/ SignOut \/ SignIn
  BY <1>2, SessionSteps
<1>3. CASE (\E view \in Views : OpenView(view)) \/ CloseSettingsPanels
  BY <1>3, ViewSteps
<1>4. CASE \/ \E p \in Preferences : UpdatePreference(p)
           \/ SaveWebhookSettings
           \/ \E kind \in Plain : PlainRequest(kind)
  BY <1>4, RequestActs
<1>5. CASE \/ TypeDelete \/ HandleBackupImportFileChange \/ OpenDisconnectConfirm
           \/ \E u \in Others : OpenDeleteAdminUserConfirm(u)
  BY <1>5, ConfirmActs
<1>6. CASE \/ HandleDeleteAccount \/ ConfirmBackupImport
           \/ HandleDisconnectGoogleCalendar \/ HandleDeleteAdminUser
  BY <1>6, IrrevocableActs
<1>7. CASE (\E value \in {0, 2} : EditWebhook(value)) \/ CancelDialog
  BY <1>7, OtherActs
<1>8. CASE UNCHANGED settingsVars
  BY <1>8 DEF settingsVars, IInv, SettingsTypeOK, Remembered, AsksConfirmed
<1> QED
  BY <1>1, <1>2, <1>3, <1>4, <1>5, <1>6, <1>7, <1>8 DEF SettingsNext

LEMMA Inductive == SettingsSpec => []IInv
<1>1. SettingsInit => IInv
  <2>1. AtServer \in ServerSettings
    BY DEF AtServer, ServerSettings
  <2>2. Blank.view = "closed" /\ ~ Blank.dialog /\ Blank.candidate = NoUser
    BY DEF Blank
  <2>3. 0 \in 0 .. MaxTries
    BY SettingsAssumption
  <2>4. SettingsInit => SettingsTypeOK
    BY <2>1, <2>3, BlankType DEF SettingsInit, SettingsTypeOK
  <2>5. SettingsInit => Remembered
    BY <2>2 DEF SettingsInit, Remembered
  <2> QED
    BY <2>4, <2>5 DEF IInv
<1>2. IInv /\ [SettingsNext]_settingsVars => IInv'
  BY Step
<1> QED
  BY <1>1, <1>2, PTL DEF SettingsSpec

\* The page, the server's settings and every request under way keep their types,
\* in every view and whatever is answered in it.
THEOREM SettingsTypeCorrect == SettingsSpec => []SettingsTypeOK
<1>1. IInv => SettingsTypeOK
  BY DEF IInv
<1> QED
  BY <1>1, Inductive, PTL

\* Deleting the account or a user, importing a backup over the user's data and
\* disconnecting from Google are asked of the server only after the user confirmed
\* it in this visit to the view (handleDeleteAccount, confirmBackupImport,
\* handleDisconnectGoogleCalendar and handleDeleteAdminUser of App.tsx).
THEOREM OnlyConfirmed == SettingsSpec => Confirmed
<1>1. IInv /\ [SettingsNext]_settingsVars
        => [\A r \in requests' \ requests :
              r.kind \in Irrevocable /\ r.at = "sent" => r.kind \in confirmed]_settingsVars
  BY Step DEF AsksConfirmed
<1> QED
  BY <1>1, Inductive, PTL DEF SettingsSpec, Confirmed

-----------------------------------------------------------------------------
(***************************************************************************)
(* The page agrees with the server.  Unless a request failed or overtook   *)
(* another, at most one of those that may clash is under way; its answer   *)
(* carries what the server has now; and where the page differs from the    *)
(* server, that request is the reason.                                     *)
(***************************************************************************)
Alone == \A r, s \in requests : s.kind \in Clashing(r.kind) => r = s

Current(r) ==
  /\ r.at # "failed"
  /\ r.kind \in {"week", "daily"} /\ account = "in" => settings[r.kind] = r.value
  /\ r.at = "served" =>
       /\ r.kind = "load" => /\ r.seen.week = serverSettings.week
                             /\ r.seen.daily = serverSettings.daily
                             /\ r.seen.webhook = serverSettings.webhook
       /\ r.kind = "saving" => r.value = serverSettings.webhook
       /\ r.kind = "status" => r.seen.google = serverSettings.google
       /\ r.kind = "users" => r.seen.users = serverSettings.users

Excuses(r, field) ==
  \/ r.kind = "load"
  \/ r.kind = field /\ r.at = "sent"
  \/ r.kind = "saving" /\ field = "webhook" /\ r.at = "served"

AsStored(field) == account = "in" => \/ settings[field] = serverSettings[field]
                                  \/ \E r \in requests : Excuses(r, field)

\* A disconnection, and the deletion of a user, end with the listing they began.
GoogleShown ==
  \/ settings.google \in {"unknown", serverSettings.google}
  \/ \E r \in requests : \/ r.kind = "disconnect" /\ r.at = "served"
                         \/ r.kind = "status" /\ r.then = "disconnect"

UsersShown ==
  \/ settings.users \in {{}, serverSettings.users}
  \/ \E r \in requests : \/ r.kind = "user" /\ r.at = "served"
                         \/ r.kind = "users" /\ r.then = "user"

Accounted ==
  unsettled = {} =>
    /\ Alone
    /\ \A r \in requests : Current(r)
    /\ AsStored("week") /\ AsStored("daily") /\ AsStored("webhook")
    /\ GoogleShown /\ UsersShown

\* A page that shows the same of the server; one that shows no more of what a
\* listing brings.
SameLoaded(q, p) == q.week = p.week /\ q.daily = p.daily /\ q.webhook = p.webhook
SameListed(q, p) == q.google \in {"unknown", p.google} /\ q.users \in {{}, p.users}

LEMMA ResetFormsShow ==
  ASSUME NEW p \in PageSettings
  PROVE  SameLoaded(AccountFormsReset(p), p) /\ SameListed(AccountFormsReset(p), p)
BY DEF AccountFormsReset, PageSettings, SameLoaded, SameListed

LEMMA ResetDataShows ==
  ASSUME NEW p \in PageSettings
  PROVE  SameListed(DataReset(p), p)
<1>1. PICK blank \in PageSettings : blank = Blank
  BY BlankType
<1>2. PICK busy \in SUBSET Flags : busy = p.busy \cap {"saving", "testing", "timezone"}
  BY DEF PageSettings
<1> DEFINE q == [blank EXCEPT !.week = p.week, !.hours = p.hours, !.hoursSet = p.hoursSet,
                              !.busy = busy]
<1>3. q \in PageSettings /\ q.google = blank.google /\ q.users = blank.users
  BY DEF PageSettings
<1>4. blank.google = "unknown" /\ blank.users = {}
  BY <1>1 DEF Blank
<1>5. DataReset(p) = AccountFormsReset(q)
  BY <1>1, <1>2 DEF DataReset
<1> HIDE DEF q
<1> QED
  BY <1>3, <1>4, <1>5, ResetFormsShow DEF SameListed

LEMMA OpenedShows ==
  ASSUME NEW p \in PageSettings, NEW view \in Views
  PROVE  SameLoaded(Opened(p, view), p) /\ SameListed(Opened(p, view), p)
<1> DEFINE shown == [p EXCEPT !.view = view]
<1>1. shown \in PageSettings /\ SameLoaded(shown, p) /\ SameListed(shown, p)
  BY DEF PageSettings, SameLoaded, SameListed
<1>2. CASE view \in {"menu", "account", "change-password", "delete-account"}
  <2>1. Opened(p, view) = AccountFormsReset(shown)
    BY <1>2 DEF Opened
  <2> HIDE DEF shown
  <2> QED
    BY <1>1, <2>1, ResetFormsShow DEF SameLoaded, SameListed
<1>3. CASE view = "webhook"
  BY <1>1, <1>3 DEF Opened, PageSettings, SameLoaded, SameListed
<1>4. CASE view = "backup"
  BY <1>1, <1>4 DEF Opened, PageSettings, SameLoaded, SameListed
<1>5. CASE view = "google-calendar"
  BY <1>1, <1>5 DEF Opened, PageSettings, SameLoaded, SameListed
<1>6. CASE view = "admin"
  BY <1>1, <1>6 DEF Opened, PageSettings, SameLoaded, SameListed
<1>7. CASE view \in {"closed", "calendar-display"}
  BY <1>1, <1>7 DEF Opened
<1> QED
  BY <1>2, <1>3, <1>4, <1>5, <1>6, <1>7 DEF Views

LEMMA ClashingIsMutual ==
  ASSUME NEW a, NEW b, b \in Clashing(a)
  PROVE  a \in Clashing(b)
<1>1. CASE a \in Preferences \cup {"load", "saving"}
  BY <1>1 DEF Clashing, Preferences
<1>2. CASE a \in {"status", "disconnect"}
  BY <1>2 DEF Clashing, Preferences
<1>3. CASE a \in {"users", "user"}
  BY <1>3 DEF Clashing, Preferences
<1> QED
  BY <1>1, <1>2, <1>3 DEF Clashing

\* Who clashes with whom.
LEMMA Clashes ==
  /\ Clashing("load") = Preferences \cup {"load", "saving"}
  /\ Clashing("saving") = Preferences \cup {"load", "saving"}
  /\ \A kind \in Preferences : Clashing(kind) = Preferences \cup {"load", "saving"}
  /\ Clashing("status") = {"status", "disconnect"}
  /\ Clashing("disconnect") = {"status", "disconnect"}
  /\ Clashing("users") = {"users", "user"}
  /\ Clashing("user") = {"users", "user"}
BY DEF Clashing, Preferences

LEMMA SentBesides ==
  ASSUME NEW others, NEW r, SendsBeside(others, r), unsettled' = {},
         \A a, b \in others : b.kind \in Clashing(a.kind) => a = b
  PROVE  /\ unsettled = {} /\ requests' = others \cup {r}
         /\ \A a \in others : a.kind \notin Clashing(r.kind) /\ r.kind \notin Clashing(a.kind)
         /\ Alone'
<1>1. /\ unsettled = {} /\ requests' = others \cup {r}
      /\ \A a \in others : a.kind \notin Clashing(r.kind)
  BY DEF SendsBeside
<1>2. \A a \in others : r.kind \notin Clashing(a.kind)
  BY <1>1, ClashingIsMutual
<1> QED
  BY <1>1, <1>2 DEF Alone

\* A request that is sent keeps the account, however much the page shows of it at
\* once.
LEMMA SentAccounted ==
  ASSUME Accounted, NEW r, Sends(r), r.at = "sent", UNCHANGED serverSettings,
         SameListed(settings', settings),
         \/ r.kind = "load"
         \/ /\ account' = account /\ settings'.webhook = settings.webhook
            /\ r.kind = "daily" \/ settings'.daily = settings.daily
            /\ r.kind = "week" \/ settings'.week = settings.week,
         r.kind \in {"week", "daily"} => settings'[r.kind] = r.value
  PROVE  Accounted'
<1> SUFFICES ASSUME unsettled' = {} PROVE Accounted'
  BY DEF Accounted
<1>1. /\ unsettled = {} /\ requests' = requests \cup {r} /\ Alone'
      /\ \A a \in requests : a.kind \notin Clashing(r.kind) /\ r.kind \notin Clashing(a.kind)
  <2>1. SendsBeside(requests, r) /\ unsettled = {}
    BY DEF Sends, SendsBeside
  <2>2. \A a, b \in requests : b.kind \in Clashing(a.kind) => a = b
    BY <2>1 DEF Accounted, Alone
  <2> QED
    BY <2>1, <2>2, SentBesides
<1>2. ASSUME NEW q \in requests' PROVE Current(q)'
  <2>1. CASE q = r
    BY <2>1 DEF Current
  <2>2. CASE q \in requests
    <3>1. Current(q)
      BY <1>1, <2>2 DEF Accounted
    <3>2. ASSUME q.kind \in {"week", "daily"}, account' = "in"
          PROVE  settings'[q.kind] = q.value
      <4>1. r.kind \notin Preferences \cup {"load", "saving"}
        BY <1>1, <2>2, <3>2, Clashes DEF Preferences
      <4>2. settings'["week"] = settings["week"] /\ settings'["daily"] = settings["daily"]
            /\ account = "in"
        BY <3>2, <4>1 DEF Preferences
      <4> QED
        BY <3>1, <3>2, <4>2 DEF Current
    <3> QED
      BY <3>1, <3>2 DEF Current
  <2> QED
    BY <1>1, <2>1, <2>2
<1>3. AsStored("week")' /\ AsStored("daily")' /\ AsStored("webhook")'
  <2>1. CASE r.kind = "load"
    BY <1>1, <2>1 DEF AsStored, Excuses
  <2>2. CASE r.kind # "load"
    <3>1. ASSUME NEW field \in {"week", "daily", "webhook"}, AsStored(field),
                 r.kind = field \/ settings'[field] = settings[field]
          PROVE  AsStored(field)'
      BY <1>1, <2>2, <3>1 DEF AsStored, Excuses
    <3>2. AsStored("week") /\ AsStored("daily") /\ AsStored("webhook")
      BY <1>1 DEF Accounted
    <3> QED
      BY <2>2, <3>1, <3>2
  <2> QED
    BY <2>1, <2>2
<1>4. GoogleShown' /\ UsersShown'
  BY <1>1 DEF Accounted, GoogleShown, UsersShown, SameListed
<1> QED
  BY <1>1, <1>2, <1>3, <1>4 DEF Accounted

LEMMA NothingSentAccounted ==
  ASSUME Accounted, SendsNothing, UNCHANGED serverSettings,
         SameListed(settings', settings),
         account' = "in" => account = "in" /\ SameLoaded(settings', settings)
  PROVE  Accounted'
<1> SUFFICES ASSUME unsettled' = {} PROVE Accounted'
  BY DEF Accounted
<1>1. unsettled = {} /\ requests' = requests
  BY DEF SendsNothing
<1>2. ASSUME NEW q \in requests' PROVE Current(q)'
  <2>1. Current(q)
    BY <1>1 DEF Accounted
  <2>2. ASSUME q.kind \in {"week", "daily"}, account' = "in"
        PROVE  settings'[q.kind] = q.value
    BY <2>1, <2>2 DEF Current, SameLoaded
  <2> QED
    BY <2>1, <2>2 DEF Current
<1>3. AsStored("week")' /\ AsStored("daily")' /\ AsStored("webhook")'
  BY <1>1 DEF Accounted, AsStored, SameLoaded
<1>4. GoogleShown' /\ UsersShown'
  BY <1>1 DEF Accounted, GoogleShown, UsersShown, SameListed
<1> QED
  BY <1>1, <1>2, <1>3, <1>4 DEF Accounted, Alone

-----------------------------------------------------------------------------
(***************************************************************************)
(* What the server and the answers do to the account.                      *)
(***************************************************************************)
\* What serving a request changes of the account's settings.
LEMMA AfterAllChanges ==
  ASSUME SettingsTypeOK, NEW r \in requests
  PROVE  /\ r.kind \in {"week", "daily"} => AfterAll(r)[r.kind] = r.value
         /\ r.kind = "saving" => AfterAll(r).webhook = r.value
         /\ r.kind # "week" => AfterAll(r).week = serverSettings.week
         /\ r.kind # "daily" => AfterAll(r).daily = serverSettings.daily
         /\ r.kind # "saving" => AfterAll(r).webhook = serverSettings.webhook
         /\ r.kind # "disconnect" => AfterAll(r).google = serverSettings.google
         /\ r.kind # "user" => AfterAll(r).users = serverSettings.users
<1>p. serverSettings \in ServerSettings
  BY DEF SettingsTypeOK
<1>1. CASE r.kind = "week"
  BY <1>p, <1>1 DEF AfterAll, Preferences, ServerSettings
<1>2. CASE r.kind = "daily"
  BY <1>p, <1>2 DEF AfterAll, Preferences, ServerSettings
<1>3. CASE r.kind = "hours"
  BY <1>p, <1>3 DEF AfterAll, Preferences, ServerSettings
<1>4. CASE r.kind = "saving"
  BY <1>p, <1>4 DEF AfterAll, Preferences, ServerSettings
<1>5. CASE r.kind = "disconnect"
  BY <1>p, <1>5 DEF AfterAll, Preferences, ServerSettings
<1>6. CASE r.kind = "user"
  BY <1>p, <1>6 DEF AfterAll, Preferences, ServerSettings
<1>7. CASE r.kind \notin Preferences \cup {"saving", "disconnect", "user"}
  BY <1>7 DEF AfterAll, Preferences
<1> QED
  BY <1>1, <1>2, <1>3, <1>4, <1>5, <1>6, <1>7 DEF Preferences

LEMMA ServedAccounted ==
  ASSUME SettingsTypeOK, Accounted, NEW r \in requests, RequestServed(r)
  PROVE  Accounted'
<1> SUFFICES ASSUME unsettled' = {} PROVE Accounted'
  BY DEF Accounted
<1> DEFINE s == [r EXCEPT !.at = "served", !.seen = serverSettings']
<1>0. r \in Requests /\ UNCHANGED <<settings, account>>
  BY DEF SettingsTypeOK, RequestServed
<1>1. /\ r.at = "sent" /\ unsettled = {} /\ serverSettings' = AfterAll(r)
      /\ requests' = (requests \ {r}) \cup {s}
  BY DEF RequestServed
<1>2. /\ s.kind = r.kind /\ s.value = r.value /\ s.then = r.then
      /\ s.at = "served" /\ s.seen = serverSettings'
  BY <1>0 DEF Requests
<1> HIDE DEF s
<1>3. /\ Alone /\ \A q \in requests : Current(q)
      /\ AsStored("week") /\ AsStored("daily") /\ AsStored("webhook")
      /\ GoogleShown /\ UsersShown
  BY <1>1 DEF Accounted
<1>4. \A q \in requests \ {r} : r.kind \notin Clashing(q.kind) /\ q.kind \notin Clashing(r.kind)
  BY <1>3 DEF Alone
<1>5. /\ r.kind \in {"week", "daily"} => serverSettings'[r.kind] = r.value
      /\ r.kind = "saving" => serverSettings'.webhook = r.value
      /\ r.kind # "week" => serverSettings'.week = serverSettings.week
      /\ r.kind # "daily" => serverSettings'.daily = serverSettings.daily
      /\ r.kind # "saving" => serverSettings'.webhook = serverSettings.webhook
      /\ r.kind # "disconnect" => serverSettings'.google = serverSettings.google
      /\ r.kind # "user" => serverSettings'.users = serverSettings.users
  BY <1>1, AfterAllChanges
<1>6. Alone'
  BY <1>1, <1>2, <1>3, <1>4 DEF Alone
<1>7. ASSUME NEW q \in requests' PROVE Current(q)'
  <2>1. CASE q = s
    <3>1. r.kind \in {"week", "daily"} /\ account' = "in" => settings'[r.kind] = r.value
      BY <1>0, <1>3 DEF Current
    <3>2. r.kind = "saving" => r.value = serverSettings'.webhook
      BY <1>5
    <3> QED
      BY <1>2, <2>1, <3>1, <3>2 DEF Current
  <2>2. CASE q \in requests \ {r}
    <3>1. Current(q) /\ r.kind \notin Clashing(q.kind)
      BY <1>3, <1>4, <2>2
    <3>2. q.kind = "load" => r.kind \notin {"week", "daily", "saving"}
      BY <3>1, Clashes DEF Preferences
    <3>3. q.kind = "saving" => r.kind # "saving"
      BY <3>1, Clashes DEF Preferences
    <3>4. q.kind = "status" => r.kind # "disconnect"
      BY <3>1, Clashes
    <3>5. q.kind = "users" => r.kind # "user"
      BY <3>1, Clashes
    <3> QED
      BY <1>0, <1>5, <3>1, <3>2, <3>3, <3>4, <3>5 DEF Current
  <2> QED
    BY <1>1, <2>1, <2>2
<1>8. /\ AsStored("week")' /\ AsStored("daily")' /\ AsStored("webhook")'
  <2>1. ASSUME NEW field \in {"week", "daily", "webhook"}, AsStored(field),
               \/ serverSettings'[field] = serverSettings[field]
               \/ r.kind = field /\ serverSettings'[field] = r.value /\ field # "webhook"
               \/ r.kind = "saving" /\ field = "webhook"
        PROVE  AsStored(field)'
    <3> SUFFICES ASSUME account' = "in"
                 PROVE  \/ settings'[field] = serverSettings'[field]
                        \/ \E q \in requests' : Excuses(q, field)
      BY DEF AsStored, Excuses
    <3>1. CASE r.kind = "saving" /\ field = "webhook"
      BY <1>1, <1>2, <3>1 DEF Excuses
    <3>2. CASE r.kind = field /\ serverSettings'[field] = r.value /\ field # "webhook"
      BY <1>0, <1>3, <3>2 DEF Current
    <3>3. CASE serverSettings'[field] = serverSettings[field] /\ r.kind # field
      <4>1. CASE settings[field] = serverSettings[field]
        BY <1>0, <3>3, <4>1
      <4>2. ASSUME NEW q \in requests, Excuses(q, field)
            PROVE  \E x \in requests' : Excuses(x, field)
        <5>1. CASE q = r
          BY <1>1, <1>2, <3>3, <4>2, <5>1 DEF Excuses
        <5>2. CASE q # r
          BY <1>1, <4>2, <5>2
        <5> QED
          BY <5>1, <5>2
      <4> QED
        BY <1>0, <2>1, <4>1, <4>2 DEF AsStored
    <3>4. CASE serverSettings'[field] = serverSettings[field] /\ r.kind = field
      <4>1. CASE field = "webhook"
        BY <1>0, <3>4, <4>1 DEF Requests, RequestKinds, Plain, Preferences
      <4>2. CASE field # "webhook"
        BY <1>0, <1>3, <1>5, <3>4, <4>2 DEF Current
      <4> QED
        BY <4>1, <4>2
    <3> QED
      BY <2>1, <3>1, <3>2, <3>3, <3>4
  <2>2. AsStored("week")'
    <3>1. CASE r.kind = "week"
      BY <1>3, <1>5, <2>1, <3>1
    <3>2. CASE r.kind # "week"
      BY <1>3, <1>5, <2>1, <3>2
    <3> QED
      BY <3>1, <3>2
  <2>3. AsStored("daily")'
    <3>1. CASE r.kind = "daily"
      BY <1>3, <1>5, <2>1, <3>1
    <3>2. CASE r.kind # "daily"
      BY <1>3, <1>5, <2>1, <3>2
    <3> QED
      BY <3>1, <3>2
  <2>4. AsStored("webhook")'
    BY <1>3, <1>5, <2>1
  <2> QED
    BY <2>2, <2>3, <2>4
<1>9. GoogleShown'
  <2>1. CASE r.kind = "disconnect"
    BY <1>1, <1>2, <2>1 DEF GoogleShown
  <2>2. CASE r.kind # "disconnect"
    BY <1>0, <1>1, <1>2, <1>3, <1>5, <2>2 DEF GoogleShown
  <2> QED
    BY <2>1, <2>2
<1>10. UsersShown'
  <2>1. CASE r.kind = "user"
    BY <1>1, <1>2, <2>1 DEF UsersShown
  <2>2. CASE r.kind # "user"
    BY <1>0, <1>1, <1>2, <1>3, <1>5, <2>2 DEF UsersShown
  <2> QED
    BY <2>1, <2>2
<1> QED
  BY <1>6, <1>7, <1>8, <1>9, <1>10 DEF Accounted

LEMMA ContinuedAccounted ==
  ASSUME SettingsTypeOK, Accounted, NEW r \in requests, RequestContinued(r)
  PROVE  Accounted'
<1> SUFFICES ASSUME unsettled' = {} PROVE Accounted'
  BY DEF Accounted
<1>0. settings \in PageSettings /\ r \in Requests /\ UNCHANGED <<serverSettings, account>>
  BY DEF SettingsTypeOK, RequestContinued
<1>k. r.kind \in {"disconnect", "sync", "user"} /\ r.at = "served"
  BY DEF RequestContinued, Continued
<1> DEFINE s == [r EXCEPT !.at = "sent", !.then = r.kind,
                          !.kind = IF r.kind = "user" THEN "users" ELSE "status"]
<1>1. SendsBeside(requests \ {r}, s)
  BY DEF RequestContinued
<1>2. s.at = "sent" /\ s.then = r.kind /\ s.kind = IF r.kind = "user" THEN "users" ELSE "status"
  BY <1>0 DEF Requests
<1> HIDE DEF s
<1>3. unsettled = {}
  BY <1>1 DEF SendsBeside
<1>4. /\ Alone /\ \A q \in requests : Current(q)
      /\ AsStored("week") /\ AsStored("daily") /\ AsStored("webhook")
      /\ GoogleShown /\ UsersShown
  BY <1>3 DEF Accounted
<1>5. requests' = (requests \ {r}) \cup {s} /\ Alone'
  <2>1. \A a, b \in requests \ {r} : b.kind \in Clashing(a.kind) => a = b
    BY <1>4 DEF Alone
  <2> QED
    BY <1>1, <2>1, SentBesides
<1>6. SameLoaded(settings', settings) /\ settings'.google = settings.google
      /\ settings'.users = settings.users
  <2>1. CASE r.kind = "user"
    <3>1. settings' = [settings EXCEPT !.candidate = NoUser, !.busy = @ \cup {"listing"}]
      BY <2>1 DEF RequestContinued
    <3> QED
      BY <1>0, <3>1 DEF PageSettings, SameLoaded
  <2>2. CASE r.kind # "user"
    <3>1. settings' = [settings EXCEPT !.busy = @ \cup {"loading"},
                         !.dialog = @ /\ r.kind # "disconnect"]
      BY <2>2 DEF RequestContinued
    <3>2. PICK dialog \in BOOLEAN : dialog = (settings.dialog /\ r.kind # "disconnect")
      OBVIOUS
    <3>3. settings' = [settings EXCEPT !.busy = @ \cup {"loading"}, !.dialog = dialog]
      BY <3>1, <3>2
    <3> QED
      BY <1>0, <3>3 DEF PageSettings, SameLoaded
  <2> QED
    BY <2>1, <2>2
<1>7. ASSUME NEW q \in requests' PROVE Current(q)'
  <2>1. CASE q = s
    BY <1>2, <2>1 DEF Current
  <2>2. CASE q \in requests
    BY <1>0, <1>4, <1>6, <2>2 DEF Current, SameLoaded
  <2> QED
    BY <1>5, <2>1, <2>2
<1>8. AsStored("week")' /\ AsStored("daily")' /\ AsStored("webhook")'
  <2>1. \A field \in {"week", "daily", "webhook"} : ~ Excuses(r, field)
    BY <1>k DEF Excuses
  <2> QED
    BY <1>0, <1>4, <1>5, <1>6, <2>1 DEF AsStored, SameLoaded
<1>9. GoogleShown' /\ UsersShown'
  BY <1>0, <1>k, <1>2, <1>4, <1>5, <1>6 DEF GoogleShown, UsersShown
<1> QED
  BY <1>5, <1>7, <1>8, <1>9 DEF Accounted

\* What an answer brings to the page.
LEMMA AnswerBrings ==
  ASSUME SettingsTypeOK, NEW r \in requests
  PROVE  LET p == AnswerShown(r, settings)
         IN /\ r.kind = "load" => /\ p.week = r.seen.week /\ p.daily = r.seen.daily
                                  /\ p.webhook = r.seen.webhook
            /\ r.kind = "saving" => /\ p.week = settings.week /\ p.daily = settings.daily
                                    /\ p.webhook = r.value
            /\ r.kind \notin {"load", "saving"} => SameLoaded(p, settings)
            /\ p.google = IF r.kind = "status" THEN r.seen.google ELSE settings.google
            /\ p.users = IF r.kind = "users" THEN r.seen.users ELSE settings.users
<1>p. settings \in PageSettings /\ r \in Requests /\ r.value \in 0..2
      /\ r.seen \in ServerSettings
  BY DEF SettingsTypeOK, Requests
<1>1. CASE r.kind = "load"
  <2>1. PICK hours : hours = IF hoursStored THEN settings.hours ELSE r.seen.hours
    OBVIOUS
  <2>2. AnswerShown(r, settings) =
          [settings EXCEPT !.webhook = r.seen.webhook, !.draft = r.seen.webhook,
             !.week = r.seen.week, !.daily = r.seen.daily, !.hours = hours]
    BY <1>1, <2>1 DEF AnswerShown, Loaded
  <2> QED
    BY <1>p, <1>1, <2>2 DEF PageSettings, SameLoaded
<1>2. CASE r.kind = "saving"
  <2> DEFINE p == [settings EXCEPT !.webhook = r.value, !.draft = r.value]
             q == [p EXCEPT !.view = "menu"]
  <2>1. /\ q \in PageSettings
        /\ q.week = settings.week /\ q.daily = settings.daily
        /\ q.webhook = r.value
        /\ q.google = settings.google /\ q.users = settings.users
    BY <1>p DEF PageSettings, Views
  <2>2. AnswerShown(r, settings) = AccountFormsReset(q)
    BY <1>2 DEF AnswerShown, Opened
  <2> HIDE DEF q
  <2>3. /\ SameLoaded(AccountFormsReset(q), q)
        /\ AccountFormsReset(q).google = q.google /\ AccountFormsReset(q).users = q.users
    BY <2>1 DEF AccountFormsReset, PageSettings, SameLoaded
  <2> QED
    BY <1>2, <2>1, <2>2, <2>3 DEF SameLoaded
<1>3. CASE r.kind = "status"
  <2>1. AnswerShown(r, settings) = [settings EXCEPT !.google = r.seen.google]
    BY <1>3 DEF AnswerShown
  <2> QED
    BY <1>p, <1>3, <2>1 DEF PageSettings, SameLoaded
<1>4. CASE r.kind = "users"
  <2>1. AnswerShown(r, settings) = [settings EXCEPT !.users = r.seen.users]
    BY <1>4 DEF AnswerShown
  <2> QED
    BY <1>p, <1>4, <2>1 DEF PageSettings, SameLoaded
<1>5. CASE r.kind = "import"
  <2>1. AnswerShown(r, settings) = [settings EXCEPT !.file = FALSE]
    BY <1>5 DEF AnswerShown
  <2> QED
    BY <1>p, <1>5, <2>1 DEF PageSettings, SameLoaded
<1>6. CASE r.kind \notin {"load", "saving", "status", "users", "import"}
  <2>1. AnswerShown(r, settings) = settings
    BY <1>6 DEF AnswerShown
  <2> QED
    BY <1>6, <2>1 DEF SameLoaded
<1> QED
  BY <1>1, <1>2, <1>3, <1>4, <1>5, <1>6

LEMMA AnsweredAccounted ==
  ASSUME SettingsTypeOK, Accounted, NEW r \in requests, RequestAnswered(r)
  PROVE  Accounted'
<1> SUFFICES ASSUME unsettled' = {} PROVE Accounted'
  BY DEF Accounted
<1>0. /\ settings \in PageSettings /\ r \in Requests
      /\ UNCHANGED <<serverSettings, account, unsettled>> /\ requests' = requests \ {r}
  BY DEF SettingsTypeOK, RequestAnswered
<1>1. /\ Alone /\ \A q \in requests : Current(q)
      /\ AsStored("week") /\ AsStored("daily") /\ AsStored("webhook")
      /\ GoogleShown /\ UsersShown
  BY <1>0 DEF Accounted
<1>2. r.at = "served" /\ r.kind \notin {"disconnect", "user"}
  BY <1>0, <1>1 DEF Current, RequestAnswered, Continued, Requests
<1> DEFINE p == AnswerShown(r, settings)
<1>3. settings' = Finished(r, p) /\ p \in PageSettings
  BY <1>2, ShownNarrower DEF RequestAnswered, Narrower
<1>4. /\ r.kind = "load" => /\ p.week = r.seen.week /\ p.daily = r.seen.daily
                            /\ p.webhook = r.seen.webhook
      /\ r.kind = "saving" => /\ p.week = settings.week /\ p.daily = settings.daily
                              /\ p.webhook = r.value
      /\ r.kind \notin {"load", "saving"} => SameLoaded(p, settings)
      /\ p.google = IF r.kind = "status" THEN r.seen.google ELSE settings.google
      /\ p.users = IF r.kind = "users" THEN r.seen.users ELSE settings.users
  BY AnswerBrings
<1> HIDE DEF p
<1>5. SameLoaded(settings', p) /\ settings'.google = p.google /\ settings'.users = p.users
  BY <1>3 DEF Finished, PageSettings, SameLoaded
<1>6. /\ r.kind = "load" => /\ settings'.week = serverSettings.week
                            /\ settings'.daily = serverSettings.daily
                            /\ settings'.webhook = serverSettings.webhook
      /\ r.kind = "saving" => /\ settings'.week = settings.week
                              /\ settings'.daily = settings.daily
                              /\ settings'.webhook = serverSettings.webhook
      /\ r.kind \notin {"load", "saving"} => SameLoaded(settings', settings)
      /\ settings'.google = IF r.kind = "status" THEN serverSettings.google
                                                 ELSE settings.google
      /\ settings'.users = IF r.kind = "users" THEN serverSettings.users ELSE settings.users
  <2>1. Current(r)
    BY <1>1
  <2> QED
    BY <1>2, <1>4, <1>5, <2>1 DEF Current, SameLoaded
<1>7. ASSUME NEW q \in requests' PROVE Current(q)'
  <2>1. Current(q) /\ q.kind \notin Clashing(r.kind)
    BY <1>0, <1>1 DEF Alone
  <2>2. ASSUME q.kind \in {"week", "daily"}, account' = "in"
        PROVE  settings'[q.kind] = q.value
    <3>1. r.kind # "load"
      BY <2>1, <2>2, Clashes DEF Preferences
    <3>2. settings'["week"] = settings["week"] /\ settings'["daily"] = settings["daily"]
      BY <1>6, <3>1 DEF SameLoaded
    <3> QED
      BY <1>0, <2>1, <2>2, <3>2 DEF Current
  <2> QED
    BY <1>0, <2>1, <2>2 DEF Current
<1>8. AsStored("week")' /\ AsStored("daily")' /\ AsStored("webhook")'
  <2>1. ASSUME NEW field \in {"week", "daily", "webhook"}, AsStored(field),
               \/ settings'[field] = serverSettings[field]
               \/ settings'[field] = settings[field] /\ ~ Excuses(r, field)
        PROVE  AsStored(field)'
    BY <1>0, <2>1 DEF AsStored, Excuses
  <2>2. CASE r.kind = "load"
    BY <1>1, <1>6, <2>1, <2>2
  <2>3. CASE r.kind = "saving"
    <3>1. ~ Excuses(r, "week") /\ ~ Excuses(r, "daily")
      BY <2>3 DEF Excuses
    <3> QED
      BY <1>1, <1>6, <2>1, <2>3, <3>1
  <2>4. CASE r.kind \notin {"load", "saving"}
    <3>1. \A field \in {"week", "daily", "webhook"} : ~ Excuses(r, field)
      BY <1>2, <2>4 DEF Excuses
    <3>2. /\ settings'["week"] = settings["week"] /\ settings'["daily"] = settings["daily"]
          /\ settings'["webhook"] = settings["webhook"]
      BY <1>6, <2>4 DEF SameLoaded
    <3> QED
      BY <1>1, <2>1, <3>1, <3>2
  <2> QED
    BY <2>2, <2>3, <2>4
<1>9. GoogleShown' /\ UsersShown'
  BY <1>0, <1>1, <1>2, <1>6 DEF GoogleShown, UsersShown
<1>10. Alone'
  BY <1>0, <1>1 DEF Alone
<1> QED
  BY <1>7, <1>8, <1>9, <1>10 DEF Accounted

LEMMA LeavingAccounted ==
  ASSUME SettingsTypeOK, Accounted, NEW r \in requests, ConnectAnswered(r) \/ AccountDeleted(r)
  PROVE  Accounted'
<1>0. settings \in PageSettings
  BY DEF SettingsTypeOK
<1>1. CASE ConnectAnswered(r)
  <2>1. PICK blank \in PageSettings : blank = Blank
    BY BlankType
  <2>2. settings' = [blank EXCEPT !.hours = settings.hours, !.hoursSet = settings.hoursSet]
    BY <1>1, <2>1 DEF ConnectAnswered
  <2>3. settings'.google = "unknown" /\ settings'.users = {}
    <3>1. settings'.google = blank.google /\ settings'.users = blank.users
      BY <2>2, Zenon DEF PageSettings
    <3> QED
      BY <2>1, <3>1 DEF Blank
  <2> DEFINE q == Ask("load", 0, "none")
  <2>4. /\ requests' = IF account = "in" THEN {q} ELSE {}
        /\ account' = account /\ q.kind = "load" /\ q.at = "sent"
    BY <1>1 DEF ConnectAnswered, Ask
  <2> HIDE DEF q
  <2>5. Alone' /\ \A x \in requests' : Current(x)'
    BY <2>4 DEF Alone, Current
  <2>6. AsStored("week")' /\ AsStored("daily")' /\ AsStored("webhook")'
    BY <2>4 DEF AsStored, Excuses
  <2>7. GoogleShown' /\ UsersShown'
    BY <2>3 DEF GoogleShown, UsersShown
  <2> QED
    BY <2>5, <2>6, <2>7 DEF Accounted
<1>2. CASE AccountDeleted(r)
  <2> SUFFICES ASSUME unsettled' = {} PROVE Accounted'
    BY DEF Accounted
  <2>1. /\ account' = "gone" /\ requests' = requests \ {r} /\ r.kind = "account"
        /\ settings' = DataReset(settings) /\ UNCHANGED <<serverSettings, unsettled>>
    BY <1>2 DEF AccountDeleted
  <2>2. SameListed(settings', settings)
    BY <1>0, <2>1, ResetDataShows
  <2>3. /\ Alone /\ \A q \in requests : Current(q) /\ GoogleShown /\ UsersShown
    BY <2>1 DEF Accounted
  <2>4. Alone' /\ \A x \in requests' : Current(x)'
    BY <2>1, <2>3 DEF Alone, Current
  <2>5. AsStored("week")' /\ AsStored("daily")' /\ AsStored("webhook")'
    BY <2>1 DEF AsStored
  <2>6. GoogleShown' /\ UsersShown'
    BY <1>0, <2>1, <2>2, <2>3 DEF GoogleShown, UsersShown, SameListed
  <2> QED
    BY <2>4, <2>5, <2>6 DEF Accounted
<1> QED
  BY <1>1, <1>2

-----------------------------------------------------------------------------
(***************************************************************************)
(* The user's acts, and the theorem.                                       *)
(***************************************************************************)
LEMMA SessionAccounted ==
  ASSUME SettingsTypeOK, Accounted, Mount \/ SignIn \/ SignOut
  PROVE  Accounted'
<1>p. settings \in PageSettings
  BY DEF SettingsTypeOK
<1>1. CASE Mount \/ SignIn
  <2> DEFINE r == Ask("load", 0, "none")
  <2>1. /\ Sends(r) /\ r.kind = "load" /\ r.at = "sent"
        /\ UNCHANGED <<settings, serverSettings>>
    BY <1>1 DEF Mount, SignIn, Ask
  <2> HIDE DEF r
  <2> QED
    BY <2>1, SentAccounted DEF SameListed
<1>2. CASE SignOut
  <2>1. /\ SendsNothing /\ account' = "out" /\ UNCHANGED serverSettings
        /\ settings' = DataReset(settings)
    BY <1>2 DEF SignOut
  <2>2. SameListed(settings', settings)
    BY <1>p, <2>1, ResetDataShows
  <2> QED
    BY <2>1, <2>2, NothingSentAccounted
<1> QED
  BY <1>1, <1>2

\* An act that sends nothing, or a request that the page shows nothing of yet.
LEMMA ActedAccounted ==
  ASSUME Accounted, NEW p, Acts(p), SameLoaded(p, settings), SameListed(p, settings),
         \/ SendsNothing
         \/ \E kind, value : kind \notin {"week", "daily"} /\ Sends(Ask(kind, value, "none"))
  PROVE  Accounted'
<1>1. settings' = p /\ UNCHANGED <<serverSettings, account>>
  BY DEF Acts
<1>2. CASE SendsNothing
  BY <1>1, <1>2, NothingSentAccounted
<1>3. ASSUME NEW kind, NEW value, kind \notin {"week", "daily"},
             Sends(Ask(kind, value, "none"))
      PROVE  Accounted'
  <2> DEFINE r == Ask(kind, value, "none")
  <2>1. Sends(r) /\ r.kind = kind /\ r.at = "sent"
    BY <1>3 DEF Ask
  <2> HIDE DEF r
  <2>2. /\ settings'.week = settings.week /\ settings'.daily = settings.daily
        /\ settings'.webhook = settings.webhook /\ SameListed(settings', settings)
    BY <1>1 DEF SameLoaded
  <2> QED
    BY <1>1, <1>3, <2>1, <2>2, SentAccounted
<1> QED
  BY <1>2, <1>3

LEMMA ViewsAccounted ==
  ASSUME SettingsTypeOK, Accounted, (\E view \in Views : OpenView(view)) \/ CloseSettingsPanels
  PROVE  Accounted'
<1>p. settings \in PageSettings
  BY DEF SettingsTypeOK
<1>1. ASSUME NEW view \in Views, OpenView(view)
      PROVE  Accounted'
  <2> DEFINE p == Opened(settings, view)
  <2>1. Acts(p) /\ SameLoaded(p, settings) /\ SameListed(p, settings)
    BY <1>p, <1>1, OpenedShows DEF OpenView
  <2>2. \/ SendsNothing \/ Sends(Ask("status", 0, "none")) \/ Sends(Ask("users", 0, "none"))
    BY <1>1 DEF OpenView
  <2> HIDE DEF p
  <2> QED
    BY <2>1, <2>2, ActedAccounted
<1>2. CASE CloseSettingsPanels
  <2> DEFINE q == [settings EXCEPT !.view = "closed"]
             p == AccountFormsReset(q)
  <2>1. Acts(p) /\ SendsNothing
    BY <1>2 DEF CloseSettingsPanels
  <2>2. q \in PageSettings /\ SameLoaded(q, settings) /\ SameListed(q, settings)
    BY <1>p DEF PageSettings, Views, SameLoaded, SameListed
  <2> HIDE DEF q
  <2>3. SameLoaded(p, settings) /\ SameListed(p, settings)
    BY <2>2, ResetFormsShow DEF SameLoaded, SameListed
  <2> HIDE DEF p
  <2> QED
    BY <2>1, <2>3, ActedAccounted
<1> QED
  BY <1>1, <1>2

LEMMA PreferencesAccounted ==
  ASSUME SettingsTypeOK, Accounted, NEW f \in Preferences, UpdatePreference(f)
  PROVE  Accounted'
<1>p. settings \in PageSettings
  BY DEF SettingsTypeOK
<1> DEFINE r == Ask(f, 1 - settings[f], "none")
<1>1. /\ Sends(r) /\ r.kind = f /\ r.value = 1 - settings[f] /\ r.at = "sent"
      /\ UNCHANGED <<serverSettings, account>>
      /\ settings' = [settings EXCEPT ![f] = 1 - @, !.hoursSet = @ \/ f = "hours"]
  BY DEF UpdatePreference, Acts, Ask
<1> HIDE DEF r
<1>s. PICK set \in BOOLEAN : set = (settings.hoursSet \/ f = "hours")
  OBVIOUS
<1>e. settings' = [settings EXCEPT ![f] = r.value, !.hoursSet = set]
  BY <1>1, <1>s, <1>p DEF PageSettings, Preferences
<1>2. /\ SameListed(settings', settings)
      /\ f # "week" => settings'.week = settings.week
      /\ f # "daily" => settings'.daily = settings.daily
      /\ settings'.webhook = settings.webhook
      /\ settings'[f] = r.value
  <2>1. CASE f = "week"
    BY <1>p, <1>e, <2>1 DEF PageSettings, SameListed
  <2>2. CASE f = "daily"
    BY <1>p, <1>e, <2>2 DEF PageSettings, SameListed
  <2>3. CASE f = "hours"
    BY <1>p, <1>e, <2>3 DEF PageSettings, SameListed
  <2> QED
    BY <2>1, <2>2, <2>3 DEF Preferences
<1> QED
  BY <1>1, <1>2, SentAccounted

LEMMA ActsAccounted ==
  ASSUME SettingsTypeOK, Accounted,
         \/ SaveWebhookSettings
         \/ \E kind \in Plain : PlainRequest(kind)
         \/ \E value \in {0, 2} : EditWebhook(value)
         \/ TypeDelete \/ HandleBackupImportFileChange \/ OpenDisconnectConfirm
         \/ \E u \in Others : OpenDeleteAdminUserConfirm(u)
         \/ CancelDialog
         \/ HandleDeleteAccount \/ ConfirmBackupImport
         \/ HandleDisconnectGoogleCalendar \/ HandleDeleteAdminUser
  PROVE  Accounted'
<1>p. settings \in PageSettings
  BY DEF SettingsTypeOK
<1>1. ASSUME NEW x
      PROVE  /\ LET p == [settings EXCEPT !.busy = @ \cup {x}]
                IN SameLoaded(p, settings) /\ SameListed(p, settings)
             /\ LET p == [settings EXCEPT !.draft = x]
                IN SameLoaded(p, settings) /\ SameListed(p, settings)
             /\ LET p == [settings EXCEPT !.phrase = x]
                IN SameLoaded(p, settings) /\ SameListed(p, settings)
             /\ LET p == [settings EXCEPT !.file = x]
                IN SameLoaded(p, settings) /\ SameListed(p, settings)
             /\ LET p == [settings EXCEPT !.dialog = x]
                IN SameLoaded(p, settings) /\ SameListed(p, settings)
             /\ LET p == [settings EXCEPT !.candidate = x]
                IN SameLoaded(p, settings) /\ SameListed(p, settings)
             /\ LET p == [settings EXCEPT !.deleting = x]
                IN SameLoaded(p, settings) /\ SameListed(p, settings)
  BY <1>p DEF PageSettings, SameLoaded, SameListed
<1>2. ASSUME NEW flag, NEW value, flag \notin {"week", "daily"},
             Acts([settings EXCEPT !.busy = @ \cup {flag}]),
             Sends(Ask(flag, value, "none"))
      PROVE  Accounted'
  BY <1>1, <1>2, ActedAccounted
<1>3. CASE \/ SaveWebhookSettings \/ HandleDeleteAccount \/ ConfirmBackupImport
           \/ HandleDisconnectGoogleCalendar
  BY <1>2, <1>3 DEF SaveWebhookSettings, HandleDeleteAccount, ConfirmBackupImport,
                    HandleDisconnectGoogleCalendar
<1>4. ASSUME NEW kind \in Plain, PlainRequest(kind) PROVE Accounted'
  BY <1>2, <1>4 DEF PlainRequest, Plain
<1>5. ASSUME NEW value, EditWebhook(value) PROVE Accounted'
  BY <1>1, <1>5, ActedAccounted DEF EditWebhook
<1>6. CASE TypeDelete
  BY <1>1, <1>6, ActedAccounted DEF TypeDelete, Confirm
<1>7. CASE HandleBackupImportFileChange
  BY <1>1, <1>7, ActedAccounted DEF HandleBackupImportFileChange, Confirm
<1>8. CASE OpenDisconnectConfirm
  BY <1>1, <1>8, ActedAccounted DEF OpenDisconnectConfirm, Confirm
<1>9. ASSUME NEW u, OpenDeleteAdminUserConfirm(u) PROVE Accounted'
  BY <1>1, <1>9, ActedAccounted DEF OpenDeleteAdminUserConfirm, Confirm
<1>10. CASE CancelDialog
  <2>1. /\ SendsNothing
        /\ \/ Acts([settings EXCEPT !.dialog = FALSE])
           \/ Acts([settings EXCEPT !.candidate = NoUser])
    BY <1>10 DEF CancelDialog
  <2> QED
    BY <1>1, <2>1, ActedAccounted
<1>11. CASE HandleDeleteAdminUser
  <2>1. /\ Sends(Ask("user", settings.candidate, "none"))
        /\ Acts([settings EXCEPT !.deleting = settings.candidate])
    BY <1>11 DEF HandleDeleteAdminUser
  <2> QED
    BY <1>1, <2>1, ActedAccounted
<1> QED
  BY <1>3, <1>4, <1>5, <1>6, <1>7, <1>8, <1>9, <1>10, <1>11

LEMMA StepAccounted ==
  ASSUME SettingsTypeOK, Accounted, [SettingsNext]_settingsVars
  PROVE  Accounted'
<1>1. CASE RequestStep
  BY <1>1, ServedAccounted, ContinuedAccounted, AnsweredAccounted, LeavingAccounted
     DEF RequestStep
<1>2. CASE Mount \/ SignOut \/ SignIn
  BY <1>2, SessionAccounted
<1>3. CASE (\E view \in Views : OpenView(view)) \/ CloseSettingsPanels
  BY <1>3, ViewsAccounted
<1>4. CASE \E p \in Preferences : UpdatePreference(p)
  BY <1>4, PreferencesAccounted
<1>5. CASE UNCHANGED settingsVars
  BY <1>5 DEF settingsVars, Accounted, Alone, Current, AsStored, Excuses, GoogleShown,
              UsersShown
<1> QED
  BY <1>1, <1>2, <1>3, <1>4, <1>5, ActsAccounted DEF SettingsNext

-----------------------------------------------------------------------------
(***************************************************************************)
(* The working hours.  The page stores its own before anything is loaded,  *)
(* so it never takes the server's; those that are set here are on their    *)
(* way to the server, or there.                                            *)
(***************************************************************************)
HoursShown ==
  /\ requests # {} \/ account = "in" => hoursStored
  /\ unsettled = {} =>
       /\ \A r \in requests : r.kind = "hours" => r.value = settings.hours
       /\ settings.hoursSet =>
            \/ settings.hours = serverSettings.hours
            \/ \E r \in requests : r.kind = "hours" /\ r.at = "sent"

SameHours(q, p) == q.hours = p.hours /\ q.hoursSet = p.hoursSet

LEMMA HoursStay ==
  ASSUME HoursShown,
         (requests' # {} \/ account' = "in") => hoursStored',
         unsettled' = {} =>
           /\ unsettled = {} /\ SameHours(settings', settings)
           /\ serverSettings'.hours = serverSettings.hours
           /\ \A r \in requests' : r.kind = "hours" => r \in requests
           /\ \A r \in requests : r.kind = "hours" /\ r.at = "sent" => r \in requests'
  PROVE  HoursShown'
BY DEF HoursShown, SameHours

LEMMA FormsKeepHours ==
  ASSUME NEW p \in PageSettings
  PROVE  SameHours(AccountFormsReset(p), p)
BY DEF AccountFormsReset, PageSettings, SameHours

LEMMA ResetKeepsHours ==
  ASSUME NEW p \in PageSettings
  PROVE  SameHours(DataReset(p), p)
<1>1. PICK blank \in PageSettings : blank = Blank
  BY BlankType
<1>2. PICK busy \in SUBSET Flags : busy = p.busy \cap {"saving", "testing", "timezone"}
  BY DEF PageSettings
<1> DEFINE q == [blank EXCEPT !.week = p.week, !.hours = p.hours, !.hoursSet = p.hoursSet,
                              !.busy = busy]
<1>3. q \in PageSettings /\ SameHours(q, p)
  BY DEF PageSettings, SameHours
<1>4. DataReset(p) = AccountFormsReset(q)
  BY <1>1, <1>2 DEF DataReset
<1> HIDE DEF q
<1> QED
  BY <1>3, <1>4, FormsKeepHours DEF SameHours

LEMMA OpenedKeepsHours ==
  ASSUME NEW p \in PageSettings, NEW view \in Views
  PROVE  SameHours(Opened(p, view), p)
<1> DEFINE shown == [p EXCEPT !.view = view]
<1>1. shown \in PageSettings /\ SameHours(shown, p)
  BY DEF PageSettings, SameHours
<1>2. CASE view \in {"menu", "account", "change-password", "delete-account"}
  <2>1. Opened(p, view) = AccountFormsReset(shown)
    BY <1>2 DEF Opened
  <2> HIDE DEF shown
  <2> QED
    BY <1>1, <2>1, FormsKeepHours DEF SameHours
<1>3. CASE view = "webhook"
  BY <1>1, <1>3 DEF Opened, PageSettings, SameHours
<1>4. CASE view = "backup"
  BY <1>1, <1>4 DEF Opened, PageSettings, SameHours
<1>5. CASE view = "google-calendar"
  BY <1>1, <1>5 DEF Opened, PageSettings, SameHours
<1>6. CASE view = "admin"
  BY <1>1, <1>6 DEF Opened, PageSettings, SameHours
<1>7. CASE view \in {"closed", "calendar-display"}
  BY <1>1, <1>7 DEF Opened
<1> QED
  BY <1>2, <1>3, <1>4, <1>5, <1>6, <1>7 DEF Views

\* The server takes the hours of a request to set them, and of no other.
LEMMA ServedHours ==
  ASSUME SettingsTypeOK, HoursShown, NEW r \in requests, RequestServed(r)
  PROVE  HoursShown'
<1>1. /\ hoursStored /\ UNCHANGED <<settings, hoursStored, account>>
      /\ serverSettings \in ServerSettings /\ r \in Requests
  BY DEF HoursShown, RequestServed, SettingsTypeOK
<1> SUFFICES ASSUME unsettled' = {} PROVE HoursShown'
  BY <1>1 DEF HoursShown
<1> DEFINE s == [r EXCEPT !.at = "served", !.seen = serverSettings']
<1>2. /\ r.at = "sent" /\ unsettled = {} /\ serverSettings' = AfterAll(r)
      /\ requests' = (requests \ {r}) \cup {s}
  BY DEF RequestServed
<1>3. s.kind = r.kind /\ s.value = r.value
  BY <1>1 DEF Requests
<1> HIDE DEF s
<1>4. CASE r.kind = "hours"
  <2>1. AfterAll(r) = [serverSettings EXCEPT !.hours = r.value]
    BY <1>4 DEF AfterAll, Preferences
  <2>2. serverSettings'.hours = r.value
    BY <1>1, <1>2, <2>1 DEF ServerSettings
  <2>3. r.value = settings.hours
    BY <1>2, <1>4 DEF HoursShown
  <2> QED
    BY <1>1, <1>2, <1>3, <2>2, <2>3 DEF HoursShown
<1>5. CASE r.kind # "hours"
  <2>1. AfterAll(r).hours = serverSettings.hours
    <3>1. CASE r.kind = "week"
      BY <1>1, <3>1 DEF AfterAll, Preferences, ServerSettings
    <3>2. CASE r.kind = "daily"
      BY <1>1, <3>2 DEF AfterAll, Preferences, ServerSettings
    <3>3. CASE r.kind = "saving"
      BY <1>1, <3>3 DEF AfterAll, Preferences, ServerSettings
    <3>4. CASE r.kind = "disconnect"
      BY <1>1, <3>4 DEF AfterAll, Preferences, ServerSettings
    <3>5. CASE r.kind = "user"
      BY <1>1, <3>5 DEF AfterAll, Preferences, ServerSettings
    <3>6. CASE r.kind \notin Preferences \cup {"saving", "disconnect", "user"}
      BY <3>6 DEF AfterAll, Preferences
    <3> QED
      BY <1>5, <3>1, <3>2, <3>3, <3>4, <3>5, <3>6 DEF Preferences
  <2> QED
    BY <1>1, <1>2, <1>3, <1>5, <2>1, HoursStay DEF SameHours
<1> QED
  BY <1>4, <1>5

LEMMA AnsweredHours ==
  ASSUME SettingsTypeOK, HoursShown, NEW r \in requests,
         RequestContinued(r) \/ RequestAnswered(r) \/ ConnectAnswered(r) \/ AccountDeleted(r)
  PROVE  HoursShown'
<1>1. settings \in PageSettings /\ serverSettings \in ServerSettings /\ r \in Requests
      /\ hoursStored
  BY DEF SettingsTypeOK, HoursShown
<1>2. CASE RequestContinued(r)
  <2> DEFINE s == [r EXCEPT !.at = "sent", !.then = r.kind,
                            !.kind = IF r.kind = "user" THEN "users" ELSE "status"]
  <2>1. /\ SendsBeside(requests \ {r}, s) /\ r.kind \in {"disconnect", "sync", "user"}
        /\ UNCHANGED <<serverSettings, hoursStored>>
    BY <1>2 DEF RequestContinued, Continued
  <2>2. s.kind # "hours"
    BY <1>1 DEF Requests
  <2> HIDE DEF s
  <2>3. requests' = (requests \ {r}) \cup {s} /\ (unsettled' = {} => unsettled = {})
    BY <2>1 DEF SendsBeside
  <2>4. SameHours(settings', settings)
    <3>1. CASE r.kind = "user"
      <4>1. settings' = [settings EXCEPT !.candidate = NoUser, !.busy = @ \cup {"listing"}]
        BY <1>2, <3>1 DEF RequestContinued
      <4> QED
        BY <1>1, <4>1 DEF PageSettings, SameHours
    <3>2. CASE r.kind # "user"
      <4>1. PICK dialog \in BOOLEAN : dialog = (settings.dialog /\ r.kind # "disconnect")
        OBVIOUS
      <4>2. settings' = [settings EXCEPT !.busy = @ \cup {"loading"}, !.dialog = dialog]
        BY <1>2, <3>2, <4>1 DEF RequestContinued
      <4> QED
        BY <1>1, <4>2 DEF PageSettings, SameHours
    <3> QED
      BY <3>1, <3>2
  <2> QED
    BY <1>1, <2>1, <2>2, <2>3, <2>4, HoursStay
<1>3. CASE RequestAnswered(r)
  <2> DEFINE p == AnswerShown(r, settings)
  <2>1. /\ requests' = requests \ {r} /\ r.at # "sent"
        /\ UNCHANGED <<serverSettings, hoursStored, unsettled>>
        /\ settings' = Finished(r, p) \/ settings' = Finished(r, settings)
        /\ p \in PageSettings
    BY <1>3, ShownNarrower DEF RequestAnswered, Narrower
  <2>2. SameHours(p, settings)
    <3>1. CASE r.kind = "load"
      BY <1>1, <3>1 DEF AnswerShown, Loaded, PageSettings, SameHours
    <3>2. CASE r.kind = "saving"
      <4> DEFINE q == [settings EXCEPT !.webhook = r.value, !.draft = r.value]
      <4>1. q \in PageSettings /\ SameHours(q, settings)
        BY <1>1 DEF PageSettings, SameHours, Requests
      <4>2. p = Opened(q, "menu") /\ "menu" \in Views
        BY <3>2 DEF AnswerShown, Views
      <4> HIDE DEF q
      <4> QED
        BY <4>1, <4>2, OpenedKeepsHours DEF SameHours
    <3>3. CASE r.kind = "status"
      BY <1>1, <3>3 DEF AnswerShown, PageSettings, SameHours
    <3>4. CASE r.kind = "users"
      BY <1>1, <3>4 DEF AnswerShown, PageSettings, SameHours
    <3>5. CASE r.kind = "import"
      BY <1>1, <3>5 DEF AnswerShown, PageSettings, SameHours
    <3>6. CASE r.kind \notin {"load", "saving", "status", "users", "import"}
      BY <3>6 DEF AnswerShown, SameHours
    <3> QED
      BY <3>1, <3>2, <3>3, <3>4, <3>5, <3>6
  <2> HIDE DEF p
  <2>3. SameHours(settings', settings)
    BY <1>1, <2>1, <2>2 DEF Finished, PageSettings, SameHours
  <2> QED
    BY <1>1, <2>1, <2>3, HoursStay
<1>4. CASE ConnectAnswered(r)
  <2>1. PICK blank \in PageSettings : blank = Blank
    BY BlankType
  <2>2. settings' = [blank EXCEPT !.hours = settings.hours, !.hoursSet = settings.hoursSet]
    BY <1>4, <2>1 DEF ConnectAnswered
  <2>3. SameHours(settings', settings)
    BY <2>2 DEF PageSettings, SameHours
  <2>4. /\ \A q \in requests' : q.kind # "hours"
        /\ r.kind = "connect" /\ UNCHANGED hoursStored
        /\ unsettled' = {} => unsettled = {} /\ requests = {r}
        /\ serverSettings'.hours = serverSettings.hours
    BY <1>1, <1>4 DEF ConnectAnswered, Ask, ServerSettings
  <2> QED
    BY <1>1, <2>3, <2>4, HoursStay
<1>5. CASE AccountDeleted(r)
  BY <1>1, <1>5, ResetKeepsHours, HoursStay DEF AccountDeleted
<1> QED
  BY <1>2, <1>3, <1>4, <1>5

LEMMA SessionHours ==
  ASSUME SettingsTypeOK, HoursShown, Mount \/ SignIn \/ SignOut
  PROVE  HoursShown'
<1>p. settings \in PageSettings
  BY DEF SettingsTypeOK
<1>1. CASE Mount \/ SignIn
  <2> DEFINE r == Ask("load", 0, "none")
  <2>1. /\ Sends(r) /\ r.kind = "load" /\ hoursStored'
        /\ UNCHANGED <<settings, serverSettings>>
    BY <1>1 DEF Mount, SignIn, Ask
  <2> HIDE DEF r
  <2> QED
    BY <2>1, HoursStay DEF Sends, SendsBeside, SameHours
<1>2. CASE SignOut
  <2>1. /\ SendsNothing /\ account' = "out" /\ UNCHANGED <<serverSettings, hoursStored>>
        /\ settings' = DataReset(settings)
    BY <1>2 DEF SignOut
  <2>2. SameHours(settings', settings)
    BY <1>p, <2>1, ResetKeepsHours
  <2> QED
    BY <2>1, <2>2, HoursStay DEF SendsNothing, HoursShown
<1> QED
  BY <1>1, <1>2

\* An act that leaves the working hours alone.
LEMMA ActedHours ==
  ASSUME HoursShown, NEW p, Acts(p), SameHours(p, settings),
         \/ SendsNothing
         \/ \E kind, value : kind # "hours" /\ Sends(Ask(kind, value, "none"))
  PROVE  HoursShown'
<1>1. hoursStored' /\ settings' = p /\ UNCHANGED serverSettings
  BY DEF Acts, HoursShown
<1>2. /\ unsettled' = {} => unsettled = {}
      /\ requests \subseteq requests'
      /\ \A r \in requests' : r.kind = "hours" => r \in requests
  BY DEF SendsNothing, Sends, SendsBeside, Ask
<1> QED
  BY <1>1, <1>2, HoursStay

LEMMA ViewsHours ==
  ASSUME SettingsTypeOK, HoursShown, (\E view \in Views : OpenView(view)) \/ CloseSettingsPanels
  PROVE  HoursShown'
<1>p. settings \in PageSettings
  BY DEF SettingsTypeOK
<1>1. ASSUME NEW view \in Views, OpenView(view)
      PROVE  HoursShown'
  <2>1. \/ SendsNothing \/ Sends(Ask("status", 0, "none")) \/ Sends(Ask("users", 0, "none"))
    BY <1>1 DEF OpenView
  <2> QED
    BY <1>p, <1>1, <2>1, OpenedKeepsHours, ActedHours DEF OpenView
<1>2. CASE CloseSettingsPanels
  <2> DEFINE q == [settings EXCEPT !.view = "closed"]
  <2>1. Acts(AccountFormsReset(q)) /\ SendsNothing
    BY <1>2 DEF CloseSettingsPanels
  <2>2. q \in PageSettings /\ SameHours(q, settings)
    BY <1>p DEF PageSettings, Views, SameHours
  <2> HIDE DEF q
  <2>3. SameHours(AccountFormsReset(q), settings)
    BY <2>2, FormsKeepHours DEF SameHours
  <2> QED
    BY <2>1, <2>3, ActedHours
<1> QED
  BY <1>1, <1>2

LEMMA PreferencesHours ==
  ASSUME SettingsTypeOK, HoursShown, NEW f \in Preferences, UpdatePreference(f)
  PROVE  HoursShown'
<1>p. settings \in PageSettings
  BY DEF SettingsTypeOK
<1> DEFINE r == Ask(f, 1 - settings[f], "none")
<1>s. PICK set \in BOOLEAN : set = (settings.hoursSet \/ f = "hours")
  OBVIOUS
<1>1. /\ Sends(r) /\ r.kind = f /\ r.value = 1 - settings[f] /\ r.at = "sent"
      /\ Acts([settings EXCEPT ![f] = 1 - @, !.hoursSet = @ \/ f = "hours"])
  BY DEF UpdatePreference, Ask
<1>2. settings' = [settings EXCEPT ![f] = r.value, !.hoursSet = set]
  BY <1>p, <1>s, <1>1 DEF Acts, PageSettings, Preferences
<1>3. CASE f = "hours"
  <2> HIDE DEF r
  <2>1. settings'.hours = r.value /\ hoursStored'
    BY <1>p, <1>1, <1>2, <1>3 DEF PageSettings, Acts, HoursShown
  <2>2. requests' = requests \cup {r}
    BY <1>1 DEF Sends, SendsBeside
  <2>3. unsettled' = {} => \A q \in requests : q.kind # "hours"
    BY <1>1, <1>3, Clashes DEF Sends, SendsBeside, Preferences
  <2> QED
    BY <1>1, <1>3, <2>1, <2>2, <2>3 DEF HoursShown
<1>4. CASE f # "hours"
  <2>1. SameHours(settings', settings)
    <3>1. set = settings.hoursSet
      BY <1>p, <1>s, <1>4 DEF PageSettings
    <3>2. CASE f = "week"
      BY <1>p, <1>2, <3>1, <3>2 DEF PageSettings, SameHours
    <3>3. CASE f = "daily"
      BY <1>p, <1>2, <3>1, <3>3 DEF PageSettings, SameHours
    <3> QED
      BY <1>4, <3>2, <3>3 DEF Preferences
  <2>2. Acts(settings')
    BY <1>1 DEF Acts
  <2> QED
    BY <1>1, <1>4, <2>1, <2>2, ActedHours
<1> QED
  BY <1>3, <1>4

LEMMA ActsHours ==
  ASSUME SettingsTypeOK, HoursShown,
         \/ SaveWebhookSettings
         \/ \E kind \in Plain : PlainRequest(kind)
         \/ \E value \in {0, 2} : EditWebhook(value)
         \/ TypeDelete \/ HandleBackupImportFileChange \/ OpenDisconnectConfirm
         \/ \E u \in Others : OpenDeleteAdminUserConfirm(u)
         \/ CancelDialog
         \/ HandleDeleteAccount \/ ConfirmBackupImport
         \/ HandleDisconnectGoogleCalendar \/ HandleDeleteAdminUser
  PROVE  HoursShown'
<1>p. settings \in PageSettings
  BY DEF SettingsTypeOK
<1>1. ASSUME NEW x
      PROVE  /\ SameHours([settings EXCEPT !.busy = @ \cup {x}], settings)
             /\ SameHours([settings EXCEPT !.draft = x], settings)
             /\ SameHours([settings EXCEPT !.phrase = x], settings)
             /\ SameHours([settings EXCEPT !.file = x], settings)
             /\ SameHours([settings EXCEPT !.dialog = x], settings)
             /\ SameHours([settings EXCEPT !.candidate = x], settings)
             /\ SameHours([settings EXCEPT !.deleting = x], settings)
  BY <1>p DEF PageSettings, SameHours
<1>2. ASSUME NEW flag, NEW value, flag # "hours",
             Acts([settings EXCEPT !.busy = @ \cup {flag}]),
             Sends(Ask(flag, value, "none"))
      PROVE  HoursShown'
  BY <1>1, <1>2, ActedHours
<1>3. CASE \/ SaveWebhookSettings \/ HandleDeleteAccount \/ ConfirmBackupImport
           \/ HandleDisconnectGoogleCalendar
  BY <1>2, <1>3 DEF SaveWebhookSettings, HandleDeleteAccount, ConfirmBackupImport,
                    HandleDisconnectGoogleCalendar
<1>4. ASSUME NEW kind \in Plain, PlainRequest(kind) PROVE HoursShown'
  BY <1>2, <1>4 DEF PlainRequest, Plain
<1>5. ASSUME NEW value, EditWebhook(value) PROVE HoursShown'
  BY <1>1, <1>5, ActedHours DEF EditWebhook
<1>6. CASE TypeDelete
  BY <1>1, <1>6, ActedHours DEF TypeDelete, Confirm
<1>7. CASE HandleBackupImportFileChange
  BY <1>1, <1>7, ActedHours DEF HandleBackupImportFileChange, Confirm
<1>8. CASE OpenDisconnectConfirm
  BY <1>1, <1>8, ActedHours DEF OpenDisconnectConfirm, Confirm
<1>9. ASSUME NEW u, OpenDeleteAdminUserConfirm(u) PROVE HoursShown'
  BY <1>1, <1>9, ActedHours DEF OpenDeleteAdminUserConfirm, Confirm
<1>10. CASE CancelDialog
  BY <1>1, <1>10, ActedHours DEF CancelDialog
<1>11. CASE HandleDeleteAdminUser
  <2>1. /\ Sends(Ask("user", settings.candidate, "none"))
        /\ Acts([settings EXCEPT !.deleting = settings.candidate])
    BY <1>11 DEF HandleDeleteAdminUser
  <2> QED
    BY <1>1, <2>1, ActedHours
<1> QED
  BY <1>3, <1>4, <1>5, <1>6, <1>7, <1>8, <1>9, <1>10, <1>11

LEMMA StepHours ==
  ASSUME SettingsTypeOK, HoursShown, [SettingsNext]_settingsVars
  PROVE  HoursShown'
<1>1. CASE RequestStep
  BY <1>1, ServedHours, AnsweredHours DEF RequestStep
<1>2. CASE Mount \/ SignOut \/ SignIn
  BY <1>2, SessionHours
<1>3. CASE (\E view \in Views : OpenView(view)) \/ CloseSettingsPanels
  BY <1>3, ViewsHours
<1>4. CASE \E p \in Preferences : UpdatePreference(p)
  BY <1>4, PreferencesHours
<1>5. CASE UNCHANGED settingsVars
  BY <1>5 DEF settingsVars, HoursShown
<1> QED
  BY <1>1, <1>2, <1>3, <1>4, <1>5, ActsHours DEF SettingsNext

\* When no request is under way, none failed and none overtook another, the page
\* of an account that is signed in shows the settings that the server has
\* (refreshWebhookSettings, updateWeekStart, saveWebhookSettings of App.tsx), and what
\* it shows of the connection and of the users is what the server has.  The working
\* hours it shows are the server's only when they were set on this page: the hours of
\* the mount are stored before the server's arrive (saveWorkingHours,
\* hasStoredWorkingHours).
THEOREM PageAgrees == SettingsSpec => []SettingsAgree
<1>1. SettingsInit => Accounted /\ HoursShown
  <2>1. Blank.google = "unknown" /\ Blank.users = {} /\ ~ Blank.hoursSet
    BY DEF Blank
  <2> QED
    BY <2>1 DEF SettingsInit, Accounted, Alone, AsStored, GoogleShown, UsersShown, HoursShown
<1>2. IInv /\ Accounted /\ HoursShown /\ [SettingsNext]_settingsVars
        => Accounted' /\ HoursShown'
  BY StepAccounted, StepHours DEF IInv
<1>3. Accounted /\ HoursShown => SettingsAgree
  <2> SUFFICES ASSUME Accounted, HoursShown, requests = {}, unsettled = {}, account = "in"
               PROVE  /\ \A p \in {"week", "daily", "webhook"} :
                           settings[p] = serverSettings[p]
                      /\ settings.hoursSet => settings.hours = serverSettings.hours
                      /\ settings.google \in {"unknown", serverSettings.google}
                      /\ settings.users \in {{}, serverSettings.users}
    BY DEF SettingsAgree
  <2> QED
    BY DEF Accounted, AsStored, GoogleShown, UsersShown, HoursShown
<1> QED
  BY <1>1, <1>2, <1>3, Inductive, PTL DEF SettingsSpec
==============================================================================
