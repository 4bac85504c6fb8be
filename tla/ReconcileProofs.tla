-------------------------- MODULE ReconcileProofs --------------------------
(***************************************************************************)
(* What holds of the reconciliations for every number of tasks, categories *)
(* and calendars, every size of a batch and any number of edits.           *)
(***************************************************************************)
EXTENDS ReconcileBatch, TLAPS

(***************************************************************************)
(* The types of the tables and of the run under way.                       *)
(***************************************************************************)
Phase == {"idle", "claimed", "recreated", "reading", "removing", "removed", "routing",
          "broken", "single", "answered", "committed"}
At == {"delete", "upsert"}
Entry == [state : {"live", "gone"}, active : BOOLEAN, category : Category \cup {NoCategory},
          payload : {1, 2}]
Copy == [calendar : Calendar \cup {0}, payload : 0..2, owned : BOOLEAN,
         id : TaskId \cup {0}]
Reading == [category : Category \cup {NoCategory}, payload : {1, 2}]
Position == [open : BOOLEAN, at : At, last : TaskId \cup {0}]
Deletion == [task : TaskId, key : TaskId \cup {Orphans}, calendar : Calendar]
Request == [task : TaskId, calendar : Calendar, payload : {1, 2},
            old : Calendar \cup {0}, kind : {"create", "verify", "update"}]
Operation == Deletion \cup Request
SeenTasks == UNION {[S -> Reading] : S \in SUBSET TaskId}
Fixes == UNION {[S -> Calendar] : S \in SUBSET Category}
Run == [phase : Phase, pass : Pass, at : At, last : TaskId \cup {0},
        todo : SUBSET TaskId, members : SUBSET TaskId, seen : SeenTasks,
        expired : BOOLEAN, locked : SUBSET Category, ops : SUBSET Operation,
        done : SUBSET Operation, tidy : SUBSET TaskId, fix : Fixes, next : Position]
Jobs == [upserts : SUBSET TaskId, deletes : SUBSET (TaskId \cup {Orphans})]
History == [missed : SUBSET TaskId, covers : [Pass -> SUBSET TaskId],
            loose : SUBSET (TaskId \X Calendar)]

TaskTypes ==
  /\ scheduled \in [TaskId -> Entry]
  /\ categories \in [Category -> {"synced", "local", "deleted"}]

GoogleTypes ==
  /\ routes \in [Category -> Calendar \cup {0}]
  /\ calendars \in [Calendar -> Category \cup {"unused", "deleted"}]
  /\ events \in [TaskId -> [Calendar -> 0..3]]
  /\ copies \in [TaskId -> Copy]

QueueTypes ==
  jobs \in Jobs /\ passes \in [Pass -> Position] /\ batchSize \in BatchSizes

HistoryTypes == trace \in History
Removing == batch.phase \in {"removing", "removed"}
Sending == batch.phase \in {"routing", "broken", "answered"}

RunTypes ==
  /\ batch \in Run
  /\ Removing => batch.ops \subseteq Deletion
  /\ Sending => batch.ops \subseteq Request
  /\ batch.done \subseteq batch.ops
  /\ batch.phase \notin {"removed", "answered"} => batch.done = {}

Types == TaskTypes /\ GoogleTypes /\ QueueTypes /\ HistoryTypes /\ RunTypes
-----------------------------------------------------------------------------
Underway == batch.phase \notin {"idle", "claimed", "recreated"}

Ending == batch.phase \in {"single", "committed"}

(***************************************************************************)
(* A pass under way is open, and until its calendars are there it is where *)
(* the last run left it.  A run that removes goes on at some position, one *)
(* that sends may be the last; only the latter has tasks to do.            *)
(***************************************************************************)
Positions ==
  /\ \A p \in Pass : ~passes[p].open => passes[p] = Closed
  /\ batch.phase = "idle" => batch = NoBatch
  /\ batch.phase # "idle" => passes[batch.pass].open
  /\ batch.phase \in {"claimed", "recreated"} =>
       passes[batch.pass] = [open |-> TRUE, at |-> batch.at, last |-> batch.last]
  /\ Removing => /\ batch.next.open
                 /\ (batch.next.at = "upsert" => batch.next.last = 0)
  /\ (Sending \/ Ending) /\ ~batch.next.open => batch.next = Closed
  /\ ~Sending /\ batch.phase # "single" => batch.todo = {}

(***************************************************************************)
(* A mirror has an id of its own, and belongs to its task for as long as   *)
(* that is there.                                                          *)
(***************************************************************************)
Live(t) == scheduled[t].state = "live"

Rows ==
  /\ \A t \in TaskId : ~Copied(t) => copies[t] = NoCopy
  /\ \A t \in TaskId : Copied(t) =>
       /\ copies[t].id # 0 /\ copies[t].payload # 0
       /\ copies[t].owned <=> Live(t)
  /\ \A s, t \in TaskId : Copied(s) /\ Copied(t) /\ copies[s].id = copies[t].id => s = t

(***************************************************************************)
(* No task is in a category that is deleted.  The calendars a run is going *)
(* to replace are gone.                                                    *)
(***************************************************************************)
Places ==
  /\ \A t \in TaskId : scheduled[t].category # NoCategory =>
       categories[scheduled[t].category] # "deleted"
  /\ \A c \in DOMAIN batch.fix : routes[c] # 0 => calendars[routes[c]] = "deleted"
  /\ batch.phase # "recreated" => batch.fix = <<>>

(***************************************************************************)
(* Whatever Google shows is what a mirror says, or known to be loose; what *)
(* a mirror says may have been taken away.  A calendar that was deleted    *)
(* shows nothing.                                                          *)
(***************************************************************************)
Missing(t, k) == k = copies[t].calendar /\ events[t][k] = NoEvent

Shows ==
  /\ \A t \in TaskId, k \in Calendar :
       \/ <<t, k>> \in trace.loose
       \/ events[t][k] = IF k = copies[t].calendar THEN copies[t].payload ELSE NoEvent
       \/ Missing(t, k)
  /\ \A t \in TaskId, k \in Calendar : calendars[k] = "deleted" =>
       (events[t][k] = NoEvent /\ <<t, k>> \notin trace.loose)

(***************************************************************************)
(* What a run that removes has read is still what the mirrors say, and     *)
(* what was answered is gone.                                              *)
(***************************************************************************)
Deletions ==
  Removing =>
    /\ \A o \in batch.ops :
         /\ Copied(o.task) /\ o.calendar = copies[o.task].calendar
         /\ o.key = o.task \/ (o.key = Orphans /\ ~Live(o.task))
    /\ \A t \in batch.tidy : Copied(t)
    /\ batch.phase = "removed" =>
         \A o \in batch.done : events[o.task][o.calendar] = NoEvent

(***************************************************************************)
(* A run that sends asks one thing for each of its tasks, and knows what   *)
(* the mirrors say.  What Google has answered is loose until it is         *)
(* recorded, and what it replaces is gone or to be tidied.                 *)
(***************************************************************************)
Sent(o) == o \in batch.done /\ o.kind # "verify"
Moved(o) == o.old \notin {0, o.calendar}

RequestOK(o) ==
  /\ o.task \in batch.members \ batch.todo
  /\ o.old = copies[o.task].calendar
  /\ (o.kind = "create") <=> (o.old # o.calendar)
  /\ (o.kind = "verify") => copies[o.task].payload = o.payload

AnswerOK(o) ==
  /\ <<o.task, o.calendar>> \in trace.loose \/ events[o.task][o.calendar] = NoEvent
  /\ Moved(o) => o.task \in batch.tidy \/ events[o.task][o.old] = NoEvent

Requests ==
  /\ Sending =>
       /\ \A o \in batch.ops : RequestOK(o)
       /\ \A o, p \in batch.ops : o.task = p.task => o = p
  /\ Sending \/ batch.phase = "single" => batch.todo \subseteq batch.members
  /\ (batch.phase = "routing" /\ ~batch.expired) => DOMAIN batch.seen = batch.members
  /\ batch.phase \in {"routing", "broken"} => batch.tidy = {}
  /\ batch.phase = "answered" =>
       /\ batch.todo = {}
       /\ \A o \in batch.done : Sent(o) => AnswerOK(o)
       /\ \A t \in batch.tidy : \E o \in batch.done : Sent(o) /\ o.task = t /\ Moved(o)
-----------------------------------------------------------------------------
(***************************************************************************)
(* A task whose changes are promised (Owed) is right, or in the hands of a *)
(* job, or of an open pass that has not come past it.                      *)
(***************************************************************************)
Owed(t) == t \notin trace.missed \/ \E p \in Pass : t \in trace.covers[p]

Home(t) == IF Eligible(t) THEN routes[scheduled[t].category] ELSE 0

Shown(t) ==
  Copied(t) => \/ <<t, copies[t].calendar>> \in trace.loose
               \/ events[t][copies[t].calendar] = copies[t].payload
Right(t) ==
  /\ copies[t].calendar = Home(t) /\ Shown(t)
  /\ Eligible(t) => Home(t) # 0 /\ copies[t].payload = scheduled[t].payload

Swept == \E d \in jobs.deletes : d = Orphans \/ ~Live(d)

Queued(t) ==
  \/ Live(t) /\ t \in jobs.upserts
  \/ ~Live(t) /\ Swept

Unwanted(t) == Live(t) /\ ~Eligible(t) /\ t \in jobs.deletes

Safe(t) == Right(t) \/ Queued(t) \/ Unwanted(t)

Treats(pos, t) ==
  /\ pos.open
  /\ \/ Eligible(t) /\ (pos.at = "delete" \/ t > pos.last)
     \/ ~Eligible(t) /\ Copied(t) /\ pos.at = "delete" /\ copies[t].id > pos.last

Carried(t) == Safe(t) \/ \E q \in Pass : Treats(passes[q], t)

(***************************************************************************)
(* Or the run under way is at it: it was read, and as it is now; or it     *)
(* comes after what was read.                                              *)
(***************************************************************************)
Here == [open |-> TRUE, at |-> batch.at, last |-> batch.last]

Matches(o, t) ==
  /\ o.task = t /\ Eligible(t)
  /\ o.calendar = Home(t) /\ o.payload = scheduled[t].payload

Outcome(o) ==
  \/ o \notin batch.done
  \/ o.kind = "verify" /\ Shown(o.task)
  \/ Sent(o) /\ <<o.task, o.calendar>> \in trace.loose

InTodo(t) == Eligible(t) /\ t \in batch.todo

SeenAsIs(t) ==
  /\ batch.seen[t].category = scheduled[t].category
  /\ batch.seen[t].payload = scheduled[t].payload

AsRead(t) ==
  \/ /\ Removing /\ ~Eligible(t)
     /\ t \in batch.tidy \/ \E o \in batch.ops : o.task = t
  \/ batch.phase = "routing" /\ InTodo(t) /\ (batch.expired \/ SeenAsIs(t))
  \/ batch.phase = "routing" /\ \E o \in batch.ops : Matches(o, t)
  \/ batch.phase = "answered" /\ \E o \in batch.ops : Matches(o, t) /\ Outcome(o)
  \/ batch.phase = "single" /\ InTodo(t)

ByRun(t) ==
  \/ batch.phase = "reading" /\ Treats(Here, t)
  \/ batch.phase # "reading" /\ (AsRead(t) \/ Treats(batch.next, t))
  \/ batch.phase = "broken"

Others == Pass \ {batch.pass}

Handled(t) == Safe(t) \/ ByRun(t) \/ \E q \in Others : Treats(passes[q], t)

(***************************************************************************)
(* A task that is not any more as the run has read it is in the hands of   *)
(* somebody else.                                                          *)
(***************************************************************************)
Taken == batch.todo \cup batch.tidy \cup {o.task : o \in batch.ops}
Revising == batch.phase \in {"removing", "removed", "routing", "answered"}

Renewed(t) == Queued(t) \/ \E q \in Others : passes[q] = Opened

Kept(t) ==
  /\ Carried(t)
  /\ Underway => Handled(t)
  /\ Revising /\ t \in Taken => AsRead(t) \/ Renewed(t)

Owing == \A t \in TaskId : Owed(t) => Kept(t)

Tables == Positions /\ Rows /\ Places /\ Shows /\ Deletions /\ Requests
BInv == Types /\ Tables /\ Owing
-----------------------------------------------------------------------------
(***************************************************************************)
(* Lemmas about the types.                                                 *)
(***************************************************************************)
LEMMA Promised == Types => BatchTypeOK
<1> SUFFICES ASSUME Types PROVE BatchTypeOK
  OBVIOUS
<1>1. /\ scheduled \in [TaskId -> Entry] /\ copies \in [TaskId -> Copy]
      /\ jobs \in Jobs /\ passes \in [Pass -> Position]
      /\ batch \in Run /\ trace \in History /\ batch.done \subseteq batch.ops
  BY DEF Types, TaskTypes, GoogleTypes, QueueTypes, HistoryTypes, RunTypes
<1>2. /\ batch.phase \in Phase /\ batch.pass \in Pass /\ batch.at \in At
      /\ batch.last \in TaskId \cup {0} /\ batch.todo \subseteq TaskId
      /\ batch.locked \subseteq Category /\ batch.tidy \subseteq TaskId
  BY <1>1 DEF Run
<1>3. /\ trace.missed \subseteq TaskId /\ trace.covers \in [Pass -> SUBSET TaskId]
      /\ trace.loose \subseteq TaskId \X Calendar
  BY <1>1 DEF History
<1>4. /\ categories \in [Category -> {"synced", "local", "deleted"}]
      /\ routes \in [Category -> Calendar \cup {0}]
      /\ calendars \in [Calendar -> Category \cup {"unused", "deleted"}]
      /\ events \in [TaskId -> [Calendar -> 0..3]]
  BY DEF Types, TaskTypes, GoogleTypes
<1> QED
  BY <1>1, <1>2, <1>3, <1>4 DEF BatchTypeOK, Entry, Copy, Jobs, Position, At, Phase

LEMMA PlainTypes == Opened \in Position /\ Closed \in Position /\ NoCopy \in Copy
BY DEF Opened, Closed, NoCopy, Position, Copy, At

LEMMA NoBatchType == NoBatch \in Run /\ NoBatch.done = {} /\ NoBatch.ops = {}
<1>1. <<>> \in SeenTasks
  <2>1. <<>> \in [{} -> Reading]
    BY SMT
  <2> QED
    BY <2>1 DEF SeenTasks
<1>2. <<>> \in Fixes
  <2>1. <<>> \in [{} -> Calendar]
    BY SMT
  <2> QED
    BY <2>1 DEF Fixes
<1> QED
  BY <1>1, <1>2, PlainTypes DEF NoBatch, Run, Phase, Pass, At

LEMMA EntryFields ==
  ASSUME TaskTypes, NEW t \in TaskId
  PROVE  /\ scheduled[t] \in Entry /\ scheduled[t].state \in {"live", "gone"}
         /\ scheduled[t].active \in BOOLEAN /\ scheduled[t].payload \in {1, 2}
         /\ scheduled[t].category \in Category \cup {NoCategory}
BY DEF TaskTypes, Entry

LEMMA CopyFields ==
  ASSUME GoogleTypes, NEW t \in TaskId
  PROVE  /\ copies[t] \in Copy /\ copies[t].calendar \in Calendar \cup {0}
         /\ copies[t].payload \in 0..2 /\ copies[t].owned \in BOOLEAN
         /\ copies[t].id \in TaskId \cup {0}
BY DEF GoogleTypes, Copy

LEMMA HistoryFields ==
  ASSUME HistoryTypes
  PROVE  /\ trace.missed \subseteq TaskId
         /\ trace.covers \in [Pass -> SUBSET TaskId]
         /\ trace.loose \subseteq TaskId \X Calendar
BY DEF HistoryTypes, History

LEMMA RunFields ==
  ASSUME RunTypes
  PROVE  /\ batch.phase \in Phase /\ batch.pass \in Pass /\ batch.at \in At
         /\ batch.last \in TaskId \cup {0} /\ batch.todo \subseteq TaskId
         /\ batch.members \subseteq TaskId /\ batch.seen \in SeenTasks
         /\ batch.expired \in BOOLEAN /\ batch.locked \subseteq Category
         /\ batch.ops \subseteq Operation /\ batch.done \subseteq batch.ops
         /\ batch.tidy \subseteq TaskId /\ batch.fix \in Fixes
         /\ batch.next \in Position
BY DEF RunTypes, Run

LEMMA ForgetType ==
  ASSUME NEW h \in History, NEW ts \in SUBSET TaskId
  PROVE  Forget(h, ts) \in History
BY DEF Forget, History

LEMMA RoutedType ==
  ASSUME GoogleTypes, NEW c \in Category
  PROVE  Routed(c) \subseteq Calendar
BY DEF GoogleTypes, Routed, Named, Unused
-----------------------------------------------------------------------------
(***************************************************************************)
(* Every step keeps the types.                                             *)
(***************************************************************************)
LEMMA PassTypes ==
  ASSUME QueueTypes, HistoryTypes, NEW p \in Pass, NEW ts \in SUBSET TaskId,
         EnqueuePass(p, ts), UNCHANGED <<jobs, batchSize>>
  PROVE  QueueTypes' /\ HistoryTypes'
<1>1. passes' \in [Pass -> Position]
  <2>1. passes[p] \in Position
    BY DEF QueueTypes
  <2>2. [passes[p] EXCEPT !.open = TRUE] \in Position
    BY <2>1 DEF Position
  <2> QED
    BY <2>2 DEF QueueTypes, EnqueuePass
<1>2. trace' \in History
  BY ForgetType DEF EnqueuePass, HistoryTypes
<1> QED
  BY <1>1, <1>2 DEF QueueTypes, HistoryTypes

LEMMA SaveTaskTypes ==
  ASSUME Types, NEW t \in TaskId, SaveTask(t)
  PROVE  Types'
<1> USE DEF Types
<1>1. PICK c \in Category \cup {NoCategory}, active \in BOOLEAN, payload \in {1, 2} :
        scheduled' = [scheduled EXCEPT ![t] =
          [@ EXCEPT !.category = c, !.active = active, !.payload = payload]]
  BY DEF SaveTask
<1>2. TaskTypes'
  <2>1. scheduled[t] \in Entry
    BY EntryFields
  <2>2. [scheduled[t] EXCEPT !.category = c, !.active = active, !.payload = payload] \in Entry
    BY <2>1 DEF Entry
  <2> QED
    BY <1>1, <2>2 DEF TaskTypes, SaveTask, userVars
<1>3. jobs' \in Jobs
  BY DEF SaveTask, QueueTypes, Jobs
<1> QED
  BY <1>2, <1>3 DEF SaveTask, GoogleTypes, QueueTypes, HistoryTypes, RunTypes, Removing, Sending,
     googleVars

LEMMA RemoveTaskTypes ==
  ASSUME Types, NEW t \in TaskId, RemoveTask(t)
  PROVE  Types'
<1> USE DEF Types
<1>1. TaskTypes'
  <2>1. scheduled[t] \in Entry
    BY EntryFields
  <2>2. [scheduled[t] EXCEPT !.state = "gone"] \in Entry
    BY <2>1 DEF Entry
  <2> QED
    BY <2>2 DEF TaskTypes, RemoveTask
<1>2. GoogleTypes'
  <2>1. [copies[t] EXCEPT !.owned = FALSE] \in Copy
    BY CopyFields DEF Copy
  <2> QED
    BY <2>1 DEF GoogleTypes, RemoveTask, googleVars
<1>3. jobs' \in Jobs
  BY DEF RemoveTask, QueueTypes, Jobs
<1> QED
  BY <1>1, <1>2, <1>3 DEF RemoveTask, QueueTypes, HistoryTypes, RunTypes, Removing, Sending

LEMMA CategoryTypes ==
  ASSUME Types, NEW c \in Category,
         SwitchCategory(c) \/ DropCategory(c) \/ AddCategory(c)
  PROVE  Types'
<1> USE DEF Types
<1>1. CASE SwitchCategory(c)
  <2>1. TaskTypes'
    BY <1>1 DEF SwitchCategory, TaskTypes
  <2>2. QueueTypes' /\ HistoryTypes'
    BY <1>1, PassTypes DEF SwitchCategory, Pass
  <2> QED
    BY <1>1, <2>1, <2>2 DEF SwitchCategory, GoogleTypes, RunTypes, Removing, Sending, googleVars
<1>2. CASE DropCategory(c)
  <2>1. TaskTypes'
    <3>1. \A t \in TaskId : [scheduled[t] EXCEPT !.category = NoCategory] \in Entry
      BY EntryFields DEF Entry
    <3> QED
      BY <1>2, <3>1 DEF DropCategory, TaskTypes
  <2>2. QueueTypes' /\ HistoryTypes'
    BY <1>2, PassTypes DEF DropCategory, Pass
  <2> QED
    BY <1>2, <2>1, <2>2 DEF DropCategory, GoogleTypes, RunTypes, Removing, Sending, googleVars
<1>3. CASE AddCategory(c)
  BY <1>3 DEF AddCategory, TaskTypes, GoogleTypes, QueueTypes, HistoryTypes, RunTypes, Removing,
     Sending,
              googleVars
<1> QED
  BY <1>1, <1>2, <1>3

LEMMA AskForPassTypes ==
  ASSUME Types, NEW p \in Pass, AskForPass(p)
  PROVE  Types'
<1> USE DEF Types
<1>1. QueueTypes' /\ HistoryTypes'
  BY PassTypes DEF AskForPass
<1> QED
  BY <1>1 DEF AskForPass, TaskTypes, GoogleTypes, RunTypes, Removing, Sending, userVars, googleVars

LEMMA TouchEventTypes ==
  ASSUME Types, NEW t \in TaskId, NEW k \in Calendar, TouchEvent(t, k)
  PROVE  Types'
<1> USE DEF Types
<1>1. GoogleTypes'
  <2>1. \A x \in 0..3 : [events[t] EXCEPT ![k] = x] \in [Calendar -> 0..3]
    BY DEF GoogleTypes
  <2>2. \A x \in 0..3 : [events EXCEPT ![t][k] = x] \in [TaskId -> [Calendar -> 0..3]]
    BY <2>1 DEF GoogleTypes
  <2>3. events' = [events EXCEPT ![t][k] = Edited] \/ events' = [events EXCEPT ![t][k] = NoEvent]
    BY DEF TouchEvent
  <2>4. events' \in [TaskId -> [Calendar -> 0..3]]
    BY <2>2, <2>3 DEF Edited, NoEvent
  <2> QED
    BY <2>4 DEF TouchEvent, GoogleTypes
<1>2. HistoryTypes'
  <2>1. trace \in History /\ trace.loose \subseteq TaskId \X Calendar
    BY HistoryFields DEF HistoryTypes
  <2>2. \A h \in History : \A e \in SUBSET (TaskId \X Calendar) :
          [h EXCEPT !.loose = e] \in History
    BY DEF History
  <2>3. Forget(trace, {t}) \in History
    BY <2>1, ForgetType
  <2>4. Forget(trace, {t}).loose \subseteq TaskId \X Calendar
    BY <2>3 DEF History
  <2>5. /\ trace.loose \cup {<<t, k>>} \in SUBSET (TaskId \X Calendar)
        /\ Forget(trace, {t}).loose \ {<<t, k>>} \in SUBSET (TaskId \X Calendar)
    BY <2>1, <2>4
  <2>6. \/ trace' = [trace EXCEPT !.loose = trace.loose \cup {<<t, k>>}]
        \/ trace' = [Forget(trace, {t}) EXCEPT !.loose = Forget(trace, {t}).loose \ {<<t, k>>}]
    BY DEF TouchEvent
  <2>7. trace' \in History
    BY <2>1, <2>2, <2>3, <2>5, <2>6
  <2> QED
    BY <2>7 DEF HistoryTypes
<1> QED
  BY <1>1, <1>2 DEF TouchEvent, TaskTypes, QueueTypes, RunTypes, Removing, Sending, userVars

LEMMA DeleteCalendarTypes ==
  ASSUME Types, NEW k \in Calendar, DeleteCalendar(k)
  PROVE  Types'
<1> USE DEF Types
<1>1. GoogleTypes'
  <2>1. \A t \in TaskId : [events[t] EXCEPT ![k] = NoEvent] \in [Calendar -> 0..3]
    BY DEF GoogleTypes, NoEvent
  <2> QED
    BY <2>1 DEF DeleteCalendar, GoogleTypes
<1>2. HistoryTypes'
  <2>1. Forget(trace, TaskId) \in History
    BY ForgetType DEF HistoryTypes
  <2>2. \A h \in History : [h EXCEPT !.loose = {e \in @ : e[2] # k}] \in History
    BY DEF History
  <2> QED
    BY <2>1, <2>2 DEF DeleteCalendar, HistoryTypes
<1> QED
  BY <1>1, <1>2 DEF DeleteCalendar, TaskTypes, QueueTypes, RunTypes, Removing, Sending, userVars

LEMMA UserTypes ==
  ASSUME Types, UserStep
  PROVE  Types'
BY SaveTaskTypes, RemoveTaskTypes, CategoryTypes, AskForPassTypes, TouchEventTypes,
   DeleteCalendarTypes DEF UserStep

LEMMA DropType ==
  ASSUME NEW table \in [TaskId -> [Calendar -> 0..3]], NEW t \in TaskId,
         NEW k \in Calendar \cup {0}
  PROVE  /\ Drop(table, t, k) \in [TaskId -> [Calendar -> 0..3]]
         /\ \A s \in TaskId, j \in Calendar :
              Drop(table, t, k)[s][j] = IF s = t /\ j = k THEN NoEvent ELSE table[s][j]
<1>1. 0 \notin Calendar
  BY BatchAssumption DEF Calendar
<1>2. CASE k = 0
  BY <1>1, <1>2 DEF Drop
<1>3. CASE k # 0
  <2>1. [table[t] EXCEPT ![k] = NoEvent] \in [Calendar -> 0..3]
    BY <1>3 DEF NoEvent
  <2> QED
    BY <1>3, <2>1 DEF Drop
<1> QED
  BY <1>2, <1>3

(***************************************************************************)
(* What sync_one_task leaves behind, as the table it is.                   *)
(***************************************************************************)
LEMMA PutTypes ==
  ASSUME Types, NEW t \in TaskId, NEW k \in Calendar, Eligible(t), Put(t, k)
  PROVE  GoogleTypes' /\ HistoryTypes'
<1> USE DEF Types
<1> DEFINE old == copies[t].calendar
           sent == [events EXCEPT ![t][k] = scheduled[t].payload]
<1>0. scheduled[t].category \in Category
  BY EntryFields DEF Eligible
<1>1. events' \in [TaskId -> [Calendar -> 0..3]]
  <2>1. scheduled[t].payload \in 0..3 /\ old \in Calendar \cup {0}
    BY EntryFields, CopyFields
  <2>2. [events[t] EXCEPT ![k] = scheduled[t].payload] \in [Calendar -> 0..3]
    BY <2>1 DEF GoogleTypes
  <2>3. sent \in [TaskId -> [Calendar -> 0..3]]
    BY <2>2 DEF GoogleTypes
  <2>4. Drop(sent, t, old) \in [TaskId -> [Calendar -> 0..3]]
    BY <2>1, <2>3, DropType
  <2> QED
    BY <2>3, <2>4 DEF Put
<1>2. copies' \in [TaskId -> Copy]
  <2>1. PICK id \in IF Copied(t) THEN {copies[t].id} ELSE FreeId :
          copies' = [copies EXCEPT ![t] =
            [calendar |-> k, payload |-> scheduled[t].payload, owned |-> TRUE, id |-> id]]
    BY DEF Put
  <2>2. id \in TaskId \cup {0}
    BY CopyFields DEF FreeId
  <2>3. [calendar |-> k, payload |-> scheduled[t].payload, owned |-> TRUE, id |-> id] \in Copy
    BY <2>2, EntryFields DEF Copy
  <2> QED
    BY <2>1, <2>3 DEF GoogleTypes
<1>3. HistoryTypes'
  <2>1. \A e \in SUBSET (TaskId \X Calendar) : [trace EXCEPT !.loose = e] \in History
    BY DEF HistoryTypes, History
  <2>2. trace' = [trace EXCEPT !.loose = trace.loose \ {<<t, k>>, <<t, old>>}]
    BY DEF Put
  <2> QED
    BY <2>1, <2>2, HistoryFields DEF HistoryTypes
<1>4. /\ routes' \in [Category -> Calendar \cup {0}]
      /\ calendars' \in [Calendar -> Category \cup {"unused", "deleted"}]
  BY <1>0 DEF Put, GoogleTypes
<1> QED
  BY <1>1, <1>2, <1>3, <1>4 DEF GoogleTypes

LEMMA WithdrawTypes ==
  ASSUME Types, NEW ts \in SUBSET TaskId, NEW h \in History, Withdraw(ts, h)
  PROVE  GoogleTypes' /\ HistoryTypes'
<1> USE DEF Types
<1>1. events' \in [TaskId -> [Calendar -> 0..3]]
  <2>1. \A t \in TaskId : Drop(events, t, copies[t].calendar) \in [TaskId -> [Calendar -> 0..3]]
    BY DropType, CopyFields DEF GoogleTypes
  <2> QED
    BY <2>1 DEF Withdraw, GoogleTypes
<1>2. copies' \in [TaskId -> Copy]
  BY PlainTypes DEF Withdraw, GoogleTypes
<1>3. HistoryTypes'
  <2>1. \A e \in SUBSET (TaskId \X Calendar) : [h EXCEPT !.loose = e] \in History
    BY DEF History
  <2>2. h.loose \subseteq TaskId \X Calendar
    BY DEF History
  <2>3. trace' = [h EXCEPT !.loose = h.loose \ {<<t, copies[t].calendar>> : t \in ts}]
    BY DEF Withdraw
  <2> QED
    BY <2>1, <2>2, <2>3 DEF HistoryTypes
<1> QED
  BY <1>1, <1>2, <1>3 DEF Withdraw, GoogleTypes

LEMMA SyncOneTypes ==
  ASSUME Types, NEW t \in TaskId, SyncOne(t)
  PROVE  GoogleTypes' /\ HistoryTypes'
<1>1. trace \in History
  BY DEF Types, HistoryTypes
<1>2. Eligible(t) => Routed(scheduled[t].category) \subseteq Calendar
  BY RoutedType, EntryFields DEF Types, Eligible
<1> QED
  BY <1>1, <1>2, PutTypes, WithdrawTypes DEF SyncOne

LEMMA JobTypes ==
  ASSUME Types, JobStep
  PROVE  Types'
<1> USE DEF Types
<1>0. trace \in History /\ jobs \in Jobs
  BY DEF HistoryTypes, QueueTypes
<1>1. ASSUME NEW t \in TaskId, RunUpsert(t) PROVE Types'
  <2>1. jobs' \in Jobs
    BY <1>0, <1>1 DEF RunUpsert, Jobs
  <2>2. GoogleTypes' /\ HistoryTypes'
    <3>1. CASE SyncOne(t)
      BY <3>1, SyncOneTypes
    <3>2. CASE UNCHANGED <<routes, googleVars, copies, trace>>
      BY <3>2 DEF GoogleTypes, HistoryTypes, googleVars
    <3>3. CASE trace' = Forget(trace, {t}) /\ UNCHANGED <<routes, googleVars, copies>>
      BY <1>0, <3>3, ForgetType DEF GoogleTypes, HistoryTypes, googleVars
    <3> QED
      BY <1>1, <3>1, <3>2, <3>3 DEF RunUpsert
  <2> QED
    BY <1>1, <2>1, <2>2 DEF RunUpsert, TaskTypes, QueueTypes, RunTypes, Removing, Sending, userVars
<1>2. ASSUME NEW d \in TaskId \cup {Orphans}, RunDelete(d) PROVE Types'
  <2>1. jobs' \in Jobs
    BY <1>0, <1>2 DEF RunDelete, Jobs
  <2>2. GoogleTypes' /\ HistoryTypes'
    <3> DEFINE ts == {t \in TaskId : Copied(t) /\
                        (IF d # Orphans /\ scheduled[d].state = "live"
                         THEN t = d ELSE ~copies[t].owned)}
               gone == {t \in TaskId : t = d \/ scheduled[t].state = "gone"}
    <3>1. CASE Withdraw(ts, Forget(trace, {t \in ts : Eligible(t)}))
      <4>1. ts \in SUBSET TaskId /\ Forget(trace, {t \in ts : Eligible(t)}) \in History
        BY <1>0, ForgetType
      <4> QED
        BY <3>1, <4>1, WithdrawTypes
    <3>2. CASE trace' = Forget(trace, gone) /\ UNCHANGED <<routes, googleVars, copies>>
      BY <1>0, <3>2, ForgetType DEF GoogleTypes, HistoryTypes, googleVars
    <3> QED
      BY <1>2, <3>1, <3>2 DEF RunDelete
  <2> QED
    BY <1>2, <2>1, <2>2 DEF RunDelete, TaskTypes, QueueTypes, RunTypes, Removing, Sending, userVars
<1>3. ASSUME NEW p \in Pass, ClaimPass(p) PROVE Types'
  <2>1. HistoryTypes'
    <3>1. [trace EXCEPT !.covers[p] = TaskId] \in History
      BY <1>0 DEF History
    <3> QED
      BY <1>3, <3>1 DEF ClaimPass, HistoryTypes
  <2>2. RunTypes'
    <3>1. passes[p] \in Position /\ passes[p].at \in At /\ passes[p].last \in TaskId \cup {0}
      BY DEF QueueTypes, Position
    <3>2. [NoBatch EXCEPT !.phase = "claimed", !.pass = p, !.at = passes[p].at,
                          !.last = passes[p].last] \in Run
      BY <3>1, NoBatchType DEF Run, Phase
    <3>3. batch'.done = {}
      BY <1>3 DEF ClaimPass, NoBatch
    <3> QED
      BY <1>3, <3>2, <3>3 DEF ClaimPass, RunTypes, Removing, Sending
  <2> QED
    BY <1>3, <2>1, <2>2 DEF ClaimPass, TaskTypes, GoogleTypes, QueueTypes, userVars, googleVars
<1> QED
  BY <1>1, <1>2, <1>3 DEF JobStep

(***************************************************************************)
(* The steps of a run.                                                     *)
(***************************************************************************)
LEMMA ReturnTypes ==
  ASSUME Types, NEW next \in Position, NEW h \in History, Return(next, h),
         UNCHANGED <<jobs, batchSize>>
  PROVE  QueueTypes' /\ HistoryTypes' /\ RunTypes'
<1> USE DEF Types
<1>1. passes' \in [Pass -> Position]
  BY RunFields DEF QueueTypes, Return
<1>2. trace' \in History
  BY DEF Return, History
<1> QED
  BY <1>1, <1>2, NoBatchType DEF Return, QueueTypes, HistoryTypes, RunTypes, Removing, Sending

LEMMA CommittedRun ==
  ASSUME RunTypes, batch' = Committed
  PROVE  /\ RunTypes' /\ batch'.phase = "committed"
         /\ batch'.pass = batch.pass /\ batch'.next = batch.next
         /\ batch'.todo = {} /\ batch'.fix = <<>>
<1>1. /\ NoBatch \in Run /\ NoBatch.done = {} /\ NoBatch.ops = {}
      /\ NoBatch.todo = {} /\ NoBatch.fix = <<>>
  BY NoBatchType DEF NoBatch
<1>2. batch.pass \in Pass /\ batch.next \in Position
  BY RunFields
<1>3. batch' = [NoBatch EXCEPT !.phase = "committed", !.pass = batch.pass, !.next = batch.next]
  BY DEF Committed
<1> HIDE DEF NoBatch
<1>4. /\ batch' \in Run /\ batch'.done = {} /\ batch'.ops = {}
      /\ batch'.phase = "committed" /\ batch'.pass = batch.pass /\ batch'.next = batch.next
      /\ batch'.todo = {} /\ batch'.fix = <<>>
  BY <1>1, <1>2, <1>3 DEF Run, Phase
<1> QED
  BY <1>4 DEF RunTypes, Removing, Sending

LEMMA CalendarSteps ==
  ASSUME Types, RecreateCalendars \/ CommitCalendars
  PROVE  Types'
<1> USE DEF Types
<1>1. CASE RecreateCalendars
  <2>1. PICK fix \in [Vanished -> Calendar] :
          /\ calendars' = [k \in Calendar |-> IF \E c \in Vanished : fix[c] = k
                                              THEN CHOOSE c \in Vanished : fix[c] = k
                                              ELSE calendars[k]]
          /\ batch' = [batch EXCEPT !.phase = IF Vanished = {} THEN "reading" ELSE "recreated",
                                    !.fix = fix]
    BY <1>1 DEF RecreateCalendars
  <2>2. Vanished \in SUBSET Category
    BY DEF Vanished
  <2>3. GoogleTypes'
    <3>1. \A k \in Calendar : (\E c \in Vanished : fix[c] = k) =>
            (CHOOSE c \in Vanished : fix[c] = k) \in Category
      BY <2>2
    <3> QED
      BY <1>1, <2>1, <3>1 DEF RecreateCalendars, GoogleTypes
  <2>4. RunTypes'
    <3>1. fix \in Fixes
      BY <2>1, <2>2 DEF Fixes
    <3>2. batch' \in Run
      BY <2>1, <3>1 DEF RunTypes, Removing, Sending, Run, Phase
    <3>3. batch'.done = {} /\ batch'.phase \in {"reading", "recreated"}
      BY <1>1, <2>1 DEF RecreateCalendars, RunTypes, Run
    <3> QED
      BY <3>2, <3>3 DEF RunTypes, Removing, Sending
  <2> QED
    BY <1>1, <2>3, <2>4 DEF RecreateCalendars, TaskTypes, QueueTypes, HistoryTypes, userVars
<1>2. CASE CommitCalendars
  <2>1. GoogleTypes'
    <3>1. \A c \in DOMAIN batch.fix : batch.fix[c] \in Calendar
      BY RunFields DEF Fixes
    <3> QED
      BY <1>2, <3>1 DEF CommitCalendars, GoogleTypes, googleVars
  <2>2. RunTypes'
    <3>1. <<>> \in Fixes
      BY NoBatchType DEF NoBatch, Run
    <3>2. batch' \in Run
      BY <1>2, <3>1 DEF CommitCalendars, RunTypes, Removing, Sending, Run, Phase
    <3>3. batch'.done = {} /\ batch'.phase = "reading"
      BY <1>2 DEF CommitCalendars, RunTypes, Run
    <3> QED
      BY <3>2, <3>3 DEF RunTypes, Removing, Sending
  <2> QED
    BY <1>2, <2>1, <2>2 DEF CommitCalendars, TaskTypes, QueueTypes, HistoryTypes, userVars
<1> QED
  BY <1>1, <1>2

\* What a run may read, and the rank of the last of it.
LEMMA MembersTypes ==
  ASSUME NEW due \in SUBSET TaskId, NEW rank \in [TaskId -> TaskId \cup {0}],
         NEW members \in FirstOf(due, rank), NEW last \in LastOf(members, rank)
  PROVE  /\ members \subseteq due /\ last \in TaskId \cup {0}
         /\ \A t \in due \ members : rank[t] > last
         /\ \A t \in members : rank[t] <= last
<1>1. members \subseteq due /\ \A s \in members, t \in due \ members : rank[s] < rank[t]
  BY DEF FirstOf
<1>2. PICK r \in members : last = rank[r] /\ \A t \in members : rank[t] <= rank[r]
  BY DEF LastOf
<1>3. \A t \in TaskId : rank[t] \in Nat
  BY DEF TaskId
<1> QED
  BY <1>1, <1>2, <1>3

LEMMA AskedToRemove ==
  ASSUME Types, NEW ts \in SUBSET TaskId, \A t \in ts : Copied(t)
  PROVE  {[task |-> t, key |-> IF copies[t].owned THEN t ELSE Orphans,
           calendar |-> copies[t].calendar] : t \in ts} \subseteq Deletion
BY CopyFields DEF Types, Copied, Deletion

LEMMA RemovalSteps ==
  ASSUME Types, Deletions, ReadMirrors \/ SendDeletes \/ CommitDeletes
  PROVE  Types'
<1> USE DEF Types
<1>1. CASE ReadMirrors
  <2> DEFINE due == AfterId(batch.last)
             ids == [t \in TaskId |-> copies[t].id]
             managed(t) == Active = {} \/ copies[t].calendar \in Active
  <2>1. due \in SUBSET TaskId /\ ids \in [TaskId -> TaskId \cup {0}]
    BY CopyFields DEF AfterId
  <2>2. CASE batch' = [batch EXCEPT !.at = "upsert", !.last = 0]
    BY <1>1, <2>2 DEF ReadMirrors, TaskTypes, GoogleTypes, QueueTypes, HistoryTypes, RunTypes,
       Removing, Sending,
                      Run, At, userVars, googleVars
  <2>3. CASE \E members \in FirstOf(due, ids) : \E last \in LastOf(members, ids) :
             batch' = [batch EXCEPT !.phase = "removing",
               !.ops = {[task |-> t, key |-> IF copies[t].owned THEN t ELSE Orphans,
                         calendar |-> copies[t].calendar] : t \in {r \in members : managed(r)}},
               !.tidy = {t \in members : ~managed(t)},
               !.next = IF members # due
                        THEN [open |-> TRUE, at |-> "delete", last |-> last]
                        ELSE [open |-> TRUE, at |-> "upsert", last |-> 0]]
    <3>a. PICK members \in FirstOf(due, ids) : \E last \in LastOf(members, ids) :
             batch' = [batch EXCEPT !.phase = "removing",
               !.ops = {[task |-> t, key |-> IF copies[t].owned THEN t ELSE Orphans,
                         calendar |-> copies[t].calendar] : t \in {r \in members : managed(r)}},
               !.tidy = {t \in members : ~managed(t)},
               !.next = IF members # due
                        THEN [open |-> TRUE, at |-> "delete", last |-> last]
                        ELSE [open |-> TRUE, at |-> "upsert", last |-> 0]]
      BY <2>3
    <3> DEFINE ops == {[task |-> t, key |-> IF copies[t].owned THEN t ELSE Orphans,
                        calendar |-> copies[t].calendar] : t \in {r \in members : managed(r)}}
               tidy == {t \in members : ~managed(t)}
               next(last) == IF members # due
                             THEN [open |-> TRUE, at |-> "delete", last |-> last]
                             ELSE [open |-> TRUE, at |-> "upsert", last |-> 0]
    <3>1. PICK last \in LastOf(members, ids) :
            batch' = [batch EXCEPT !.phase = "removing", !.ops = ops, !.tidy = tidy,
                                   !.next = next(last)]
      BY <3>a
    <3>2. members \subseteq due /\ last \in TaskId \cup {0}
      <4> HIDE DEF due, ids
      <4> QED
        BY <2>1, <3>1, MembersTypes
    <3>3. ops \subseteq Deletion
      <4>1. {r \in members : managed(r)} \in SUBSET TaskId
        BY <2>1, <3>2
      <4>2. \A t \in {r \in members : managed(r)} : Copied(t)
        BY <3>2 DEF AfterId
      <4> QED
        BY <4>1, <4>2, AskedToRemove
    <3>4. next(last) \in Position /\ tidy \subseteq TaskId
      BY <2>1, <3>2 DEF Position, At
    <3> HIDE DEF ops, next, tidy
    <3>5. batch' \in Run
      BY <3>1, <3>3, <3>4 DEF RunTypes, Run, Phase, Operation
    <3>6. batch'.done = {} /\ batch'.ops = ops /\ batch'.phase = "removing"
      BY <1>1, <3>1 DEF ReadMirrors, RunTypes, Run
    <3>7. RunTypes'
      BY <3>3, <3>5, <3>6 DEF RunTypes, Removing, Sending
    <3> QED
      BY <1>1, <3>7 DEF ReadMirrors, TaskTypes, GoogleTypes, QueueTypes, HistoryTypes,
                        userVars, googleVars
  <2> QED
    BY <1>1, <2>2, <2>3 DEF ReadMirrors
<1>2. CASE SendDeletes
  <2>1. PICK done \in SUBSET batch.ops :
       /\ events' = [t \in TaskId |-> [k \in Calendar |->
            IF \E o \in done : o.task = t /\ o.calendar = k THEN NoEvent ELSE events[t][k]]]
       /\ trace' = [trace EXCEPT !.loose = @ \ {<<o.task, o.calendar>> : o \in done}]
       /\ batch' = [batch EXCEPT !.phase = "removed", !.done = done]
    BY <1>2 DEF SendDeletes
  <2>2. GoogleTypes'
    <3>1. events' \in [TaskId -> [Calendar -> 0..3]]
      BY <2>1 DEF GoogleTypes, NoEvent
    <3> QED
      BY <1>2, <3>1 DEF SendDeletes, GoogleTypes
  <2>3. HistoryTypes'
    BY <2>1 DEF HistoryTypes, History
  <2>4. RunTypes'
    <3>1. done \in SUBSET Operation
      BY <2>1, RunFields
    <3>2. batch' \in Run
      BY <2>1, <3>1 DEF RunTypes, Removing, Sending, Run, Phase
    <3>3. /\ batch'.done = done /\ batch'.ops = batch.ops /\ batch'.phase = "removed"
          /\ batch.phase = "removing"
      BY <1>2, <2>1 DEF SendDeletes, RunTypes, Run
    <3> QED
      BY <3>2, <3>3 DEF RunTypes, Removing, Sending
  <2> QED
    BY <1>2, <2>2, <2>3, <2>4 DEF SendDeletes, TaskTypes, QueueTypes, userVars
<1>3. CASE CommitDeletes
  <2>1. GoogleTypes'
    BY <1>3, PlainTypes DEF CommitDeletes, GoogleTypes, googleVars
  <2>2. jobs' \in Jobs
    <3>1. \A o \in batch.ops : o.key \in TaskId \cup {Orphans}
      BY <1>3 DEF CommitDeletes, RunTypes, Removing, Deletion
    <3> QED
      BY <1>3, <3>1 DEF CommitDeletes, QueueTypes, Jobs, Undone
  <2>3. HistoryTypes'
    <3> DEFINE left == {<<t, copies[t].calendar>> : t \in {r \in batch.tidy :
                                       events[r][copies[r].calendar] # NoEvent}}
    <3>1. \A t \in batch.tidy : t \in TaskId /\ Copied(t)
      BY <1>3, RunFields DEF CommitDeletes, Deletions, Removing
    <3>2. left \in SUBSET (TaskId \X Calendar)
      BY <3>1, CopyFields DEF Copied
    <3>3. trace' = [trace EXCEPT !.loose = trace.loose \cup left]
      BY <1>3 DEF CommitDeletes
    <3>4. trace.loose \cup left \in SUBSET (TaskId \X Calendar)
      BY <3>2, HistoryFields
    <3> HIDE DEF left
    <3> QED
      BY <3>3, <3>4 DEF HistoryTypes, History
  <2>4. RunTypes'
    <3>1. CASE batch.next.at = "upsert"
      <4>1. batch' = [NoBatch EXCEPT !.phase = "reading", !.pass = batch.pass,
                                     !.at = "upsert"]
        BY <1>3, <3>1 DEF CommitDeletes
      <4>2. batch' \in Run
        BY <4>1, NoBatchType, RunFields DEF Run, Phase, At
      <4>3. batch'.done = {} /\ batch'.ops = {}
        BY <4>1, NoBatchType DEF NoBatch
      <4> QED
        BY <4>1, <4>2, <4>3 DEF RunTypes
    <3>2. CASE batch.next.at # "upsert"
      BY <1>3, <3>2, CommittedRun DEF CommitDeletes
    <3> QED
      BY <3>1, <3>2
  <2> QED
    BY <1>3, <2>1, <2>2, <2>3, <2>4 DEF CommitDeletes, TaskTypes, QueueTypes, userVars
<1> QED
  BY <1>1, <1>2, <1>3

LEMMA ReadTypes ==
  ASSUME Types, ReadTasks \/ NoTasksLeft
  PROVE  Types'
<1> USE DEF Types
<1>1. CASE ReadTasks
  <2> DEFINE ids == [t \in TaskId |-> t]
  <2>1. DueTasks \in SUBSET TaskId /\ ids \in [TaskId -> TaskId \cup {0}]
    BY DEF DueTasks
  <2>2. PICK members \in FirstOf(DueTasks, ids) : \E last \in LastOf(members, ids) :
          batch' = [NoBatch EXCEPT !.phase = "routing", !.pass = batch.pass, !.at = "upsert",
            !.last = batch.last, !.todo = members, !.members = members,
            !.seen = [t \in members |->
              [category |-> scheduled[t].category, payload |-> scheduled[t].payload]],
            !.next = IF members # DueTasks
                     THEN [open |-> TRUE, at |-> "upsert", last |-> last] ELSE Closed]
    BY <1>1 DEF ReadTasks
  <2> DEFINE seen == [t \in members |->
              [category |-> scheduled[t].category, payload |-> scheduled[t].payload]]
             next(last) == IF members # DueTasks
                     THEN [open |-> TRUE, at |-> "upsert", last |-> last] ELSE Closed
  <2>3. PICK last \in LastOf(members, ids) :
          batch' = [NoBatch EXCEPT !.phase = "routing", !.pass = batch.pass, !.at = "upsert",
            !.last = batch.last, !.todo = members, !.members = members, !.seen = seen,
            !.next = next(last)]
    BY <2>2
  <2>4. members \subseteq TaskId /\ last \in TaskId \cup {0}
    <3> HIDE DEF ids
    <3> QED
      BY <2>1, <2>3, MembersTypes
  <2>5. seen \in SeenTasks
    <3>1. seen \in [members -> Reading]
      BY <2>4, EntryFields DEF Reading
    <3> QED
      BY <2>4, <3>1 DEF SeenTasks
  <2>6. next(last) \in Position
    BY <2>4, PlainTypes DEF Position, At
  <2> HIDE DEF seen, next, ids
  <2>7. batch' \in Run
    BY <2>3, <2>4, <2>5, <2>6, NoBatchType, RunFields DEF Run, Phase, At
  <2>8. batch'.done = {} /\ batch'.ops = {}
    BY <2>3, NoBatchType DEF NoBatch
  <2>9. RunTypes'
    BY <2>7, <2>8 DEF RunTypes
  <2> QED
    BY <1>1, <2>9 DEF ReadTasks, TaskTypes, GoogleTypes, QueueTypes, HistoryTypes,
                      userVars, googleVars
<1>2. CASE NoTasksLeft
  <2>1. trace \in History
    BY DEF HistoryTypes
  <2>2. QueueTypes' /\ HistoryTypes' /\ RunTypes'
    BY <1>2, <2>1, ReturnTypes, PlainTypes DEF NoTasksLeft
  <2> QED
    BY <1>2, <2>2 DEF NoTasksLeft, TaskTypes, GoogleTypes, userVars, googleVars
<1> QED
  BY <1>1, <1>2

\* What a run knows of a task when it takes it from its list.
KnownRow(t) == IF batch.expired THEN scheduled[t] ELSE batch.seen[t]

LEMMA KnownType ==
  ASSUME Types, Requests, batch.phase = "routing", NEW t \in batch.todo
  PROVE  /\ t \in TaskId /\ KnownRow(t).category \in Category \cup {NoCategory}
         /\ KnownRow(t).payload \in {1, 2}
<1>1. t \in TaskId
  BY RunFields DEF Types
<1>2. CASE batch.expired
  BY <1>1, <1>2, EntryFields DEF KnownRow, Types
<1>3. CASE ~batch.expired
  <2>1. t \in DOMAIN batch.seen
    BY <1>3 DEF Requests, Sending
  <2>2. batch.seen[t] \in Reading
    BY <2>1, RunFields DEF Types, SeenTasks
  <2> QED
    BY <1>1, <1>3, <2>2 DEF KnownRow, Reading
<1> QED
  BY <1>2, <1>3

LEMMA AskedType ==
  ASSUME GoogleTypes, NEW t \in TaskId, NEW k \in Calendar, NEW payload \in {1, 2}
  PROVE  Asked(t, k, payload) \in Request
BY CopyFields DEF Asked, Request

(***************************************************************************)
(* A task is taken from the list: it is asked for, or left alone.          *)
(***************************************************************************)
AskFor(t, k) ==
  LET c == KnownRow(t).category
      created == routes[c] = 0
      payload == IF created THEN scheduled[t].payload ELSE KnownRow(t).payload
      routed == [batch EXCEPT !.todo = @ \ {t}]
  IN /\ k \in Routed(c) /\ c \in Category /\ categories[c] = "synced"
     /\ routes' = [routes EXCEPT ![c] = k]
     /\ calendars' = IF created THEN [calendars EXCEPT ![k] = c] ELSE calendars
     /\ batch' = [routed EXCEPT !.ops = @ \cup {Asked(t, k, payload)},
                    !.phase = IF created /\ scheduled[t].state = "gone"
                              THEN "broken" ELSE @,
                    !.expired = @ \/ created,
                    !.locked = IF created THEN {} ELSE @ \cup {c}]

LeaveOut(t) ==
  /\ KnownRow(t).category = NoCategory \/ categories[KnownRow(t).category] # "synced"
  /\ \E locked \in SUBSET Category :
       batch' = [batch EXCEPT !.todo = @ \ {t}, !.locked = locked]
  /\ UNCHANGED <<routes, calendars>>

LEMMA RouteCases ==
  ASSUME Types, Requests, RouteTask
  PROVE  /\ batch.phase = "routing"
         /\ \E t \in Foremost : /\ Readable(t)
                                /\ LeaveOut(t) \/ \E k \in Calendar : AskFor(t, k)
<1> USE DEF Types
<1>1. batch.phase = "routing"
  BY DEF RouteTask
<1>2. PICK t \in Foremost : 
       LET row == KnownRow(t)
           c == row.category
           routed == [batch EXCEPT !.todo = @ \ {t}]
       IN /\ Readable(t)
          /\ IF c # NoCategory /\ categories[c] = "synced"
             THEN \E k \in Routed(c) :
                    LET created == routes[c] = 0
                        payload == IF created THEN scheduled[t].payload ELSE row.payload
                    IN /\ routes' = [routes EXCEPT ![c] = k]
                       /\ calendars' = IF created THEN [calendars EXCEPT ![k] = c]
                                       ELSE calendars
                       /\ batch' = [routed EXCEPT !.ops = @ \cup {Asked(t, k, payload)},
                                      !.phase = IF created /\ scheduled[t].state = "gone"
                                                THEN "broken" ELSE @,
                                      !.expired = @ \/ created,
                                      !.locked = IF created THEN {} ELSE @ \cup {c}]
             ELSE /\ batch' = IF c # NoCategory /\ categories[c] = "local"
                              THEN [routed EXCEPT !.locked = @ \cup {c}] ELSE routed
                  /\ UNCHANGED <<routes, calendars>>
  BY DEF RouteTask, KnownRow
<1> DEFINE c == KnownRow(t).category
<1>3. t \in batch.todo /\ c \in Category \cup {NoCategory}
  BY <1>1, KnownType DEF Foremost
<1>4. CASE c # NoCategory /\ categories[c] = "synced"
  <2>1. c \in Category /\ Routed(c) \subseteq Calendar
    BY <1>3, <1>4, RoutedType
  <2>2. PICK k \in Routed(c) : AskFor(t, k)
    BY <1>2, <1>4, <2>1 DEF AskFor
  <2> QED
    BY <1>1, <1>2, <2>1, <2>2
<1>5. CASE ~(c # NoCategory /\ categories[c] = "synced")
  <2> DEFINE routed == [batch EXCEPT !.todo = @ \ {t}]
  <2>1. /\ batch' = IF c # NoCategory /\ categories[c] = "local"
                    THEN [routed EXCEPT !.locked = @ \cup {c}] ELSE routed
        /\ UNCHANGED <<routes, calendars>>
    BY <1>2, <1>5
  <2>2. \E locked \in SUBSET Category :
          batch' = [batch EXCEPT !.todo = @ \ {t}, !.locked = locked]
    <3>1. CASE c # NoCategory /\ categories[c] = "local"
      <4>1. batch.locked \cup {c} \in SUBSET Category
        BY <1>3, <3>1, RunFields
      <4>2. batch' = [batch EXCEPT !.todo = @ \ {t}, !.locked = batch.locked \cup {c}]
        BY <2>1, <3>1 DEF RunTypes, Run
      <4> QED
        BY <4>1, <4>2
    <3>2. CASE ~(c # NoCategory /\ categories[c] = "local")
      <4>1. batch' = [batch EXCEPT !.todo = @ \ {t}, !.locked = batch.locked]
        BY <2>1, <3>2 DEF RunTypes, Run
      <4> QED
        BY <4>1, RunFields
    <3> QED
      BY <3>1, <3>2
  <2>3. LeaveOut(t)
    BY <1>5, <2>1, <2>2 DEF LeaveOut
  <2> QED
    BY <1>1, <1>2, <2>3
<1> QED
  BY <1>4, <1>5

LEMMA RouteTypes ==
  ASSUME Types, Requests, RouteTask
  PROVE  Types'
<1> USE DEF Types
<1>1. PICK t \in Foremost : LeaveOut(t) \/ \E k \in Calendar : AskFor(t, k)
  BY RouteCases
<1>2. /\ batch.phase = "routing" /\ batch.done = {} /\ t \in batch.todo
      /\ t \in TaskId /\ KnownRow(t).payload \in {1, 2}
      /\ batch.ops \subseteq Request
  BY KnownType, RouteCases DEF Foremost, RunTypes, Sending
<1>3. GoogleTypes' /\ RunTypes'
  <2>1. CASE LeaveOut(t)
    <3>1. PICK locked \in SUBSET Category :
            batch' = [batch EXCEPT !.todo = @ \ {t}, !.locked = locked]
      BY <2>1 DEF LeaveOut
    <3>2. batch' \in Run
      BY <3>1 DEF RunTypes, Run
    <3>3. batch'.done = {} /\ batch'.ops = batch.ops /\ batch'.phase = "routing"
      BY <1>2, <3>1 DEF RunTypes, Run
    <3>4. RunTypes'
      BY <1>2, <3>2, <3>3 DEF RunTypes, Removing, Sending
    <3> QED
      BY <2>1, <3>4 DEF LeaveOut, GoogleTypes, RouteTask
  <2>2. ASSUME NEW k \in Calendar, AskFor(t, k)
        PROVE  GoogleTypes' /\ RunTypes'
    <3> DEFINE c == KnownRow(t).category
               created == routes[c] = 0
               payload == IF created THEN scheduled[t].payload ELSE KnownRow(t).payload
               request == Asked(t, k, payload)
    <3>1. request \in Request
      <4>1. payload \in {1, 2}
        BY <1>2, EntryFields
      <4> HIDE DEF payload
      <4> QED
        BY <1>2, <4>1, AskedType
    <3>2. PICK phase \in {"routing", "broken"}, expired \in BOOLEAN, locked \in SUBSET Category :
            batch' = [[batch EXCEPT !.todo = @ \ {t}] EXCEPT
                        !.ops = @ \cup {request},
                        !.phase = phase, !.expired = expired, !.locked = locked]
      <4>1. c \in Category /\ batch.locked \cup {c} \in SUBSET Category
        BY <2>2, RunFields DEF AskFor
      <4> HIDE DEF request, c
      <4> QED
        BY <1>2, <2>2, <4>1 DEF AskFor, RunTypes, Run, request, payload, c
    <3> HIDE DEF request
    <3>3. batch' \in Run
      BY <3>1, <3>2 DEF RunTypes, Run, Phase, Operation
    <3>4. batch'.done = {} /\ batch'.ops = batch.ops \cup {request}
          /\ batch'.phase \in {"routing", "broken"}
      BY <1>2, <3>2 DEF RunTypes, Run
    <3>5. RunTypes'
      BY <1>2, <3>1, <3>3, <3>4 DEF RunTypes, Removing, Sending
    <3> QED
      BY <2>2, <3>5 DEF AskFor, GoogleTypes, RouteTask
  <2> QED
    BY <1>1, <2>1, <2>2
<1> QED
  BY <1>3 DEF RouteTask, TaskTypes, QueueTypes, HistoryTypes, userVars

LEMMA SplitTypes ==
  ASSUME Types, SplitBatch \/ RefuseBatch
  PROVE  Types'
<1> USE DEF Types
<1>1. batch' = OneByOne
  BY DEF SplitBatch, RefuseBatch
<1>2. OneByOne \in Run
  <2>1. <<>> \in SeenTasks
    BY NoBatchType DEF NoBatch, Run
  <2> QED
    BY <2>1, RunFields DEF RunTypes, Run, OneByOne, Phase
<1>3. batch'.done = {} /\ batch'.ops = {}
  <2>1. batch.done = {}
    BY DEF SplitBatch, RefuseBatch, RunTypes
  <2> QED
    BY <1>1, <2>1 DEF OneByOne, RunTypes, Run
<1>4. RunTypes'
  BY <1>1, <1>2, <1>3 DEF RunTypes
<1> QED
  BY <1>4 DEF SplitBatch, RefuseBatch, TaskTypes, GoogleTypes, QueueTypes, HistoryTypes,
              userVars, googleVars

LEMMA SendTypes ==
  ASSUME Types, SendBatch
  PROVE  Types'
<1> USE DEF Types
<1>1. PICK done \in SUBSET {o \in batch.ops : Answerable(o)} :
       LET sent == {o \in done : o.kind # "verify"}
           shows == {<<o.task, o.calendar>> : o \in sent}
       IN /\ events' = [t \in TaskId |-> [k \in Calendar |->
               IF <<t, k>> \in shows
               THEN (CHOOSE o \in sent : o.task = t).payload ELSE events[t][k]]]
          /\ batch' = [batch EXCEPT !.phase = "answered", !.done = done, !.seen = <<>>,
                         !.expired = FALSE,
                         !.tidy = {o.task : o \in {p \in sent :
                                     p.old \notin {0, p.calendar}}}]
          /\ trace' = [trace EXCEPT !.loose = @ \cup shows]
  BY DEF SendBatch
<1> DEFINE sent == {o \in done : o.kind # "verify"}
           shows == {<<o.task, o.calendar>> : o \in sent}
           tidy == {o.task : o \in {p \in sent : p.old \notin {0, p.calendar}}}
<1>2. batch.ops \subseteq Request /\ batch.phase = "routing" /\ done \subseteq batch.ops
  BY DEF SendBatch, RunTypes, Sending
<1>3. \A o \in sent : o \in Request
  BY <1>2
<1>4. GoogleTypes'
  <2>1. \A t \in TaskId, k \in Calendar : <<t, k>> \in shows =>
          (CHOOSE o \in sent : o.task = t).payload \in 0..3
    <3> SUFFICES ASSUME NEW t \in TaskId, NEW k \in Calendar, <<t, k>> \in shows
                 PROVE  (CHOOSE o \in sent : o.task = t).payload \in 0..3
      OBVIOUS
    <3>1. \E o \in sent : o.task = t
      OBVIOUS
    <3>2. (CHOOSE o \in sent : o.task = t) \in sent
      <4> HIDE DEF sent
      <4> QED
        BY <3>1
    <3> QED
      BY <1>3, <3>2 DEF Request
  <2>2. events' \in [TaskId -> [Calendar -> 0..3]]
    <3> HIDE DEF shows, sent
    <3>1. events' = [t \in TaskId |-> [k \in Calendar |->
               IF <<t, k>> \in shows
               THEN (CHOOSE o \in sent : o.task = t).payload ELSE events[t][k]]]
      BY <1>1 DEF shows, sent
    <3> QED
      BY <2>1, <3>1 DEF GoogleTypes
  <2> QED
    BY <2>2 DEF SendBatch, GoogleTypes
<1>5. HistoryTypes'
  <2>1. shows \in SUBSET (TaskId \X Calendar)
    BY <1>3 DEF Request
  <2>2. trace' = [trace EXCEPT !.loose = trace.loose \cup shows]
    BY <1>1
  <2>3. trace.loose \cup shows \in SUBSET (TaskId \X Calendar)
    BY <2>1, HistoryFields
  <2> HIDE DEF shows
  <2> QED
    BY <2>2, <2>3 DEF HistoryTypes, History
<1>6. RunTypes'
  <2>1. tidy \in SUBSET TaskId
    BY <1>3 DEF Request
  <2>2. <<>> \in SeenTasks
    BY NoBatchType DEF NoBatch, Run
  <2>3. done \in SUBSET Operation
    BY <1>2 DEF Operation
  <2>4. batch' = [batch EXCEPT !.phase = "answered", !.done = done, !.seen = <<>>,
                               !.expired = FALSE, !.tidy = tidy]
    BY <1>1
  <2> HIDE DEF tidy, sent
  <2>5. batch' \in Run
    BY <2>1, <2>2, <2>3, <2>4 DEF RunTypes, Run, Phase
  <2>6. batch'.done = done /\ batch'.ops = batch.ops /\ batch'.phase = "answered"
    BY <2>4 DEF RunTypes, Run
  <2> QED
    BY <1>2, <2>5, <2>6 DEF RunTypes, Removing, Sending
<1> QED
  BY <1>4, <1>5, <1>6 DEF SendBatch, TaskTypes, QueueTypes, userVars

LEMMA TidyTypes ==
  ASSUME Types, TidyOne
  PROVE  Types'
<1> USE DEF Types
<1>1. PICK t \in batch.tidy :
       /\ events' = Drop(events, t, copies[t].calendar)
       /\ trace' = [trace EXCEPT !.loose = @ \ {<<t, copies[t].calendar>>}]
       /\ batch' = [batch EXCEPT !.tidy = @ \ {t}]
  BY DEF TidyOne
<1>2. t \in TaskId
  BY RunFields
<1>3. GoogleTypes'
  <2>1. events' \in [TaskId -> [Calendar -> 0..3]]
    BY <1>1, <1>2, DropType, CopyFields DEF GoogleTypes
  <2> QED
    BY <2>1 DEF TidyOne, GoogleTypes
<1>4. HistoryTypes'
  BY <1>1 DEF HistoryTypes, History
<1>5. RunTypes'
  <2>1. batch' \in Run
    BY <1>1 DEF RunTypes, Run
  <2>2. batch'.done = batch.done /\ batch'.ops = batch.ops /\ batch'.phase = batch.phase
    BY <1>1 DEF RunTypes, Run
  <2> QED
    BY <2>1, <2>2 DEF RunTypes, Removing, Sending
<1> QED
  BY <1>3, <1>4, <1>5 DEF TidyOne, TaskTypes, QueueTypes, userVars

(***************************************************************************)
(* What a batch commits, task by task: what it has sent is recorded.       *)
(***************************************************************************)
Delivered == {o \in batch.done : o.kind # "verify"}
Made(t) == CHOOSE o \in Delivered : o.task = t
Written == {o.task : o \in Delivered}

LEMMA MadeFacts ==
  ASSUME Types, batch.phase = "answered", NEW t \in Written
  PROVE  /\ Made(t) \in Delivered /\ Made(t) \in batch.ops /\ Made(t) \in Request
         /\ Made(t).task = t /\ t \in TaskId
<1>1. \E o \in Delivered : o.task = t
  BY DEF Written
<1>2. Made(t) \in Delivered /\ Made(t).task = t
  BY <1>1 DEF Made
<1>3. Delivered \subseteq batch.ops /\ batch.ops \subseteq Request
  BY DEF Delivered, Types, RunTypes, Sending
<1> QED
  BY <1>2, <1>3 DEF Request

LEMMA CommitFacts ==
  ASSUME Types, CommitBatch
  PROVE  \E id \in [{t \in Written : ~Copied(t)} -> FreeId] :
           /\ IsInjective(id)
           /\ copies' = [t \in TaskId |->
                IF t \notin Written THEN copies[t]
                ELSE IF Copied(t)
                THEN [copies[t] EXCEPT !.calendar = Made(t).calendar, !.payload = Made(t).payload]
                ELSE [calendar |-> Made(t).calendar, payload |-> Made(t).payload,
                      owned |-> TRUE, id |-> id[t]]]
<1> USE DEF Delivered, Made, Written
<1> DEFINE new == {t \in Written : ~Copied(t)}
<1>1. PICK id \in [new -> FreeId] :
        /\ IsInjective(id)
        /\ copies' = [t \in TaskId |->
               IF t \in new
               THEN [calendar |-> Made(t).calendar, payload |-> Made(t).payload,
                     owned |-> TRUE, id |-> id[t]]
               ELSE IF t \in Written
               THEN [copies[t] EXCEPT !.calendar = Made(t).calendar,
                                      !.payload = Made(t).payload]
               ELSE copies[t]]
  BY DEF CommitBatch
<1> HIDE DEF Delivered, Made, Written
<1>2. copies' = [t \in TaskId |->
                IF t \notin Written THEN copies[t]
                ELSE IF Copied(t)
                THEN [copies[t] EXCEPT !.calendar = Made(t).calendar, !.payload = Made(t).payload]
                ELSE [calendar |-> Made(t).calendar, payload |-> Made(t).payload,
                      owned |-> TRUE, id |-> id[t]]]
  BY <1>1
<1> QED
  BY <1>1, <1>2

LEMMA CommitTypes ==
  ASSUME Types, CommitBatch
  PROVE  Types'
<1> USE DEF Types
<1>0. batch.phase = "answered"
  BY DEF CommitBatch
<1>1. GoogleTypes'
  <2>1. PICK id \in [{t \in Written : ~Copied(t)} -> FreeId] :
           copies' = [t \in TaskId |->
                IF t \notin Written THEN copies[t]
                ELSE IF Copied(t)
                THEN [copies[t] EXCEPT !.calendar = Made(t).calendar, !.payload = Made(t).payload]
                ELSE [calendar |-> Made(t).calendar, payload |-> Made(t).payload,
                      owned |-> TRUE, id |-> id[t]]]
    BY CommitFacts
  <2>2. ASSUME NEW t \in TaskId PROVE copies'[t] \in Copy
    <3>1. CASE t \notin Written
      BY <2>1, <3>1, CopyFields
    <3>2. CASE t \in Written
      <4>1. Made(t).calendar \in Calendar \cup {0} /\ Made(t).payload \in 0..2
        BY <1>0, <3>2, MadeFacts DEF Request
      <4>2. CASE Copied(t)
        BY <2>1, <3>2, <4>1, <4>2, CopyFields DEF Copy
      <4>3. CASE ~Copied(t)
        <5>1. id[t] \in TaskId
          BY <2>1, <3>2, <4>3 DEF FreeId
        <5> QED
          BY <2>1, <3>2, <4>1, <4>3, <5>1 DEF Copy
      <4> QED
        BY <4>2, <4>3
    <3> QED
      BY <3>1, <3>2
  <2>3. copies' \in [TaskId -> Copy]
    BY <2>1, <2>2
  <2> QED
    BY <2>3 DEF CommitBatch, GoogleTypes, googleVars
<1>2. jobs' \in Jobs
  <2>1. {o.task : o \in Undone} \subseteq TaskId
    BY <1>0 DEF Undone, RunTypes, Sending, Request
  <2> QED
    BY <2>1 DEF CommitBatch, QueueTypes, Jobs
<1>3. HistoryTypes'
  <2> DEFINE landed == {<<o.task, o.calendar>> : o \in
             {p \in {o \in batch.done : o.kind # "verify"} :
                events[p.task][p.calendar] = p.payload}}
  <2>1. trace' = [trace EXCEPT !.loose = trace.loose \ landed]
    BY DEF CommitBatch
  <2>2. trace.loose \ landed \in SUBSET (TaskId \X Calendar)
    BY HistoryFields
  <2> HIDE DEF landed
  <2> QED
    BY <2>1, <2>2 DEF HistoryTypes, History
<1>4. RunTypes'
  BY CommittedRun DEF CommitBatch
<1> QED
  BY <1>1, <1>2, <1>3, <1>4 DEF CommitBatch, TaskTypes, QueueTypes, userVars

LEMMA SingleTypes ==
  ASSUME Types, SyncSingle \/ FinishBatch
  PROVE  Types'
<1> USE DEF Types
<1>1. CASE SyncSingle
  <2>1. PICK t \in Foremost : SyncOne(t) /\ batch' = [batch EXCEPT !.todo = @ \ {t}]
    BY <1>1 DEF SyncSingle
  <2>2. t \in TaskId
    BY RunFields DEF Foremost
  <2>3. GoogleTypes' /\ HistoryTypes'
    BY <2>1, <2>2, SyncOneTypes
  <2>4. RunTypes'
    <3>1. batch' \in Run
      BY <2>1 DEF RunTypes, Run
    <3>2. batch'.done = batch.done /\ batch'.ops = batch.ops /\ batch'.phase = "single"
      BY <1>1, <2>1 DEF SyncSingle, RunTypes, Run
    <3> QED
      BY <1>1, <3>1, <3>2 DEF SyncSingle, RunTypes, Removing, Sending
  <2> QED
    BY <1>1, <2>3, <2>4 DEF SyncSingle, TaskTypes, QueueTypes, userVars
<1>2. CASE FinishBatch
  <2>1. trace \in History
    BY DEF HistoryTypes
  <2>2. QueueTypes' /\ HistoryTypes' /\ RunTypes'
    BY <1>2, <2>1, ReturnTypes, RunFields DEF FinishBatch
  <2> QED
    BY <1>2, <2>2 DEF FinishBatch, TaskTypes, GoogleTypes, userVars, googleVars
<1> QED
  BY <1>1, <1>2

LEMMA EndTypes ==
  ASSUME Types, RetryBatch \/ PassDies
  PROVE  Types'
<1> USE DEF Types
<1>1. RunTypes'
  BY NoBatchType DEF RetryBatch, PassDies, RunTypes
<1>2. CASE RetryBatch
  BY <1>1, <1>2 DEF RetryBatch, TaskTypes, GoogleTypes, QueueTypes, HistoryTypes,
                    userVars, googleVars
<1>3. CASE PassDies
  <2>1. QueueTypes' /\ HistoryTypes'
    BY <1>3, PlainTypes, ForgetType DEF PassDies, QueueTypes, HistoryTypes
  <2> QED
    BY <1>1, <1>3, <2>1 DEF PassDies, TaskTypes, GoogleTypes, userVars, googleVars
<1> QED
  BY <1>2, <1>3

LEMMA StepTypes ==
  ASSUME Types, Deletions, Requests, [BatchNext]_batchVars
  PROVE  Types'
<1>1. CASE BatchStep
  BY <1>1, CalendarSteps, RemovalSteps, ReadTypes, RouteTypes, SplitTypes, SendTypes, TidyTypes,
     CommitTypes, SingleTypes, EndTypes DEF BatchStep
<1>2. CASE UNCHANGED batchVars
  BY <1>2 DEF Types, TaskTypes, GoogleTypes, QueueTypes, HistoryTypes, RunTypes, Removing,
              Sending, batchVars
<1> QED
  BY <1>1, <1>2, UserTypes, JobTypes DEF BatchNext
-----------------------------------------------------------------------------
(***************************************************************************)
(* What the user does leaves the run under way as it is, and what it has   *)
(* read of the mirrors.                                                    *)
(***************************************************************************)
MirrorsStay ==
  /\ \A t \in TaskId : /\ copies'[t].calendar = copies[t].calendar
                       /\ copies'[t].payload = copies[t].payload
                       /\ copies'[t].id = copies[t].id
  /\ \A t \in TaskId : Live(t)' => Live(t)
EventsFade ==
  \A t \in TaskId, k \in Calendar :
    /\ events[t][k] = NoEvent => events'[t][k] = NoEvent
    /\ <<t, k>> \in trace.loose => <<t, k>> \in trace'.loose \/ events'[t][k] = NoEvent

LEMMA DeletionFields ==
  ASSUME Types, Removing, NEW o \in batch.ops
  PROVE  o.task \in TaskId /\ o.calendar \in Calendar /\ o.key \in TaskId \cup {Orphans}
BY DEF Types, RunTypes, Deletion

LEMMA RequestFields ==
  ASSUME Types, Sending, NEW o \in batch.ops
  PROVE  /\ o \in Request /\ o.task \in TaskId /\ o.calendar \in Calendar
         /\ o.payload \in {1, 2} /\ o.old \in Calendar \cup {0}
         /\ o.kind \in {"create", "verify", "update"}
BY DEF Types, RunTypes, Request

LEMMA RunStays ==
  ASSUME Types, Deletions, Requests, MirrorsStay, EventsFade, UNCHANGED batch
  PROVE  Deletions' /\ Requests'
<1>1. Deletions'
  <2> SUFFICES ASSUME Removing
               PROVE  /\ \A o \in batch.ops :
                           /\ Copied(o.task)' /\ o.calendar = copies'[o.task].calendar
                           /\ o.key = o.task \/ (o.key = Orphans /\ ~Live(o.task)')
                      /\ \A t \in batch.tidy : Copied(t)'
                      /\ batch.phase = "removed" =>
                           \A o \in batch.done : events'[o.task][o.calendar] = NoEvent
    BY DEF Deletions, Removing
  <2>1. \A o \in batch.ops : o.task \in TaskId /\ o.calendar \in Calendar
    BY DeletionFields
  <2>2. batch.tidy \subseteq TaskId /\ batch.done \subseteq batch.ops
    BY RunFields DEF Types
  <2>3. \A t \in TaskId : (Copied(t)' <=> Copied(t)) /\ (~Live(t) => ~Live(t)')
    BY DEF MirrorsStay, Copied
  <2> QED
    BY <2>1, <2>2, <2>3 DEF MirrorsStay, EventsFade, Deletions
<1>2. Requests'
  <2>1. \A o \in batch.ops : Sending /\ RequestOK(o) => RequestOK(o)'
    <3> SUFFICES ASSUME NEW o \in batch.ops, Sending, RequestOK(o) PROVE RequestOK(o)'
      OBVIOUS
    <3>1. o.task \in TaskId
      BY RequestFields
    <3> QED
      BY <3>1 DEF RequestOK, MirrorsStay
  <2>2. \A o \in batch.done : (batch.phase = "answered" /\ AnswerOK(o)) => AnswerOK(o)'
    <3> SUFFICES ASSUME NEW o \in batch.done, batch.phase = "answered", AnswerOK(o)
                 PROVE  AnswerOK(o)'
      OBVIOUS
    <3>1. o.task \in TaskId /\ o.calendar \in Calendar /\ o.old \in Calendar \cup {0}
      BY RequestFields, RunFields DEF Sending, Types
    <3>2. Moved(o) => o.old \in Calendar
      BY <3>1 DEF Moved
    <3>3. Moved(o)' <=> Moved(o)
      BY DEF Moved
    <3> QED
      BY <3>1, <3>2, <3>3 DEF AnswerOK, EventsFade
  <2>3. \A o : (Sent(o)' <=> Sent(o)) /\ (Moved(o)' <=> Moved(o))
    BY DEF Sent, Moved
  <2>4. Sending' <=> Sending
    BY DEF Sending
  <2> QED
    BY <2>1, <2>2, <2>3, <2>4 DEF Requests
<1> QED
  BY <1>1, <1>2

(***************************************************************************)
(* A task that a step leaves alone is as well off as before.               *)
(***************************************************************************)
Alike(t) ==
  /\ Live(t)' <=> Live(t)
  /\ Eligible(t)' <=> Eligible(t)
  /\ Home(t)' = Home(t)
  /\ scheduled'[t].payload = scheduled[t].payload
  /\ scheduled'[t].category = scheduled[t].category
  /\ copies'[t].calendar = copies[t].calendar
  /\ copies'[t].payload = copies[t].payload
  /\ copies'[t].id = copies[t].id
  /\ Shown(t) => Shown(t)'
  /\ \A k \in Calendar : <<t, k>> \in trace.loose => <<t, k>> \in trace'.loose

JobsGrow ==
  /\ jobs.upserts \subseteq jobs'.upserts
  /\ jobs.deletes \subseteq jobs'.deletes
  /\ \A d \in TaskId : Live(d)' => Live(d)

PassesGrow ==
  \A q \in Pass : passes'[q] = passes[q] \/ (~passes[q].open /\ passes'[q] = Opened)

LEMMA AlikeFacts ==
  ASSUME NEW t \in TaskId, Alike(t)
  PROVE  /\ Copied(t)' <=> Copied(t)
         /\ Right(t) => Right(t)'
BY DEF Alike, Copied, Right

LEMMA AlikeTreated ==
  ASSUME NEW t \in TaskId, Alike(t), PassesGrow, UNCHANGED batch
  PROVE  /\ \A q \in Pass : Treats(passes[q], t) => Treats(passes[q], t)'
         /\ Treats(Here, t) => Treats(Here, t)'
         /\ Treats(batch.next, t) => Treats(batch.next, t)'
         /\ \A q \in Pass : passes[q] = Opened => passes'[q] = Opened
<1>1. Copied(t)' <=> Copied(t)
  BY AlikeFacts
<1>2. \A q \in Pass : Treats(passes[q], t) => passes'[q] = passes[q]
  BY DEF PassesGrow, Treats
<1>3. Here' = Here
  BY DEF Here
<1>4. \A q \in Pass : passes[q] = Opened => passes'[q] = Opened
  BY DEF PassesGrow, Opened
<1> QED
  BY <1>1, <1>2, <1>3, <1>4 DEF Alike, Treats

LEMMA AlikeRead ==
  ASSUME Types, NEW t \in TaskId, Alike(t), UNCHANGED batch
  PROVE  AsRead(t) => AsRead(t)'
<1>1. \A o : Matches(o, t) => Matches(o, t)'
  BY DEF Matches, Alike
<1>2. InTodo(t) => InTodo(t)'
  BY DEF InTodo, Alike
<1>3. SeenAsIs(t) => SeenAsIs(t)'
  BY DEF SeenAsIs, Alike
<1>4. \A o \in batch.ops : (batch.phase = "answered" /\ o.task = t /\ Outcome(o)) => Outcome(o)'
  <2> SUFFICES ASSUME NEW o \in batch.ops, batch.phase = "answered", o.task = t, Outcome(o)
               PROVE  Outcome(o)'
    OBVIOUS
  <2>1. o.calendar \in Calendar
    BY RequestFields DEF Sending
  <2>2. Shown(o.task) => Shown(o.task)'
    BY DEF Alike
  <2>3. Sent(o) => Sent(o)'
    BY DEF Sent
  <2> QED
    BY <2>1, <2>2, <2>3 DEF Outcome, Alike
<1>5. Eligible(t)' <=> Eligible(t)
  BY DEF Alike
<1>6. \A o : Matches(o, t) => o.task = t
  BY DEF Matches
<1> QED
  BY <1>1, <1>2, <1>3, <1>4, <1>5, <1>6 DEF AsRead, Removing

LEMMA AlikeQueued ==
  ASSUME Types, NEW t \in TaskId, Alike(t), JobsGrow
  PROVE  /\ Queued(t) => Queued(t)'
         /\ Safe(t) => Safe(t)'
<1>1. Swept => Swept'
  <2> SUFFICES ASSUME NEW d \in jobs.deletes, d = Orphans \/ ~Live(d) PROVE Swept'
    BY DEF Swept
  <2>1. d \in TaskId \cup {Orphans} /\ d \in jobs'.deletes
    BY DEF JobsGrow, Types, QueueTypes, Jobs
  <2>2. d = Orphans \/ ~Live(d)'
    BY <2>1 DEF JobsGrow
  <2> QED
    BY <2>1, <2>2 DEF Swept
<1>2. Queued(t) => Queued(t)'
  BY <1>1 DEF Queued, Alike, JobsGrow
<1>3. Unwanted(t) => Unwanted(t)'
  BY DEF Unwanted, Alike, JobsGrow
<1> QED
  BY <1>2, <1>3, AlikeFacts DEF Safe

LEMMA AlikeKept ==
  ASSUME Types, NEW t \in TaskId, Kept(t), Alike(t), JobsGrow, PassesGrow, UNCHANGED batch
  PROVE  Kept(t)'
<1>1. Carried(t)'
  BY AlikeTreated, AlikeQueued DEF Kept, Carried
<1>2. Underway => Handled(t)'
  <2>1. ByRun(t) => ByRun(t)'
    BY AlikeTreated, AlikeRead DEF ByRun
  <2> QED
    BY <2>1, AlikeTreated, AlikeQueued DEF Kept, Handled, Others
<1>3. Revising /\ t \in Taken => AsRead(t)' \/ Renewed(t)'
  <2>1. Renewed(t) => Renewed(t)'
    BY AlikeTreated, AlikeQueued DEF Renewed, Others
  <2> QED
    BY <2>1, AlikeRead DEF Kept
<1>4. (Underway' <=> Underway) /\ (Revising' <=> Revising) /\ Taken' = Taken
  BY DEF Underway, Revising, Taken
<1> QED
  BY <1>1, <1>2, <1>3, <1>4 DEF Kept
-----------------------------------------------------------------------------
(***************************************************************************)
(* What makes good for a task: a job, or a pass that starts anew.          *)
(***************************************************************************)
LEMMA QueuedKept ==
  ASSUME NEW t \in TaskId, Queued(t)'
  PROVE  Kept(t)'
BY DEF Kept, Carried, Handled, Safe, Renewed

LEMMA OpenedCarries ==
  ASSUME GoogleTypes', Rows', NEW t \in TaskId, NEW q \in Pass, passes'[q] = Opened
  PROVE  Right(t)' \/ Treats(passes[q], t)'
<1>0. t > 0
  BY DEF TaskId
<1>1. CASE Eligible(t)'
  BY <1>1, <1>0 DEF Treats, Opened
<1>2. CASE ~Eligible(t)' /\ Copied(t)'
  <2>1. copies'[t].id # 0 /\ copies'[t].id \in TaskId \cup {0}
    BY <1>2 DEF Rows, GoogleTypes, Copy
  <2>2. copies'[t].id > 0
    BY <2>1 DEF TaskId
  <2> QED
    BY <1>2, <2>2 DEF Treats, Opened
<1>3. CASE ~Eligible(t)' /\ ~Copied(t)'
  BY <1>3 DEF Right, Home, Shown, Copied
<1> QED
  BY <1>1, <1>2, <1>3

LEMMA OpenedKept ==
  ASSUME GoogleTypes', Rows', NEW t \in TaskId, NEW q \in Pass, passes'[q] = Opened,
         q # batch'.pass \/ ~Underway'
  PROVE  Kept(t)'
<1>1. Right(t)' \/ Treats(passes[q], t)'
  BY OpenedCarries
<1>2. Carried(t)'
  BY <1>1 DEF Carried, Safe
<1>3. Underway' => q \in Others' /\ Handled(t)' /\ Renewed(t)'
  BY <1>1 DEF Handled, Safe, Renewed, Others
<1>4. Revising' => Underway'
  BY DEF Revising, Underway
<1> QED
  BY <1>2, <1>3, <1>4 DEF Kept

LEMMA ForgetFacts ==
  ASSUME HistoryTypes, NEW ts \in SUBSET TaskId, trace' = Forget(trace, ts)
  PROVE  /\ trace'.loose = trace.loose
         /\ \A t \in ts : ~Owed(t)'
         /\ \A t \in TaskId : Owed(t)' => Owed(t)
<1>1. /\ trace'.missed = trace.missed \cup ts /\ trace'.loose = trace.loose
      /\ trace'.covers = [p \in Pass |-> trace.covers[p] \ ts]
  BY DEF Forget, HistoryTypes, History
<1> QED
  BY <1>1 DEF Owed

LEMMA EnqueueFacts ==
  ASSUME Types, Positions, NEW p \in Pass, NEW ts \in SUBSET TaskId, EnqueuePass(p, ts)
  PROVE  /\ PassesGrow
         /\ \A q \in Pass : passes[q].open => passes'[q].open
         /\ \A q \in Pass : ~passes'[q].open => passes'[q] = passes[q]
         /\ trace'.loose = trace.loose
         /\ \A t \in TaskId : Owed(t)' => Owed(t)
         /\ \/ \A t \in ts : ~Owed(t)'
            \/ passes'[p] = Opened /\ (p # batch.pass \/ ~Underway)
<1>1. passes[p] \in Position /\ passes \in [Pass -> Position]
  BY DEF Types, QueueTypes
<1>2. passes'[p] = [passes[p] EXCEPT !.open = TRUE]
      /\ \A q \in Pass : q # p => passes'[q] = passes[q]
  BY <1>1 DEF EnqueuePass
<1>3. passes[p].open => passes'[p] = passes[p]
  BY <1>1, <1>2 DEF Position
<1>4. ~passes[p].open => passes'[p] = Opened
  <2>1. ~passes[p].open => passes[p] = Closed
    BY DEF Positions
  <2> SUFFICES ASSUME ~passes[p].open PROVE passes'[p] = Opened
    OBVIOUS
  <2>2. /\ passes'[p] \in Position /\ passes'[p].open
        /\ passes'[p].at = passes[p].at /\ passes'[p].last = passes[p].last
    BY <1>1, <1>2 DEF Position
  <2>3. passes'[p].at = "delete" /\ passes'[p].last = 0
    BY <2>1, <2>2 DEF Closed
  <2>4. passes'[p] = [open |-> passes'[p].open, at |-> passes'[p].at, last |-> passes'[p].last]
    BY <2>2 DEF Position
  <2> QED
    BY <2>2, <2>3, <2>4 DEF Opened
<1>5. CASE Begun(p)
  <2>1. trace' = Forget(trace, ts)
    BY <1>5 DEF EnqueuePass
  <2>2. /\ trace'.loose = trace.loose
        /\ \A t \in ts : ~Owed(t)'
        /\ \A t \in TaskId : Owed(t)' => Owed(t)
    BY <2>1, ForgetFacts DEF Types
  <2> QED
    BY <1>2, <1>3, <1>4, <2>2 DEF PassesGrow, Opened
<1>6. CASE ~Begun(p)
  <2>1. trace' = trace
    BY <1>6 DEF EnqueuePass
  <2>2. passes'[p] = Opened /\ (p # batch.pass \/ ~Underway)
    BY <1>3, <1>4, <1>6 DEF Begun, Underway
  <2>3. \A t \in TaskId : Owed(t)' => Owed(t)
    BY <2>1 DEF Owed
  <2> QED
    BY <1>2, <1>3, <1>4, <2>1, <2>2, <2>3 DEF PassesGrow, Opened
<1> QED
  BY <1>5, <1>6

LEMMA GrowPositions ==
  ASSUME Types, Positions, PassesGrow, UNCHANGED batch
  PROVE  Positions'
<1>1. \A q \in Pass : ~passes'[q].open => passes'[q] = passes[q]
  BY DEF PassesGrow, Opened
<1>2. \A q \in Pass : passes[q].open => passes'[q] = passes[q]
  BY DEF PassesGrow
<1>3. batch.pass \in Pass
  BY RunFields DEF Types
<1>4. \A q \in Pass : ~passes'[q].open => passes'[q] = Closed
  BY <1>1 DEF Positions
<1>5. batch.phase # "idle" => passes'[batch.pass].open /\ passes'[batch.pass] = passes[batch.pass]
  BY <1>2, <1>3 DEF Positions
<1> QED
  BY <1>4, <1>5 DEF Positions, Ending, Removing, Sending

(***************************************************************************)
(* The user saves and removes tasks.                                       *)
(***************************************************************************)
LEMMA SameHistory ==
  ASSUME UNCHANGED trace
  PROVE  \A t \in TaskId : Owed(t)' <=> Owed(t)
BY DEF Owed

LEMMA SaveTaskKeeps ==
  ASSUME BInv, NEW u \in TaskId, SaveTask(u)
  PROVE  Tables' /\ Owing'
<1> USE DEF BInv, Tables
<1>1. PICK c \in Category \cup {NoCategory}, active \in BOOLEAN, payload \in {1, 2} :
        /\ c \in Category => categories[c] # "deleted"
        /\ scheduled' = [scheduled EXCEPT ![u] =
             [@ EXCEPT !.category = c, !.active = active, !.payload = payload]]
  BY DEF SaveTask
<1>2. /\ scheduled \in [TaskId -> Entry]
      /\ UNCHANGED <<categories, routes, googleVars, copies, passes, batch, batchSize, trace>>
      /\ jobs' = [jobs EXCEPT !.upserts = @ \cup {u}] /\ jobs \in Jobs
      /\ Live(u)
  BY DEF SaveTask, Types, TaskTypes, QueueTypes, Live
<1>3. /\ \A t \in TaskId \ {u} : scheduled'[t] = scheduled[t]
      /\ scheduled'[u].category = c
      /\ \A t \in TaskId : Live(t)' <=> Live(t)
  BY <1>1, <1>2 DEF Live, Entry
<1>4. /\ jobs'.upserts = jobs.upserts \cup {u} /\ jobs'.deletes = jobs.deletes
  BY <1>2 DEF Jobs
<1>5. Positions'
  <2>1. PassesGrow
    BY <1>2 DEF PassesGrow
  <2> QED
    BY <1>2, <2>1, GrowPositions
<1>6. Rows'
  BY <1>2, <1>3 DEF Rows, Copied
<1>7. Places'
  BY <1>1, <1>2, <1>3 DEF Places, googleVars
<1>8. Shows'
  BY <1>2 DEF Shows, Missing, googleVars
<1>9. Deletions' /\ Requests'
  <2>1. MirrorsStay /\ EventsFade
    BY <1>2, <1>3 DEF MirrorsStay, EventsFade, googleVars
  <2> QED
    BY <1>2, <2>1, RunStays
<1>10. ASSUME NEW t \in TaskId, Owed(t)' PROVE Kept(t)'
  <2>1. CASE t = u
    BY <1>2, <1>3, <1>4, <2>1, QueuedKept DEF Queued
  <2>2. CASE t # u
    <3>1. Kept(t)
      BY <1>2, <1>10, SameHistory DEF Owing
    <3>2. Alike(t)
      <4>1. (Eligible(t)' <=> Eligible(t)) /\ Home(t)' = Home(t)
        BY <1>2, <1>3, <2>2 DEF Eligible, Home
      <4>2. Shown(t)' <=> Shown(t)
        BY <1>2 DEF Shown, Copied, googleVars
      <4> QED
        BY <1>2, <1>3, <2>2, <4>1, <4>2 DEF Alike
    <3>3. JobsGrow /\ PassesGrow
      BY <1>2, <1>3, <1>4 DEF JobsGrow, PassesGrow
    <3> QED
      BY <1>2, <3>1, <3>2, <3>3, AlikeKept
  <2> QED
    BY <2>1, <2>2
<1> QED
  BY <1>5, <1>6, <1>7, <1>8, <1>9, <1>10 DEF Owing

LEMMA RemoveTaskKeeps ==
  ASSUME BInv, NEW u \in TaskId, RemoveTask(u)
  PROVE  Tables' /\ Owing'
<1> USE DEF BInv, Tables
<1>1. /\ scheduled' = [scheduled EXCEPT ![u].state = "gone"]
      /\ copies' = [copies EXCEPT ![u].owned = FALSE]
      /\ jobs' = [jobs EXCEPT !.deletes = @ \cup {u}]
      /\ UNCHANGED <<categories, routes, googleVars, passes, batch, batchSize, trace>>
      /\ scheduled \in [TaskId -> Entry] /\ copies \in [TaskId -> Copy] /\ jobs \in Jobs
  BY DEF RemoveTask, Types, TaskTypes, GoogleTypes, QueueTypes
<1>2. /\ \A t \in TaskId \ {u} : scheduled'[t] = scheduled[t] /\ copies'[t] = copies[t]
      /\ scheduled'[u].category = scheduled[u].category /\ ~Live(u)'
      /\ copies'[u].calendar = copies[u].calendar /\ copies'[u].payload = copies[u].payload
      /\ copies'[u].id = copies[u].id /\ copies'[u].owned = FALSE
  BY <1>1 DEF Live, Entry, Copy
<1>3. /\ jobs'.upserts = jobs.upserts /\ jobs'.deletes = jobs.deletes \cup {u}
  BY <1>1 DEF Jobs
<1>4. \A t \in TaskId : (Live(t)' => Live(t)) /\ (t # u => (Live(t)' <=> Live(t)))
  BY <1>2 DEF Live
<1>5. Positions'
  <2>1. PassesGrow
    BY <1>1 DEF PassesGrow
  <2> QED
    BY <1>1, <2>1, GrowPositions
<1>6. Rows'
  <2>1. \A t \in TaskId : Copied(t)' <=> Copied(t)
    BY <1>2 DEF Copied
  <2>2. ~Copied(u) => copies'[u] = NoCopy
    <3>1. ~Copied(u) => copies[u] = NoCopy
      BY DEF Rows
    <3>2. copies'[u] \in Copy
      BY <1>1, CopyFields DEF Types, Copy
    <3>3. copies'[u] = [calendar |-> copies'[u].calendar, payload |-> copies'[u].payload,
                        owned |-> copies'[u].owned, id |-> copies'[u].id]
      BY <3>2 DEF Copy
    <3>4. ~Copied(u) => copies[u].calendar = 0 /\ copies[u].payload = 0 /\ copies[u].id = 0
      BY <3>1 DEF NoCopy
    <3> QED
      BY <1>2, <3>3, <3>4 DEF NoCopy
  <2>3. \A t \in TaskId : copies'[t].id = copies[t].id /\ copies'[t].payload = copies[t].payload
    BY <1>2
  <2> QED
    BY <1>2, <1>4, <2>1, <2>2, <2>3 DEF Rows
<1>7. Places'
  BY <1>1, <1>2 DEF Places, googleVars
<1>8. \A t \in TaskId : /\ copies'[t].calendar = copies[t].calendar
                        /\ copies'[t].payload = copies[t].payload
                        /\ copies'[t].id = copies[t].id
  BY <1>2
<1>9. Shows'
  BY <1>1, <1>8 DEF Shows, Missing, googleVars
<1>10. Deletions' /\ Requests'
  <2>1. MirrorsStay /\ EventsFade
    BY <1>1, <1>4, <1>8 DEF MirrorsStay, EventsFade, googleVars
  <2> QED
    BY <1>1, <2>1, RunStays
<1>11. ASSUME NEW t \in TaskId, Owed(t)' PROVE Kept(t)'
  <2>1. CASE t = u
    <3>1. Swept'
      BY <1>2, <1>3 DEF Swept
    <3> QED
      BY <1>2, <2>1, <3>1, QueuedKept DEF Queued
  <2>2. CASE t # u
    <3>1. Kept(t)
      BY <1>1, <1>11, SameHistory DEF Owing
    <3>2. Alike(t)
      <4>1. (Eligible(t)' <=> Eligible(t)) /\ Home(t)' = Home(t)
        BY <1>1, <1>2, <2>2 DEF Eligible, Home
      <4>2. Shown(t)' <=> Shown(t)
        BY <1>1, <1>8 DEF Shown, Copied, googleVars
      <4> QED
        BY <1>1, <1>2, <1>4, <1>8, <2>2, <4>1, <4>2 DEF Alike
    <3>3. JobsGrow /\ PassesGrow
      BY <1>1, <1>3, <1>4 DEF JobsGrow, PassesGrow
    <3> QED
      BY <1>1, <3>1, <3>2, <3>3, AlikeKept
  <2> QED
    BY <2>1, <2>2
<1> QED
  BY <1>5, <1>6, <1>7, <1>9, <1>10, <1>11 DEF Owing

(***************************************************************************)
(* The user changes categories, and asks for a pass.                       *)
(***************************************************************************)
LEMMA EnqueueKeeps ==
  ASSUME Types, Positions, Owing, Types', Rows', NEW p \in Pass, NEW ts \in SUBSET TaskId,
         EnqueuePass(p, ts), UNCHANGED <<jobs, batch>>,
         \A t \in TaskId : Live(t)' <=> Live(t),
         \A t \in TaskId \ ts : Alike(t)
  PROVE  Owing'
<1> SUFFICES ASSUME NEW t \in TaskId, Owed(t)' PROVE Kept(t)'
  BY DEF Owing
<1>1. PassesGrow /\ JobsGrow
  BY EnqueueFacts DEF JobsGrow
<1>2. Kept(t)
  BY EnqueueFacts DEF Owing
<1>3. CASE t \notin ts
  BY <1>1, <1>2, <1>3, AlikeKept
<1>4. CASE t \in ts
  <2>1. passes'[p] = Opened /\ (p # batch.pass \/ ~Underway)
    BY <1>4, EnqueueFacts
  <2>2. p # batch'.pass \/ ~Underway'
    BY <2>1 DEF Underway
  <2> QED
    BY <2>1, <2>2, OpenedKept DEF Types
<1> QED
  BY <1>3, <1>4

LEMMA CategoryKeeps ==
  ASSUME BInv, Types', NEW c \in Category,
         SwitchCategory(c) \/ DropCategory(c) \/ AddCategory(c)
  PROVE  Tables' /\ Owing'
<1> USE DEF BInv, Tables
<1> DEFINE affected == {t \in TaskId : scheduled[t].category = c}
<1>1. /\ UNCHANGED <<googleVars, copies, jobs, batch, batchSize>>
      /\ affected \in SUBSET TaskId
  BY DEF SwitchCategory, DropCategory, AddCategory
<1>2. /\ scheduled \in [TaskId -> Entry]
      /\ categories \in [Category -> {"synced", "local", "deleted"}]
      /\ routes \in [Category -> Calendar \cup {0}]
      /\ NoCategory \notin Category
  BY BatchAssumption DEF Types, TaskTypes, GoogleTypes
<1>3. \/ EnqueuePass("manual", affected)
      \/ UNCHANGED <<passes, trace>>
  BY DEF SwitchCategory, DropCategory, AddCategory
<1>4. /\ \A t \in TaskId : scheduled'[t].state = scheduled[t].state
      /\ \A t \in TaskId : scheduled'[t].category \in {scheduled[t].category, NoCategory}
      /\ \A t \in TaskId \ affected : scheduled'[t] = scheduled[t]
      /\ \A d \in Category \ {c} : categories'[d] = categories[d] /\ routes'[d] = routes[d]
      /\ routes'[c] \in {routes[c], 0}
  <2>1. CASE UNCHANGED scheduled
    BY <2>1, <1>2 DEF SwitchCategory, DropCategory, AddCategory
  <2>2. CASE DropCategory(c)
    BY <2>2, <1>2 DEF DropCategory, Entry
  <2> QED
    BY <2>1, <2>2 DEF SwitchCategory, AddCategory
<1>5. \A t \in TaskId : Live(t)' <=> Live(t)
  BY <1>4 DEF Live
<1>6. \A t \in TaskId : scheduled'[t].category # NoCategory =>
        categories'[scheduled'[t].category] # "deleted"
  <2>1. CASE SwitchCategory(c)
    BY <1>2, <2>1 DEF SwitchCategory, Places
  <2>2. CASE DropCategory(c)
    <3> SUFFICES ASSUME NEW t \in TaskId, scheduled'[t].category # NoCategory
                 PROVE  categories'[scheduled'[t].category] # "deleted"
      OBVIOUS
    <3>1. t \notin affected /\ scheduled'[t] = scheduled[t]
      BY <2>2, <1>2, <1>4 DEF DropCategory, Entry
    <3>2. scheduled[t].category \in Category \ {c}
      BY <1>2, <3>1, EntryFields DEF Types
    <3> QED
      BY <1>4, <3>1, <3>2 DEF Places
  <2>3. CASE AddCategory(c)
    BY <1>2, <2>3 DEF AddCategory, Places
  <2> QED
    BY <2>1, <2>2, <2>3
<1>7. Positions'
  <2>1. PassesGrow
    BY <1>1, <1>3, EnqueueFacts DEF Pass, PassesGrow
  <2> QED
    BY <1>1, <2>1, GrowPositions
<1>8. Rows'
  BY <1>1, <1>5 DEF Rows, Copied
<1>9. Places'
  <2>1. \A d \in DOMAIN batch.fix : d \in Category
    BY RunFields DEF Types, Fixes
  <2>2. \A d \in DOMAIN batch.fix : routes'[d] # 0 => routes'[d] = routes[d]
    BY <1>4, <2>1
  <2> QED
    BY <1>1, <1>6, <2>2 DEF Places, googleVars
<1>10. trace'.loose = trace.loose
  BY <1>3, EnqueueFacts DEF Pass
<1>11. Shows'
  BY <1>1, <1>10 DEF Shows, Missing, googleVars
<1>12. Deletions' /\ Requests'
  <2>1. MirrorsStay /\ EventsFade
    BY <1>1, <1>5, <1>10 DEF MirrorsStay, EventsFade, googleVars
  <2> QED
    BY <1>1, <2>1, RunStays
<1>13. ASSUME NEW t \in TaskId,
              scheduled'[t] = scheduled[t],
              Eligible(t)' <=> Eligible(t), Home(t)' = Home(t)
       PROVE  Alike(t)
  <2>1. Shown(t)' <=> Shown(t)
    BY <1>1, <1>10 DEF Shown, Copied, googleVars
  <2> QED
    BY <1>1, <1>5, <1>10, <1>13, <2>1 DEF Alike
<1>14. \A t \in TaskId \ affected : Alike(t)
  <2> SUFFICES ASSUME NEW t \in TaskId \ affected PROVE Alike(t)
    OBVIOUS
  <2>1. scheduled'[t] = scheduled[t] /\ scheduled[t].category \in (Category \ {c}) \cup {NoCategory}
    BY <1>4, EntryFields DEF Types
  <2>2. Eligible(t)' <=> Eligible(t)
    BY <1>4, <2>1 DEF Eligible
  <2>3. Home(t)' = Home(t)
    BY <1>4, <2>1, <2>2 DEF Home, Eligible
  <2> QED
    BY <1>13, <2>1, <2>2, <2>3
<1>15. Owing'
  <2>1. CASE EnqueuePass("manual", affected)
    BY <1>1, <1>5, <1>8, <1>14, <2>1, EnqueueKeeps DEF Pass
  <2>2. CASE AddCategory(c)
    <3>1. affected = {}
      BY <1>2, <2>2 DEF AddCategory, Places
    <3>2. PassesGrow /\ JobsGrow
      BY <1>1, <1>5, <2>2 DEF AddCategory, PassesGrow, JobsGrow
    <3>3. \A t \in TaskId : Owed(t)' <=> Owed(t)
      BY <2>2, SameHistory DEF AddCategory
    <3> HIDE DEF affected
    <3> QED
      BY <1>1, <1>14, <3>1, <3>2, <3>3, AlikeKept DEF Owing
  <2> QED
    BY <2>1, <2>2 DEF SwitchCategory, DropCategory
<1> QED
  BY <1>7, <1>8, <1>9, <1>11, <1>12, <1>15

LEMMA AskForPassKeeps ==
  ASSUME BInv, Types', NEW p \in Pass, AskForPass(p)
  PROVE  Tables' /\ Owing'
<1> USE DEF BInv, Tables
<1>1. /\ UNCHANGED <<userVars, routes, googleVars, copies, jobs, batch, batchSize>>
      /\ EnqueuePass(p, {})
  BY DEF AskForPass
<1>2. PassesGrow /\ trace'.loose = trace.loose
  BY <1>1, EnqueueFacts
<1>3. \A t \in TaskId : Live(t)' <=> Live(t)
  BY <1>1 DEF Live, userVars
<1>4. Positions'
  BY <1>1, <1>2, GrowPositions
<1>5. Rows' /\ Places' /\ Shows'
  BY <1>1, <1>2 DEF Rows, Places, Shows, Missing, Copied, Live, userVars, googleVars
<1>6. Deletions' /\ Requests'
  <2>1. MirrorsStay /\ EventsFade
    BY <1>1, <1>2, <1>3 DEF MirrorsStay, EventsFade, googleVars
  <2> QED
    BY <1>1, <2>1, RunStays
<1>7. \A t \in TaskId : Alike(t)
  BY <1>1, <1>2, <1>3 DEF Alike, Eligible, Home, Shown, Copied, userVars, googleVars
<1>8. Owing'
  BY <1>1, <1>3, <1>5, <1>7, EnqueueKeeps
<1> QED
  BY <1>4, <1>5, <1>6, <1>8

(***************************************************************************)
(* The user in Google.                                                     *)
(***************************************************************************)
LEMMA TouchEventKeeps ==
  ASSUME BInv, NEW u \in TaskId, NEW k \in Calendar, TouchEvent(u, k)
  PROVE  Tables' /\ Owing'
<1> USE DEF BInv, Tables
<1>1. /\ UNCHANGED <<userVars, routes, calendars, copies, jobs, passes, batch, batchSize>>
      /\ events[u][k] # NoEvent /\ events \in [TaskId -> [Calendar -> 0..3]]
      /\ trace \in History /\ HistoryTypes
  BY DEF TouchEvent, Types, GoogleTypes, HistoryTypes
<1>2. /\ \A t \in TaskId, j \in Calendar : t # u \/ j # k => events'[t][j] = events[t][j]
      /\ \/ /\ events'[u][k] = Edited
            /\ trace' = [trace EXCEPT !.loose = trace.loose \cup {<<u, k>>}]
         \/ /\ events'[u][k] = NoEvent
            /\ trace' = [Forget(trace, {u}) EXCEPT
                           !.loose = Forget(trace, {u}).loose \ {<<u, k>>}]
  <2>1. CASE /\ events' = [events EXCEPT ![u][k] = Edited]
             /\ trace' = [trace EXCEPT !.loose = @ \cup {<<u, k>>}]
    BY <1>1, <2>1
  <2>2. CASE /\ events' = [events EXCEPT ![u][k] = NoEvent]
             /\ trace' = [Forget(trace, {u}) EXCEPT !.loose = @ \ {<<u, k>>}]
    BY <1>1, <2>2
  <2> QED
    BY <2>1, <2>2 DEF TouchEvent
<1>3. \/ /\ events'[u][k] = Edited
         /\ trace'.loose = trace.loose \cup {<<u, k>>}
         /\ \A t \in TaskId : Owed(t)' <=> Owed(t)
      \/ /\ events'[u][k] = NoEvent
         /\ trace'.loose = trace.loose \ {<<u, k>>}
         /\ ~Owed(u)' /\ \A t \in TaskId : Owed(t)' => Owed(t)
  <2>1. CASE /\ events'[u][k] = Edited
             /\ trace' = [trace EXCEPT !.loose = trace.loose \cup {<<u, k>>}]
    BY <1>1, <2>1 DEF History, Owed
  <2>2. CASE /\ events'[u][k] = NoEvent
             /\ trace' = [Forget(trace, {u}) EXCEPT
                           !.loose = Forget(trace, {u}).loose \ {<<u, k>>}]
    <3>1. /\ Forget(trace, {u}) \in History
          /\ Forget(trace, {u}).missed = trace.missed \cup {u}
          /\ Forget(trace, {u}).covers = [p \in Pass |-> trace.covers[p] \ {u}]
          /\ Forget(trace, {u}).loose = trace.loose
      BY <1>1, ForgetType DEF Forget, History
    <3>2. /\ trace'.missed = trace.missed \cup {u}
          /\ trace'.covers = [p \in Pass |-> trace.covers[p] \ {u}]
          /\ trace'.loose = trace.loose \ {<<u, k>>}
      <4> DEFINE h == Forget(trace, {u})
      <4>1. trace' = [h EXCEPT !.loose = h.loose \ {<<u, k>>}]
        BY <2>2
      <4> HIDE DEF h
      <4>2. h \in History
        BY <3>1 DEF h
      <4>3. trace'.missed = h.missed /\ trace'.covers = h.covers
            /\ trace'.loose = h.loose \ {<<u, k>>}
        BY <4>1, <4>2 DEF History
      <4> QED
        BY <3>1, <4>3 DEF h
    <3>3. ~Owed(u)'
      BY <3>2 DEF Owed
    <3>4. \A t \in TaskId : Owed(t)' => Owed(t)
      BY <3>2 DEF Owed
    <3> QED
      BY <2>2, <3>2, <3>3, <3>4
  <2> QED
    BY <1>2, <2>1, <2>2
<1>4. Edited # NoEvent
  BY DEF Edited, NoEvent
<1>5. Positions'
  <2>1. PassesGrow
    BY <1>1 DEF PassesGrow
  <2> QED
    BY <1>1, <2>1, GrowPositions
<1>6. Rows' /\ Places'
  BY <1>1 DEF Rows, Places, Copied, Live, userVars
<1>7. Shows'
  <2>1. ASSUME NEW t \in TaskId, NEW j \in Calendar
        PROVE  \/ <<t, j>> \in trace'.loose
               \/ events'[t][j] = IF j = copies'[t].calendar THEN copies'[t].payload ELSE NoEvent
               \/ Missing(t, j)'
    <3>1. CASE t = u /\ j = k
      BY <1>1, <1>3, <3>1 DEF Missing
    <3>2. CASE t # u \/ j # k
      BY <1>1, <1>2, <1>3, <3>2 DEF Missing, Shows
    <3> QED
      BY <3>1, <3>2
  <2>2. ASSUME NEW t \in TaskId, NEW j \in Calendar, calendars'[j] = "deleted"
        PROVE  events'[t][j] = NoEvent /\ <<t, j>> \notin trace'.loose
    <3>1. events[t][j] = NoEvent /\ <<t, j>> \notin trace.loose
      BY <1>1, <2>2 DEF Shows
    <3>2. t # u \/ j # k
      BY <1>1, <3>1
    <3> QED
      BY <1>2, <1>3, <3>1, <3>2
  <2> QED
    BY <2>1, <2>2 DEF Shows
<1>8. Deletions' /\ Requests'
  <2>1. MirrorsStay
    BY <1>1 DEF MirrorsStay, Live, userVars
  <2>2. EventsFade
    <3> SUFFICES ASSUME NEW t \in TaskId, NEW j \in Calendar
                 PROVE  /\ events[t][j] = NoEvent => events'[t][j] = NoEvent
                        /\ <<t, j>> \in trace.loose =>
                             <<t, j>> \in trace'.loose \/ events'[t][j] = NoEvent
      BY DEF EventsFade
    <3> QED
      BY <1>1, <1>2, <1>3
  <2> QED
    BY <1>1, <2>1, <2>2, RunStays
<1>9. ASSUME NEW t \in TaskId, Owed(t)' PROVE Kept(t)'
  <2>1. \A j \in Calendar : <<t, j>> \in trace.loose => <<t, j>> \in trace'.loose
    BY <1>3, <1>9
  <2>2. Shown(t) => Shown(t)'
    <3> SUFFICES ASSUME Shown(t), Copied(t) PROVE Shown(t)'
      BY <1>1 DEF Shown, Copied
    <3>1. copies[t].calendar \in Calendar
      BY CopyFields DEF Types, Copied
    <3>2. CASE t = u /\ copies[t].calendar = k
      BY <1>1, <1>3, <1>9, <3>2 DEF Shown
    <3>3. CASE t # u \/ copies[t].calendar # k
      BY <1>1, <1>2, <2>1, <3>1, <3>3 DEF Shown
    <3> QED
      BY <3>2, <3>3
  <2>3. Alike(t)
    BY <1>1, <2>1, <2>2 DEF Alike, Live, Eligible, Home, userVars
  <2>4. JobsGrow /\ PassesGrow
    BY <1>1 DEF JobsGrow, PassesGrow, Live, userVars
  <2>5. Kept(t)
    BY <1>3, <1>9 DEF Owing
  <2> QED
    BY <1>1, <2>3, <2>4, <2>5, AlikeKept
<1> QED
  BY <1>5, <1>6, <1>7, <1>8, <1>9 DEF Owing

LEMMA DeleteCalendarKeeps ==
  ASSUME BInv, NEW k \in Calendar, DeleteCalendar(k)
  PROVE  Tables' /\ Owing'
<1> USE DEF BInv, Tables
<1>1. /\ UNCHANGED <<userVars, routes, copies, jobs, passes, batch, batchSize>>
      /\ events \in [TaskId -> [Calendar -> 0..3]]
      /\ calendars \in [Calendar -> Category \cup {"unused", "deleted"}]
      /\ trace \in History /\ HistoryTypes
      /\ calendars' = [calendars EXCEPT ![k] = "deleted"]
  BY DEF DeleteCalendar, Types, GoogleTypes, HistoryTypes
<1>2. \A t \in TaskId, j \in Calendar :
        events'[t][j] = IF j = k THEN NoEvent ELSE events[t][j]
  BY <1>1 DEF DeleteCalendar
<1>3. /\ trace'.loose = {e \in trace.loose : e[2] # k}
      /\ \A t \in TaskId : ~Owed(t)'
  <2> DEFINE h == Forget(trace, TaskId)
  <2>1. trace' = [h EXCEPT !.loose = {e \in h.loose : e[2] # k}]
    BY DEF DeleteCalendar
  <2>2. /\ h \in History /\ h.missed = trace.missed \cup TaskId /\ h.loose = trace.loose
        /\ h.covers = [p \in Pass |-> trace.covers[p] \ TaskId]
    BY <1>1, ForgetType DEF Forget, History
  <2> HIDE DEF h
  <2>3. /\ trace'.missed = h.missed /\ trace'.covers = h.covers
        /\ trace'.loose = {e \in h.loose : e[2] # k}
    BY <2>1, <2>2 DEF History
  <2> QED
    BY <2>2, <2>3 DEF Owed
<1>4. Positions'
  <2>1. PassesGrow
    BY <1>1 DEF PassesGrow
  <2> QED
    BY <1>1, <2>1, GrowPositions
<1>5. Rows'
  BY <1>1 DEF Rows, Copied, Live, userVars
<1>6. Places'
  <2>1. \A j \in Calendar : calendars[j] = "deleted" => calendars'[j] = "deleted"
    BY <1>1
  <2>2. \A c \in DOMAIN batch.fix : routes[c] \in Calendar \cup {0}
    BY RunFields DEF Types, Fixes, GoogleTypes
  <2> QED
    BY <1>1, <2>1, <2>2 DEF Places, userVars
<1>7. Shows'
  <2>1. \A t \in TaskId, j \in Calendar :
          <<t, j>> \in trace'.loose <=> (<<t, j>> \in trace.loose /\ j # k)
    BY <1>3
  <2>2. ASSUME NEW t \in TaskId, NEW j \in Calendar
        PROVE  /\ \/ <<t, j>> \in trace'.loose
                  \/ events'[t][j] = IF j = copies'[t].calendar THEN copies'[t].payload
                                                                ELSE NoEvent
                  \/ Missing(t, j)'
               /\ calendars'[j] = "deleted" =>
                    (events'[t][j] = NoEvent /\ <<t, j>> \notin trace'.loose)
    BY <1>1, <1>2, <2>1 DEF Missing, Shows
  <2> QED
    BY <2>2 DEF Shows
<1>8. Deletions' /\ Requests'
  <2>1. MirrorsStay
    BY <1>1 DEF MirrorsStay, Live, userVars
  <2>2. EventsFade
    BY <1>2, <1>3 DEF EventsFade
  <2> QED
    BY <1>1, <2>1, <2>2, RunStays
<1> QED
  BY <1>3, <1>4, <1>5, <1>6, <1>7, <1>8 DEF Owing

LEMMA UserKeeps ==
  ASSUME BInv, UserStep
  PROVE  BInv'
<1>1. Types'
  BY UserTypes DEF BInv
<1>2. Tables' /\ Owing'
  BY <1>1, SaveTaskKeeps, RemoveTaskKeeps, CategoryKeeps, AskForPassKeeps, TouchEventKeeps,
     DeleteCalendarKeeps DEF UserStep
<1> QED
  BY <1>1, <1>2 DEF BInv
-----------------------------------------------------------------------------
(***************************************************************************)
(* What sync_one_task does to the mirror of its task, and to no other.     *)
(***************************************************************************)
Beside(s) ==
  /\ copies'[s] = copies[s]
  /\ \A k \in Calendar : /\ events'[s][k] = events[s][k]
                         /\ <<s, k>> \in trace'.loose <=> <<s, k>> \in trace.loose

RoutesStay == \A c \in Category : routes[c] # 0 => routes'[c] = routes[c]

PutLeaves(t, k) ==
  LET c == scheduled[t].category
      old == copies[t].calendar
  IN /\ c \in Category /\ old \in Calendar \cup {0}
     /\ routes' = [routes EXCEPT ![c] = k] /\ calendars' = [calendars EXCEPT ![k] = c]
     /\ copies'[t].calendar = k /\ copies'[t].payload = scheduled[t].payload
     /\ copies'[t].owned = TRUE
     /\ copies'[t].id \in (IF Copied(t) THEN {copies[t].id} ELSE FreeId)
     /\ \A s \in TaskId \ {t} : copies'[s] = copies[s]
     /\ \A s \in TaskId, j \in Calendar :
          events'[s][j] = IF s # t THEN events[s][j]
                          ELSE IF j = k THEN scheduled[t].payload
                          ELSE IF j = old THEN NoEvent ELSE events[s][j]
     /\ trace'.loose = trace.loose \ {<<t, k>>, <<t, old>>}
     /\ trace'.missed = trace.missed /\ trace'.covers = trace.covers

LEMMA PutEffect ==
  ASSUME Types, NEW t \in TaskId, NEW k \in Calendar, Eligible(t), Put(t, k)
  PROVE  PutLeaves(t, k)
<1> DEFINE c == scheduled[t].category
           old == copies[t].calendar
           sent == [events EXCEPT ![t][k] = scheduled[t].payload]
<1>1. /\ c \in Category /\ old \in Calendar \cup {0} /\ scheduled[t].payload \in 0..3
      /\ events \in [TaskId -> [Calendar -> 0..3]] /\ copies \in [TaskId -> Copy]
      /\ trace \in History
  BY EntryFields, CopyFields DEF Types, GoogleTypes, HistoryTypes, Eligible
<1>2. routes' = [routes EXCEPT ![c] = k] /\ calendars' = [calendars EXCEPT ![k] = c]
  BY DEF Put
<1>3. PICK id \in IF Copied(t) THEN {copies[t].id} ELSE FreeId :
        copies' = [copies EXCEPT ![t] =
          [calendar |-> k, payload |-> scheduled[t].payload, owned |-> TRUE, id |-> id]]
  BY DEF Put
<1>4. /\ copies'[t].calendar = k /\ copies'[t].payload = scheduled[t].payload
      /\ copies'[t].owned = TRUE /\ copies'[t].id = id
      /\ \A s \in TaskId \ {t} : copies'[s] = copies[s]
  BY <1>1, <1>3
<1>5. /\ sent \in [TaskId -> [Calendar -> 0..3]]
      /\ \A s \in TaskId, j \in Calendar :
           sent[s][j] = IF s = t /\ j = k THEN scheduled[t].payload ELSE events[s][j]
  <2>1. [events[t] EXCEPT ![k] = scheduled[t].payload] \in [Calendar -> 0..3]
    BY <1>1
  <2> QED
    BY <1>1, <2>1
<1>6. \A s \in TaskId, j \in Calendar :
        events'[s][j] = IF s # t THEN events[s][j]
                        ELSE IF j = k THEN scheduled[t].payload
                        ELSE IF j = old THEN NoEvent ELSE events[s][j]
  <2>1. events' = IF old # k THEN Drop(sent, t, old) ELSE sent
    BY DEF Put
  <2> HIDE DEF sent, old
  <2>2. \A s \in TaskId, j \in Calendar :
          Drop(sent, t, old)[s][j] = IF s = t /\ j = old THEN NoEvent ELSE sent[s][j]
    BY <1>1, <1>5, DropType
  <2> QED
    BY <1>5, <2>1, <2>2
<1>7. trace' = [trace EXCEPT !.loose = trace.loose \ {<<t, k>>, <<t, old>>}]
  BY DEF Put
<1>8. /\ trace'.loose = trace.loose \ {<<t, k>>, <<t, old>>}
      /\ trace'.missed = trace.missed /\ trace'.covers = trace.covers
  BY <1>1, <1>7 DEF History
<1> QED
  BY <1>1, <1>2, <1>3, <1>4, <1>6, <1>8 DEF PutLeaves

LEMMA WithdrawEffect ==
  ASSUME Types, NEW ts \in SUBSET TaskId, NEW h \in History, Withdraw(ts, h),
         h.loose = trace.loose
  PROVE  /\ UNCHANGED <<routes, calendars>>
         /\ \A s \in TaskId : copies'[s] = IF s \in ts THEN NoCopy ELSE copies[s]
         /\ \A s \in TaskId, j \in Calendar :
              /\ events'[s][j] = IF s \in ts /\ j = copies[s].calendar THEN NoEvent
                                 ELSE events[s][j]
              /\ <<s, j>> \in trace'.loose <=>
                   <<s, j>> \in trace.loose /\ ~(s \in ts /\ j = copies[s].calendar)
         /\ trace'.missed = h.missed /\ trace'.covers = h.covers
<1>1. /\ events \in [TaskId -> [Calendar -> 0..3]]
      /\ \A s \in TaskId : copies[s].calendar \in Calendar \cup {0}
  BY CopyFields DEF Types, GoogleTypes
<1>2. \A s \in TaskId, j \in Calendar :
        Drop(events, s, copies[s].calendar)[s][j] =
          IF j = copies[s].calendar THEN NoEvent ELSE events[s][j]
  BY <1>1, DropType
<1>3. \A s \in TaskId, j \in Calendar :
        events'[s][j] = IF s \in ts /\ j = copies[s].calendar THEN NoEvent ELSE events[s][j]
  BY <1>2 DEF Withdraw
<1>4. trace' = [h EXCEPT !.loose = h.loose \ {<<t, copies[t].calendar>> : t \in ts}]
  BY DEF Withdraw
<1>5. /\ trace'.loose = h.loose \ {<<t, copies[t].calendar>> : t \in ts}
      /\ trace'.missed = h.missed /\ trace'.covers = h.covers
  BY <1>4 DEF History
<1>6. \A s \in TaskId, j \in Calendar :
        <<s, j>> \in trace'.loose <=>
          <<s, j>> \in trace.loose /\ ~(s \in ts /\ j = copies[s].calendar)
  BY <1>5
<1> QED
  BY <1>3, <1>5, <1>6 DEF Withdraw

LEMMA WithdrawKeeps ==
  ASSUME BInv, UNCHANGED userVars, NEW ts \in SUBSET TaskId, NEW h \in History,
         Withdraw(ts, h), h.loose = trace.loose
  PROVE  /\ Rows' /\ Shows' /\ RoutesStay
         /\ \A s \in TaskId : IF s \in ts THEN ~Copied(s)' ELSE Beside(s)
         /\ trace'.missed = h.missed /\ trace'.covers = h.covers
<1> USE DEF BInv, Tables
<1>1. /\ UNCHANGED <<routes, calendars>>
      /\ \A s \in TaskId : copies'[s] = IF s \in ts THEN NoCopy ELSE copies[s]
      /\ \A s \in TaskId, j \in Calendar :
           /\ events'[s][j] = IF s \in ts /\ j = copies[s].calendar THEN NoEvent
                              ELSE events[s][j]
           /\ <<s, j>> \in trace'.loose <=>
                <<s, j>> \in trace.loose /\ ~(s \in ts /\ j = copies[s].calendar)
      /\ trace'.missed = h.missed /\ trace'.covers = h.covers
  BY WithdrawEffect
<1>2. RoutesStay /\ \A s \in TaskId \ ts : Beside(s)
  BY <1>1 DEF RoutesStay, Beside
<1>3. \A s \in TaskId : s \in ts => (copies'[s] = NoCopy /\ ~Copied(s)')
  BY <1>1 DEF Copied, NoCopy
<1>4. Rows'
  <2>1. \A s \in TaskId \ ts : copies'[s] = copies[s] /\ (Copied(s)' <=> Copied(s))
    BY <1>1 DEF Copied
  <2>2. \A s \in TaskId : Live(s)' <=> Live(s)
    BY DEF Live, userVars
  <2> QED
    BY <1>3, <2>1, <2>2 DEF Rows
<1>5. Shows'
  <2>1. ASSUME NEW s \in TaskId, NEW j \in Calendar
        PROVE  /\ \/ <<s, j>> \in trace'.loose
                  \/ events'[s][j] = IF j = copies'[s].calendar
                                     THEN copies'[s].payload ELSE NoEvent
                  \/ Missing(s, j)'
               /\ calendars'[j] = "deleted" =>
                    (events'[s][j] = NoEvent /\ <<s, j>> \notin trace'.loose)
    <3>1. CASE s \in ts
      <4>1. j # copies'[s].calendar
        BY <1>1, <3>1, BatchAssumption DEF NoCopy, Calendar
      <4>2. events'[s][j] = NoEvent \/ <<s, j>> \in trace'.loose
        BY <1>1, <3>1 DEF Shows, Missing
      <4> QED
        BY <1>1, <3>1, <4>1, <4>2 DEF Shows
    <3>2. CASE s \notin ts
      BY <1>1, <3>2 DEF Shows, Missing
    <3> QED
      BY <3>1, <3>2
  <2> QED
    BY <2>1 DEF Shows
<1> QED
  BY <1>1, <1>2, <1>3, <1>4, <1>5

SyncLeaves(t) ==
  /\ Right(t)' /\ Rows' /\ Shows' /\ RoutesStay
  /\ \A s \in TaskId \ {t} : Beside(s)
  /\ \A s \in TaskId : Owed(s)' <=> Owed(s)

LEMMA SyncEffect ==
  ASSUME BInv, NEW t \in TaskId, Live(t), SyncOne(t), UNCHANGED userVars
  PROVE  SyncLeaves(t)
<1> USE DEF BInv, Tables
<1>0. /\ 0 \notin Calendar /\ "deleted" \notin Category /\ 0 \notin TaskId
      /\ Live(t)' /\ (Eligible(t)' <=> Eligible(t))
      /\ scheduled' = scheduled /\ categories' = categories
  BY BatchAssumption DEF Calendar, TaskId, Live, Eligible, userVars
<1>00. \A s \in TaskId : Live(s)' <=> Live(s)
  BY <1>0 DEF Live
<1>1. CASE Eligible(t) /\ \E k \in Routed(scheduled[t].category) :
             calendars[k] # "deleted" /\ Put(t, k)
  <2> DEFINE c == scheduled[t].category
             old == copies[t].calendar
  <2>1. c \in Category
    BY <1>1, EntryFields DEF Types, Eligible
  <2>2. PICK k \in Routed(c) : calendars[k] # "deleted" /\ Put(t, k)
    BY <1>1
  <2>3. k \in Calendar
    BY <2>1, RoutedType DEF Types
  <2>4. /\ old \in Calendar \cup {0}
        /\ routes' = [routes EXCEPT ![c] = k] /\ calendars' = [calendars EXCEPT ![k] = c]
        /\ copies'[t].calendar = k /\ copies'[t].payload = scheduled[t].payload
        /\ copies'[t].owned = TRUE
        /\ copies'[t].id \in (IF Copied(t) THEN {copies[t].id} ELSE FreeId)
        /\ \A s \in TaskId \ {t} : copies'[s] = copies[s]
        /\ \A s \in TaskId, j \in Calendar :
             events'[s][j] = IF s # t THEN events[s][j]
                             ELSE IF j = k THEN scheduled[t].payload
                             ELSE IF j = old THEN NoEvent ELSE events[s][j]
        /\ trace'.loose = trace.loose \ {<<t, k>>, <<t, old>>}
        /\ trace'.missed = trace.missed /\ trace'.covers = trace.covers
    BY <1>1, <2>2, <2>3, PutEffect DEF PutLeaves
  <2>5. /\ routes \in [Category -> Calendar \cup {0}]
        /\ calendars \in [Calendar -> Category \cup {"unused", "deleted"}]
        /\ scheduled[t].payload \in {1, 2}
    BY EntryFields DEF Types, GoogleTypes
  <2> HIDE DEF c, old
  <2>6. \A s \in TaskId \ {t} : Beside(s)
    BY <2>4 DEF Beside
  <2>7. RoutesStay
    BY <2>1, <2>2, <2>4, <2>5 DEF RoutesStay, Routed
  <2>8. \A s \in TaskId : Owed(s)' <=> Owed(s)
    BY <2>4 DEF Owed
  <2>9. Right(t)'
    <3>1. Home(t)' = k
      BY <1>0, <1>1, <2>1, <2>4, <2>5 DEF Home, c
    <3>2. Shown(t)'
      BY <2>3, <2>4 DEF Shown
    <3> QED
      BY <1>0, <2>3, <2>4, <3>1, <3>2 DEF Right
  <2>10. Rows'
    <3>1. Copied(t)' /\ copies'[t].id \in TaskId /\ copies'[t].payload # 0
      <4>1. Copied(t) => copies[t].id \in TaskId
        BY CopyFields DEF Types, Rows
      <4> QED
        BY <1>0, <2>3, <2>4, <2>5, <4>1 DEF Copied, FreeId
    <3>2. \A s \in TaskId \ {t} : copies'[s] = copies[s] /\ (Copied(s)' <=> Copied(s))
      BY <2>4 DEF Copied
    <3>3. \A s \in TaskId \ {t} : Copied(s) => copies[s].id # copies'[t].id
      <4>1. CASE Copied(t)
        BY <2>4, <4>1 DEF Rows
      <4>2. CASE ~Copied(t)
        BY <2>4, <4>2 DEF FreeId
      <4> QED
        BY <4>1, <4>2
    <3>4. \A s \in TaskId : ~Copied(s)' => copies'[s] = NoCopy
      BY <3>1, <3>2 DEF Rows
    <3>5. \A s \in TaskId : Copied(s)' =>
            /\ copies'[s].id # 0 /\ copies'[s].payload # 0
            /\ copies'[s].owned <=> Live(s)'
      BY <1>0, <1>00, <2>4, <3>1, <3>2 DEF Rows
    <3>6. \A r, s \in TaskId : Copied(r)' /\ Copied(s)' /\ copies'[r].id = copies'[s].id => r = s
      BY <3>1, <3>2, <3>3 DEF Rows
    <3> QED
      BY <3>4, <3>5, <3>6 DEF Rows
  <2>11. Shows'
    <3>1. ASSUME NEW s \in TaskId, NEW j \in Calendar
          PROVE  \/ <<s, j>> \in trace'.loose
                 \/ events'[s][j] = IF j = copies'[s].calendar THEN copies'[s].payload
                                                               ELSE NoEvent
                 \/ Missing(s, j)'
      <4>1. CASE s = t
        BY <2>4, <4>1 DEF Shows, Missing, old
      <4>2. CASE s # t
        BY <2>4, <4>2 DEF Shows, Missing
      <4> QED
        BY <4>1, <4>2
    <3>2. ASSUME NEW s \in TaskId, NEW j \in Calendar, calendars'[j] = "deleted"
          PROVE  events'[s][j] = NoEvent /\ <<s, j>> \notin trace'.loose
      <4>1. j # k /\ calendars[j] = "deleted"
        BY <1>0, <2>1, <2>3, <2>4, <2>5, <3>2
      <4>2. events[s][j] = NoEvent /\ <<s, j>> \notin trace.loose
        BY <4>1 DEF Shows
      <4> QED
        BY <2>4, <4>1, <4>2
    <3> QED
      BY <3>1, <3>2 DEF Shows
  <2> QED
    BY <2>6, <2>7, <2>8, <2>9, <2>10, <2>11 DEF SyncLeaves
<1>2. CASE ~Eligible(t) /\ Withdraw({t}, trace)
  <2>1. trace \in History /\ {t} \in SUBSET TaskId /\ Types
    BY DEF Types, HistoryTypes
  <2>2. PICK ts \in SUBSET TaskId : ts = {t} /\ Withdraw(ts, trace)
    BY <1>2, <2>1
  <2>3. /\ Rows' /\ Shows' /\ RoutesStay
        /\ \A s \in TaskId : IF s \in ts THEN ~Copied(s)' ELSE Beside(s)
        /\ trace'.missed = trace.missed /\ trace'.covers = trace.covers
    BY <2>1, <2>2, WithdrawKeeps
  <2>4. Right(t)'
    BY <1>0, <1>2, <2>2, <2>3 DEF Right, Home, Shown, Copied
  <2>5. \A s \in TaskId : Owed(s)' <=> Owed(s)
    BY <2>3 DEF Owed
  <2> QED
    BY <2>2, <2>3, <2>4, <2>5 DEF SyncLeaves
<1> QED
  BY <1>1, <1>2 DEF SyncOne

(***************************************************************************)
(* A task whose mirror a step leaves alone: its calendar can only be found,*)
(* never change.                                                           *)
(***************************************************************************)
Aside(s) ==
  /\ Beside(s) /\ RoutesStay
  /\ scheduled'[s] = scheduled[s] /\ categories' = categories

LEMMA AsideFacts ==
  ASSUME Types, NEW s \in TaskId, Aside(s)
  PROVE  /\ Live(s)' <=> Live(s)
         /\ Eligible(s)' <=> Eligible(s)
         /\ Copied(s)' <=> Copied(s)
         /\ Shown(s) => Shown(s)'
         /\ Right(s) => Right(s)'
         /\ \A pos : Treats(pos, s)' <=> Treats(pos, s)
<1>1. /\ Live(s)' <=> Live(s)
      /\ Eligible(s)' <=> Eligible(s)
      /\ Copied(s)' <=> Copied(s)
  BY DEF Aside, Beside, Live, Eligible, Copied
<1>2. Shown(s) => Shown(s)'
  <2>1. copies[s].calendar \in Calendar \cup {0}
    BY CopyFields DEF Types
  <2> QED
    BY <1>1, <2>1 DEF Aside, Beside, Shown, Copied
<1>3. Right(s) => Right(s)'
  <2>1. Eligible(s) => scheduled[s].category \in Category
    BY EntryFields DEF Types, Eligible
  <2>2. Right(s) => Home(s)' = Home(s)
    BY <1>1, <2>1 DEF Right, Home, Aside, RoutesStay
  <2> QED
    BY <1>1, <1>2, <2>2 DEF Right, Aside, Beside
<1>4. \A pos : Treats(pos, s)' <=> Treats(pos, s)
  BY <1>1 DEF Treats, Aside, Beside
<1> QED
  BY <1>1, <1>2, <1>3, <1>4
-----------------------------------------------------------------------------
(***************************************************************************)
(* The jobs between two runs: only what is carried matters then.           *)
(***************************************************************************)
LEMMA IdleTables ==
  ASSUME BInv, batch.phase = "idle", UNCHANGED <<userVars, passes, batch>>
  PROVE  /\ Positions' /\ Places' /\ Deletions' /\ Requests'
         /\ \A t \in TaskId : Carried(t)' => Kept(t)'
<1> USE DEF BInv, Tables
<1>1. DOMAIN batch.fix = {}
  BY DEF Places
<1>2. ~Removing' /\ ~Sending' /\ ~Underway' /\ ~Revising'
  BY DEF Removing, Sending, Underway, Revising
<1> QED
  BY <1>1, <1>2 DEF Positions, Ending, Places, Deletions, Requests, Kept, userVars, Removing,
                    Sending

LEMMA AsideCarried ==
  ASSUME Types, NEW t \in TaskId, Aside(t), UNCHANGED passes, Carried(t),
         Queued(t) => Queued(t)', Unwanted(t) => Unwanted(t)'
  PROVE  Carried(t)'
BY AsideFacts DEF Carried, Safe

LEMMA RunUpsertKeeps ==
  ASSUME BInv, NEW u \in TaskId, RunUpsert(u)
  PROVE  Tables' /\ Owing'
<1> USE DEF BInv, Tables
<1>1. /\ batch.phase = "idle" /\ UNCHANGED <<userVars, passes, batch>>
      /\ jobs'.upserts = jobs.upserts \ {u} /\ jobs'.deletes = jobs.deletes
  BY DEF RunUpsert, Types, QueueTypes, Jobs
<1>2. \A t \in TaskId : Live(t)' <=> Live(t)
  BY <1>1 DEF Live, userVars
<1>3. Swept => Swept'
  BY <1>1, <1>2 DEF Swept, Types, QueueTypes, Jobs
<1>4. ASSUME NEW t \in TaskId, Aside(t), t # u \/ ~Live(t), Owed(t)
      PROVE  Kept(t)'
  <2>1. (Queued(t) => Queued(t)') /\ (Unwanted(t) => Unwanted(t)')
    BY <1>1, <1>2, <1>3, <1>4, AsideFacts DEF Queued, Unwanted
  <2>2. Carried(t)
    BY <1>4 DEF Owing, Kept
  <2> QED
    BY <1>1, <1>4, <2>1, <2>2, AsideCarried, IdleTables
<1>5. CASE Live(u) /\ SyncOne(u)
  <2>1. SyncLeaves(u)
    BY <1>1, <1>5, SyncEffect
  <2>2. ASSUME NEW t \in TaskId, Owed(t)' PROVE Kept(t)'
    <3>1. CASE t = u
      BY <1>1, <2>1, <3>1, IdleTables DEF SyncLeaves, Carried, Safe
    <3>2. CASE t # u
      BY <1>1, <1>4, <2>1, <2>2, <3>2 DEF SyncLeaves, Aside, userVars
    <3> QED
      BY <3>1, <3>2
  <2> QED
    BY <1>1, <2>1, <2>2, IdleTables DEF SyncLeaves, Owing
<1>6. CASE /\ UNCHANGED <<routes, googleVars, copies>>
           /\ trace' = Forget(trace, {u}) \/ (trace' = trace /\ ~Live(u))
  <2>1. \A t \in TaskId : Aside(t)
    <3>1. trace'.loose = trace.loose
      BY <1>6, ForgetFacts DEF Types
    <3> QED
      BY <1>1, <1>6, <3>1 DEF Aside, Beside, RoutesStay, userVars, googleVars
  <2>2. \A t \in TaskId : Owed(t)' => Owed(t) /\ (t # u \/ ~Live(t))
    <3>1. CASE trace' = Forget(trace, {u})
      BY <3>1, ForgetFacts DEF Types
    <3>2. CASE trace' = trace /\ ~Live(u)
      BY <3>2 DEF Owed
    <3> QED
      BY <1>6, <3>1, <3>2
  <2>3. Rows' /\ Shows'
    <3>1. trace'.loose = trace.loose
      BY <1>6, ForgetFacts DEF Types
    <3> QED
      BY <1>1, <1>2, <1>6, <3>1 DEF Rows, Shows, Copied, Missing, googleVars
  <2> QED
    BY <1>1, <1>4, <2>1, <2>2, <2>3, IdleTables DEF Owing
<1>7. "gone" # "live"
  OBVIOUS
<1> QED
  BY <1>5, <1>6, <1>7 DEF RunUpsert, Live

LEMMA RunDeleteKeeps ==
  ASSUME BInv, NEW d \in TaskId \cup {Orphans}, RunDelete(d)
  PROVE  Tables' /\ Owing'
<1> USE DEF BInv, Tables
<1> DEFINE live == d # Orphans /\ scheduled[d].state = "live"
           ts == {t \in TaskId : Copied(t) /\ (IF live THEN t = d ELSE ~copies[t].owned)}
           fresh == {t \in ts : Eligible(t)}
           others == {t \in TaskId : t = d \/ scheduled[t].state = "gone"}
<1>1. /\ batch.phase = "idle" /\ UNCHANGED <<userVars, passes, batch>>
      /\ jobs'.upserts = jobs.upserts /\ jobs'.deletes = jobs.deletes \ {d}
      /\ jobs.deletes \subseteq TaskId \cup {Orphans}
  BY DEF RunDelete, Types, QueueTypes, Jobs
<1>2. \A t \in TaskId : /\ Live(t)' <=> Live(t)
                        /\ Eligible(t)' <=> Eligible(t)
                        /\ Eligible(t) => Live(t)
                        /\ ~Live(t) => scheduled[t].state = "gone"
  BY <1>1, EntryFields DEF Live, userVars, Eligible, Types
<1>3. ASSUME NEW t \in TaskId, Aside(t), Owed(t),
             (live /\ (t # d \/ Eligible(t))) \/ (~live /\ Live(t))
      PROVE  Kept(t)'
  <2>1. Swept /\ live => Swept'
    BY <1>1, <1>2 DEF Swept, Live
  <2>2. ~live /\ Live(t) => t # d
    BY BatchAssumption DEF Live, Orphans, TaskId
  <2>3. (Queued(t) => Queued(t)') /\ (Unwanted(t) => Unwanted(t)')
    BY <1>1, <1>2, <1>3, <2>1, <2>2 DEF Queued, Unwanted
  <2>4. Carried(t)
    BY <1>3 DEF Owing, Kept
  <2> QED
    BY <1>1, <1>3, <2>3, <2>4, AsideCarried, IdleTables
<1>4. CASE Withdraw(ts, Forget(trace, fresh))
  <2>1. /\ Forget(trace, fresh) \in History /\ Forget(trace, fresh).loose = trace.loose
        /\ Forget(trace, fresh).missed = trace.missed \cup fresh
        /\ Forget(trace, fresh).covers = [p \in Pass |-> trace.covers[p] \ fresh]
    <3>1. trace \in History /\ fresh \in SUBSET TaskId
      BY DEF Types, HistoryTypes
    <3> HIDE DEF fresh
    <3> QED
      BY <3>1, ForgetType DEF Forget, History
  <2>2. ts \in SUBSET TaskId
    OBVIOUS
  <2>3. /\ Rows' /\ Shows' /\ RoutesStay
        /\ \A s \in TaskId : IF s \in ts THEN ~Copied(s)' ELSE Beside(s)
        /\ trace'.missed = trace.missed \cup fresh
        /\ trace'.covers = [p \in Pass |-> trace.covers[p] \ fresh]
    <3> HIDE DEF ts, fresh
    <3>1. Withdraw(ts, Forget(trace, fresh))
      BY <1>4
    <3> QED
      BY <1>1, <2>1, <2>2, <3>1, WithdrawKeeps
  <2>4. \A t \in TaskId : Owed(t)' => Owed(t) /\ t \notin fresh
    <3> HIDE DEF fresh
    <3> QED
      BY <2>3 DEF Owed
  <2>5. \A t \in TaskId : ~Copied(t)' /\ ~Eligible(t)' => Right(t)'
    BY DEF Right, Home, Shown, Copied
  <2>6. ASSUME NEW t \in TaskId, Owed(t)' PROVE Kept(t)'
    <3>1. CASE t \in ts
      <4>1. ~Copied(t)' /\ ~Eligible(t)'
        BY <1>2, <2>3, <2>4, <2>6, <3>1
      <4> QED
        BY <1>1, <2>5, <4>1, IdleTables DEF Carried, Safe
    <3>2. CASE t \notin ts /\ ((live /\ (t # d \/ Eligible(t))) \/ (~live /\ Live(t)))
      BY <1>1, <1>3, <2>3, <2>4, <2>6, <3>2 DEF Aside, userVars
    <3>3. CASE t \notin ts /\ ((live /\ t = d /\ ~Eligible(t)) \/ (~live /\ ~Live(t)))
      <4>1. ~Live(t) /\ Copied(t) => ~copies[t].owned
        BY DEF Rows
      <4>2. ~Copied(t) /\ ~Eligible(t)
        BY <1>2, <3>3, <4>1
      <4>3. ~Copied(t)' /\ ~Eligible(t)'
        BY <1>2, <2>3, <3>3, <4>2 DEF Beside, Copied
      <4> QED
        BY <1>1, <2>5, <4>3, IdleTables DEF Carried, Safe
    <3> QED
      BY <3>1, <3>2, <3>3
  <2> QED
    BY <1>1, <2>3, <2>6, IdleTables DEF Owing
<1>5. CASE /\ trace' = Forget(trace, others)
           /\ UNCHANGED <<routes, googleVars, copies>>
  <2>1. /\ trace'.loose = trace.loose
        /\ \A t \in others : ~Owed(t)'
        /\ \A t \in TaskId : Owed(t)' => Owed(t)
    <3>1. others \in SUBSET TaskId
      OBVIOUS
    <3> HIDE DEF others
    <3> QED
      BY <1>5, <3>1, ForgetFacts DEF Types
  <2>2. Rows' /\ Shows'
    <3>1. Rows'
      BY <1>2, <1>5 DEF Rows, Copied
    <3>2. Shows'
      BY <1>5, <2>1 DEF Shows, Missing, googleVars
    <3> QED
      BY <3>1, <3>2
  <2>3. ASSUME NEW t \in TaskId, Owed(t)' PROVE Kept(t)'
    <3>1. t # d /\ Live(t)
      BY <1>2, <2>1, <2>3
    <3>2. Aside(t)
      BY <1>1, <1>5, <2>1 DEF Aside, Beside, RoutesStay, userVars, googleVars
    <3> QED
      BY <1>3, <2>1, <2>3, <3>1, <3>2
  <2> QED
    BY <1>1, <2>2, <2>3, IdleTables DEF Owing
<1> QED
  BY <1>4, <1>5 DEF RunDelete

LEMMA ClaimPassKeeps ==
  ASSUME BInv, NEW p \in Pass, ClaimPass(p)
  PROVE  Tables' /\ Owing'
<1> USE DEF BInv, Tables
<1>0. Types'
  BY JobTypes DEF JobStep
<1>1. /\ passes[p] \in Position /\ passes[p].open /\ batch.phase = "idle"
      /\ UNCHANGED <<userVars, routes, googleVars, copies, jobs, passes, batchSize>>
  BY DEF ClaimPass, Types, QueueTypes
<1>2. /\ batch'.phase = "claimed" /\ batch'.pass = p /\ batch'.at = passes[p].at
      /\ batch'.last = passes[p].last /\ batch'.fix = NoBatch.fix
      /\ batch'.todo = NoBatch.todo
  <2>1. batch' = [NoBatch EXCEPT !.phase = "claimed", !.pass = p, !.at = passes[p].at,
                                 !.last = passes[p].last]
    BY DEF ClaimPass
  <2> HIDE DEF NoBatch
  <2> QED
    BY <2>1, NoBatchType DEF Run
<1>3. ~Removing' /\ ~Sending' /\ ~Underway' /\ ~Revising'
  BY <1>2 DEF Removing, Sending, Underway, Revising
<1>4. Positions'
  <2>1. passes[p] = [open |-> TRUE, at |-> passes[p].at, last |-> passes[p].last]
    BY <1>1 DEF Position
  <2>2. batch'.todo = {}
    BY <1>2 DEF NoBatch
  <2> QED
    BY <1>1, <1>2, <1>3, <2>1, <2>2 DEF Positions, Ending
<1>5. Places'
  <2>1. DOMAIN batch'.fix = {} /\ batch'.fix = <<>>
    BY <1>2 DEF NoBatch
  <2> QED
    BY <1>1, <2>1 DEF Places, userVars
<1>6. Rows' /\ Deletions' /\ Requests'
  BY <1>1, <1>2, <1>3 DEF Rows, Live, Copied, Deletions, Requests, userVars
<1>7. trace'.loose = trace.loose
  BY DEF ClaimPass, Types, HistoryTypes, History
<1>8. Shows'
  BY <1>1, <1>7 DEF Shows, Missing, googleVars
<1>9. ASSUME NEW t \in TaskId, Owed(t)' PROVE Kept(t)'
  <2>1. CASE passes[p] = Opened
    BY <1>0, <1>1, <1>3, <1>6, <2>1, OpenedKept DEF Types
  <2>2. CASE passes[p] # Opened
    <3>1. trace' = trace
      BY <2>2 DEF ClaimPass
    <3>2. Carried(t)
      BY <1>9, <3>1 DEF Owed, Owing, Kept
    <3>3. Carried(t)'
      <4>1. Aside(t) /\ (Queued(t) => Queued(t)') /\ (Unwanted(t) => Unwanted(t)')
        BY <1>1, <3>1 DEF Aside, Beside, RoutesStay, userVars, googleVars, Queued, Unwanted,
                          Swept, Live, Eligible
      <4> QED
        BY <1>1, <3>2, <4>1, AsideCarried
    <3> QED
      BY <1>3, <3>3 DEF Kept
  <2> QED
    BY <2>1, <2>2
<1> QED
  BY <1>4, <1>5, <1>6, <1>8, <1>9 DEF Owing

LEMMA JobsKeep ==
  ASSUME BInv, JobStep
  PROVE  BInv'
<1>1. Types'
  BY JobTypes DEF BInv
<1>2. Tables' /\ Owing'
  BY RunUpsertKeeps, RunDeleteKeeps, ClaimPassKeeps DEF JobStep
<1> QED
  BY <1>1, <1>2 DEF BInv
-----------------------------------------------------------------------------
(***************************************************************************)
(* A run begins where its pass was left.                                   *)
(***************************************************************************)
LEMMA ReadingStarts ==
  ASSUME Positions, RunTypes, batch.phase \in {"claimed", "recreated"},
         UNCHANGED passes, batch'.phase = "reading", batch'.pass = batch.pass,
         batch'.at = batch.at, batch'.last = batch.last, NEW t \in TaskId, Carried(t)'
  PROVE  Kept(t)'
<1>1. passes'[batch'.pass] = Here'
  BY DEF Positions, Here
<1>2. Handled(t)'
  <2>1. CASE Safe(t)'
    BY <2>1 DEF Handled
  <2>2. CASE \E q \in Pass : Treats(passes[q], t)'
    <3>1. PICK q \in Pass : Treats(passes[q], t)'
      BY <2>2
    <3>2. CASE q = batch'.pass
      BY <1>1, <3>1, <3>2 DEF Handled, ByRun
    <3>3. CASE q # batch'.pass
      BY <3>1, <3>3 DEF Handled, Others
    <3> QED
      BY <3>2, <3>3
  <2> QED
    BY <2>1, <2>2 DEF Carried
<1>3. ~Revising'
  BY DEF Revising
<1> QED
  BY <1>2, <1>3 DEF Kept

LEMMA RecreateKeeps ==
  ASSUME BInv, RecreateCalendars
  PROVE  Tables' /\ Owing'
<1> USE DEF BInv, Tables
<1>1. PICK fix \in [Vanished -> Calendar] :
        /\ \A c \in Vanished : fix[c] \in (IF Named(c) # {} THEN Named(c) ELSE Unused)
        /\ calendars' = [k \in Calendar |-> IF \E c \in Vanished : fix[c] = k
                                            THEN CHOOSE c \in Vanished : fix[c] = k
                                            ELSE calendars[k]]
        /\ batch' = [batch EXCEPT !.phase = IF Vanished = {} THEN "reading" ELSE "recreated",
                                  !.fix = fix]
  BY DEF RecreateCalendars
<1>2. /\ batch.phase = "claimed"
      /\ UNCHANGED <<userVars, routes, events, copies, jobs, passes, batchSize, trace>>
  BY DEF RecreateCalendars
<1>3. /\ batch'.phase = (IF Vanished = {} THEN "reading" ELSE "recreated")
      /\ batch'.pass = batch.pass /\ batch'.at = batch.at /\ batch'.last = batch.last
      /\ batch'.todo = batch.todo /\ batch'.fix = fix
  BY <1>1 DEF Types, RunTypes, Run
<1>4. ~Removing' /\ ~Sending' /\ ~Revising' /\ batch'.phase # "single" /\ ~Sending
  BY <1>2, <1>3 DEF Removing, Sending, Revising
<1>5. Positions'
  BY <1>2, <1>3, <1>4 DEF Positions, Ending
<1>6. Rows' /\ Deletions' /\ Requests'
  BY <1>2, <1>3, <1>4 DEF Rows, Live, Copied, Deletions, Requests, userVars
<1>7. \A c \in Vanished, k \in Calendar : fix[c] = k => calendars[k] # "deleted"
  BY <1>1, BatchAssumption DEF Named, Unused, Vanished
<1>8. \A k \in Calendar : calendars'[k] = "deleted" <=> calendars[k] = "deleted"
  <2> SUFFICES ASSUME NEW k \in Calendar
               PROVE  calendars'[k] = "deleted" <=> calendars[k] = "deleted"
    OBVIOUS
  <2>1. CASE \E c \in Vanished : fix[c] = k
    <3>1. calendars'[k] \in Vanished
      BY <1>1, <2>1
    <3>2. calendars'[k] # "deleted"
      BY <3>1, BatchAssumption DEF Vanished
    <3> QED
      BY <1>7, <2>1, <3>2
  <2>2. CASE ~\E c \in Vanished : fix[c] = k
    BY <1>1, <2>2
  <2> QED
    BY <2>1, <2>2
<1>9. Places'
  <2>1. DOMAIN fix = Vanished
    BY <1>1
  <2>2. \A c \in Vanished : routes[c] \in Calendar /\ calendars[routes[c]] = "deleted"
    BY DEF Vanished, Types, GoogleTypes
  <2>3. Vanished = {} => fix = <<>>
    BY <1>1
  <2> QED
    BY <1>2, <1>3, <1>8, <2>1, <2>2, <2>3 DEF Places, userVars
<1>10. Shows'
  BY <1>2, <1>8 DEF Shows, Missing
<1>11. ASSUME NEW t \in TaskId, Owed(t)' PROVE Kept(t)'
  <2>1. Carried(t)'
    <3>1. Aside(t) /\ (Queued(t) => Queued(t)') /\ (Unwanted(t) => Unwanted(t)')
      BY <1>2 DEF Aside, Beside, RoutesStay, userVars, Queued, Unwanted, Swept, Live, Eligible
    <3>2. Carried(t)
      BY <1>2, <1>11 DEF Owed, Owing, Kept
    <3> QED
      BY <1>2, <3>1, <3>2, AsideCarried
  <2>2. CASE Vanished = {}
    BY <1>2, <1>3, <2>1, <2>2, ReadingStarts DEF Types
  <2>3. CASE Vanished # {}
    BY <1>3, <1>4, <2>1, <2>3 DEF Kept, Underway
  <2> QED
    BY <2>2, <2>3
<1> QED
  BY <1>5, <1>6, <1>9, <1>10, <1>11 DEF Owing

(***************************************************************************)
(* A task that is right is in no calendar that was deleted.                *)
(***************************************************************************)
LEMMA CommitCalendarsKeeps ==
  ASSUME BInv, CommitCalendars
  PROVE  Tables' /\ Owing'
<1> USE DEF BInv, Tables
<1>1. /\ batch.phase = "recreated"
      /\ routes' = [c \in Category |-> IF c \in DOMAIN batch.fix THEN batch.fix[c]
                                       ELSE routes[c]]
      /\ UNCHANGED <<userVars, googleVars, copies, jobs, passes, batchSize, trace>>
  BY DEF CommitCalendars
<1>2. /\ batch'.phase = "reading" /\ batch'.fix = <<>> /\ batch'.todo = batch.todo
      /\ batch'.pass = batch.pass /\ batch'.at = batch.at /\ batch'.last = batch.last
  BY DEF CommitCalendars, Types, RunTypes, Run
<1>3. ~Removing' /\ ~Sending' /\ ~Revising' /\ ~Sending
  BY <1>1, <1>2 DEF Removing, Sending, Revising
<1>4. Positions'
  BY <1>1, <1>2, <1>3 DEF Positions, Ending
<1>5. Rows' /\ Shows' /\ Deletions' /\ Requests'
  BY <1>1, <1>2, <1>3 DEF Rows, Live, Copied, Shows, Missing, Deletions, Requests, userVars,
                          googleVars
<1>6. Places'
  <2>1. DOMAIN batch'.fix = {}
    BY <1>2
  <2> QED
    BY <1>1, <1>2, <2>1 DEF Places, userVars
<1>7. ASSUME NEW t \in TaskId, Owed(t)' PROVE Kept(t)'
  <2>1. (Eligible(t)' <=> Eligible(t)) /\ (Copied(t)' <=> Copied(t)) /\ (Live(t)' <=> Live(t))
        /\ (Shown(t)' <=> Shown(t))
    BY <1>1 DEF Eligible, Copied, Live, Shown, userVars, googleVars
  <2>2. Right(t) => Right(t)'
    <3> SUFFICES ASSUME Right(t) PROVE Home(t)' = Home(t)
      BY <1>1, <2>1 DEF Right, userVars
    <3> DEFINE c == scheduled[t].category
    <3>1. CASE Eligible(t)
      <4>1. /\ c \in Category /\ routes[c] \in Calendar
            /\ copies[t].calendar = routes[c] /\ Copied(t)
        <5>1. c \in Category
          BY <3>1, EntryFields DEF Types, Eligible
        <5> QED
          BY <3>1, <5>1 DEF Types, GoogleTypes, Right, Home, Copied
      <4>2. calendars[routes[c]] # "deleted"
        BY <4>1 DEF Right, Shown, Shows, Rows, NoEvent
      <4>3. c \notin DOMAIN batch.fix
        BY <4>1, <4>2, BatchAssumption DEF Places, Calendar
      <4> QED
        BY <1>1, <2>1, <3>1, <4>1, <4>3 DEF Home, userVars
    <3>2. CASE ~Eligible(t)
      BY <2>1, <3>2 DEF Home
    <3> QED
      BY <3>1, <3>2
  <2>3. \A pos : Treats(pos, t)' <=> Treats(pos, t)
    BY <1>1, <2>1 DEF Treats
  <2>4. (Queued(t) => Queued(t)') /\ (Unwanted(t) => Unwanted(t)')
    BY <1>1, <2>1 DEF Queued, Unwanted, Swept, Live, userVars
  <2>5. Carried(t)
    BY <1>1, <1>7 DEF Owed, Owing, Kept
  <2>6. Carried(t)'
    BY <1>1, <2>2, <2>3, <2>4, <2>5 DEF Carried, Safe
  <2> QED
    BY <1>1, <1>2, <2>6, ReadingStarts DEF Types
<1> QED
  BY <1>4, <1>5, <1>6, <1>7 DEF Owing

(***************************************************************************)
(* What is unchanged when a run only reads or plans.                       *)
(***************************************************************************)
LEMMA PlanningFacts ==
  ASSUME Types, UNCHANGED <<userVars, routes, events, copies, jobs, passes, trace>>,
         NEW t \in TaskId
  PROVE  /\ Live(t)' <=> Live(t)
         /\ Eligible(t)' <=> Eligible(t)
         /\ Copied(t)' <=> Copied(t)
         /\ Shown(t)' <=> Shown(t)
         /\ Home(t)' = Home(t)
         /\ Safe(t)' <=> Safe(t)
         /\ Queued(t)' <=> Queued(t)
         /\ Carried(t)' <=> Carried(t)
         /\ Owed(t)' <=> Owed(t)
         /\ \A pos : Treats(pos, t)' <=> Treats(pos, t)
<1>1. /\ Live(t)' <=> Live(t)
      /\ Eligible(t)' <=> Eligible(t)
      /\ Copied(t)' <=> Copied(t)
      /\ Owed(t)' <=> Owed(t)
  BY DEF userVars, Live, Eligible, Copied, Owed
<1>2. (Shown(t)' <=> Shown(t)) /\ Home(t)' = Home(t)
  BY <1>1 DEF Shown, Home, userVars
<1>3. Right(t)' <=> Right(t)
  BY <1>1, <1>2 DEF Right, userVars
<1>4. (Queued(t)' <=> Queued(t)) /\ (Unwanted(t)' <=> Unwanted(t))
  BY <1>1 DEF Queued, Unwanted, Swept, Live, userVars
<1>5. \A pos : Treats(pos, t)' <=> Treats(pos, t)
  BY <1>1 DEF Treats
<1> QED
  BY <1>1, <1>2, <1>3, <1>4, <1>5 DEF Safe, Carried

LEMMA ReadMirrorsKeeps ==
  ASSUME BInv, ReadMirrors
  PROVE  Tables' /\ Owing'
<1> USE DEF BInv, Tables
<1> DEFINE due == AfterId(batch.last)
           ids == [t \in TaskId |-> copies[t].id]
           managed(t) == Active = {} \/ copies[t].calendar \in Active
<1>1. /\ batch.phase = "reading" /\ batch.at = "delete"
      /\ UNCHANGED <<userVars, routes, googleVars, copies, jobs, passes, batchSize, credit,
                     trace>>
      /\ UNCHANGED <<userVars, routes, events, copies, jobs, passes, trace>>
  BY DEF ReadMirrors, googleVars
<1>2. Rows' /\ Shows'
  BY <1>1 DEF Rows, Live, Copied, Shows, Missing, userVars, googleVars
<1>3. ~Revising /\ ~Sending /\ Underway
  BY <1>1 DEF Revising, Sending, Underway
<1>4. ASSUME NEW t \in TaskId, Owed(t)'
      PROVE  /\ Carried(t)'
             /\ \/ Safe(t)'
                \/ Treats(Here, t)
                \/ \E q \in Others : Treats(passes[q], t)
  BY <1>1, <1>3, <1>4, PlanningFacts DEF Owing, Kept, Handled, ByRun
<1>5. CASE due = {} /\ batch' = [batch EXCEPT !.at = "upsert", !.last = 0]
  <2>1. /\ batch'.phase = "reading" /\ batch'.pass = batch.pass /\ batch'.at = "upsert"
        /\ batch'.last = 0 /\ batch'.fix = batch.fix /\ batch'.todo = batch.todo
    BY <1>1, <1>5 DEF Types, RunTypes, Run
  <2>2. ~Removing' /\ ~Sending' /\ ~Revising' /\ Others' = Others
    BY <2>1 DEF Removing, Sending, Revising, Others
  <2>3. Positions' /\ Places' /\ Deletions' /\ Requests'
    BY <1>1, <1>3, <2>1, <2>2
       DEF Positions, Ending, Places, Deletions, Requests, userVars, googleVars
  <2>4. ASSUME NEW t \in TaskId, Owed(t)' PROVE Kept(t)'
    <3>1. Treats(Here, t) => Treats(Here, t)'
      <4> SUFFICES ASSUME Treats(Here, t) PROVE Treats(Here, t)'
        OBVIOUS
      <4>1. Eligible(t)
        <5>1. ~Eligible(t) => t \in due
          BY DEF Treats, Here, AfterId
        <5> QED
          BY <1>5, <5>1
      <4>2. t > 0
        BY DEF TaskId
      <4> QED
        BY <1>1, <2>1, <4>1, <4>2, PlanningFacts DEF Treats, Here
    <3>2. Handled(t)'
      <4>1. \/ Safe(t)'
            \/ Treats(Here, t)'
            \/ \E q \in Others' : Treats(passes[q], t)'
        BY <1>1, <1>4, <2>2, <2>4, <3>1, PlanningFacts
      <4> QED
        BY <2>1, <4>1 DEF Handled, ByRun
    <3> QED
      BY <1>4, <2>2, <2>4, <3>2 DEF Kept
  <2> QED
    BY <1>2, <2>3, <2>4 DEF Owing
<1>6. CASE \E members \in FirstOf(due, ids) : \E last \in LastOf(members, ids) :
             batch' = [batch EXCEPT !.phase = "removing",
               !.ops = {[task |-> t, key |-> IF copies[t].owned THEN t ELSE Orphans,
                         calendar |-> copies[t].calendar] : t \in {r \in members : managed(r)}},
               !.tidy = {t \in members : ~managed(t)},
               !.next = IF members # due
                        THEN [open |-> TRUE, at |-> "delete", last |-> last]
                        ELSE [open |-> TRUE, at |-> "upsert", last |-> 0]]
  <2>1. PICK members \in FirstOf(due, ids) : \E last \in LastOf(members, ids) :
             batch' = [batch EXCEPT !.phase = "removing",
               !.ops = {[task |-> t, key |-> IF copies[t].owned THEN t ELSE Orphans,
                         calendar |-> copies[t].calendar] : t \in {r \in members : managed(r)}},
               !.tidy = {t \in members : ~managed(t)},
               !.next = IF members # due
                        THEN [open |-> TRUE, at |-> "delete", last |-> last]
                        ELSE [open |-> TRUE, at |-> "upsert", last |-> 0]]
    BY <1>6
  <2>2. PICK last \in LastOf(members, ids) :
             batch' = [batch EXCEPT !.phase = "removing",
               !.ops = {[task |-> t, key |-> IF copies[t].owned THEN t ELSE Orphans,
                         calendar |-> copies[t].calendar] : t \in {r \in members : managed(r)}},
               !.tidy = {t \in members : ~managed(t)},
               !.next = IF members # due
                        THEN [open |-> TRUE, at |-> "delete", last |-> last]
                        ELSE [open |-> TRUE, at |-> "upsert", last |-> 0]]
    BY <2>1
  <2> DEFINE asked == {r \in members : managed(r)}
             ops == {[task |-> t, key |-> IF copies[t].owned THEN t ELSE Orphans,
                      calendar |-> copies[t].calendar] : t \in asked}
             tidy == {t \in members : ~managed(t)}
             next == IF members # due THEN [open |-> TRUE, at |-> "delete", last |-> last]
                     ELSE [open |-> TRUE, at |-> "upsert", last |-> 0]
  <2>3. /\ batch'.phase = "removing" /\ batch'.ops = ops /\ batch'.tidy = tidy
        /\ batch'.next = next /\ batch'.pass = batch.pass /\ batch'.fix = batch.fix
        /\ batch'.todo = batch.todo
    <3> HIDE DEF ops, tidy, next
    <3>1. batch' = [batch EXCEPT !.phase = "removing", !.ops = ops, !.tidy = tidy, !.next = next]
      BY <2>2 DEF ops, tidy, next
    <3> QED
      BY <3>1 DEF Types, RunTypes, Run
  <2>4. /\ members \subseteq due
        /\ \A t \in due \ members : copies[t].id > last
    <3>1. due \in SUBSET TaskId /\ ids \in [TaskId -> TaskId \cup {0}]
      BY CopyFields DEF AfterId, Types
    <3> HIDE DEF due, ids
    <3>2. members \subseteq due /\ \A t \in due \ members : ids[t] > last
      BY <2>1, <2>2, <3>1, MembersTypes
    <3> QED
      BY <3>1, <3>2 DEF ids
  <2>5. \A t \in due : t \in TaskId /\ Copied(t) /\ ~Eligible(t) /\ (copies[t].owned <=> Live(t))
    BY DEF AfterId, Rows, Eligible, Live
  <2>6. Removing' /\ ~Sending' /\ Others' = Others
    BY <2>3 DEF Removing, Sending, Others
  <2>7. /\ next.open /\ (next.at = "upsert" => next.last = 0)
        /\ \A t \in TaskId : Eligible(t) => Treats(next, t)
    BY DEF Treats, TaskId
  <2>8. Positions' /\ Places' /\ Requests'
    <3> HIDE DEF next
    <3> QED
      BY <1>1, <1>3, <2>3, <2>6, <2>7 DEF Positions, Places, Requests, userVars, googleVars
  <2>9. Deletions'
    <3>1. \A o \in ops : /\ Copied(o.task) /\ o.calendar = copies[o.task].calendar
                         /\ o.key = o.task \/ (o.key = Orphans /\ ~Live(o.task))
      BY <2>4, <2>5
    <3>2. \A t \in tidy : Copied(t)
      BY <2>4, <2>5
    <3>3. batch'.phase # "removed"
      BY <2>3
    <3> HIDE DEF ops, tidy
    <3> QED
      BY <1>1, <2>3, <3>1, <3>2, <3>3 DEF Deletions, Copied, Live, userVars
  <2>10. \A t \in members : AsRead(t)'
    <3> SUFFICES ASSUME NEW t \in members PROVE AsRead(t)'
      OBVIOUS
    <3>1. t \in TaskId /\ ~Eligible(t)'
      BY <1>1, <2>4, <2>5, PlanningFacts
    <3>2. t \in tidy \/ \E o \in ops : o.task = t
      <4>1. t \in asked => \E o \in ops : o.task = t
        <5>1. t \in asked => [task |-> t, key |-> IF copies[t].owned THEN t ELSE Orphans,
                              calendar |-> copies[t].calendar] \in ops
          OBVIOUS
        <5> HIDE DEF ops, asked
        <5> QED
          BY <5>1
      <4> QED
        BY <4>1
    <3> HIDE DEF ops, tidy
    <3> QED
      BY <2>3, <2>6, <3>1, <3>2 DEF AsRead
  <2>11. Taken' \subseteq members
    <3>1. {o.task : o \in ops} \subseteq members
      OBVIOUS
    <3>2. batch'.todo = {}
      BY <1>1, <1>3, <2>3 DEF Positions
    <3> HIDE DEF ops
    <3> QED
      BY <2>3, <3>1, <3>2 DEF Taken
  <2>12. ASSUME NEW t \in TaskId, Owed(t)' PROVE Kept(t)'
    <3>1. Treats(Here, t) => Treats(next, t) \/ t \in members
      <4>1. CASE Eligible(t)
        BY <2>7, <4>1
      <4>2. CASE ~Eligible(t) /\ Treats(Here, t) /\ t \notin members
        <5>1. t \in due \ members
          BY <4>2 DEF AfterId, Treats, Here
        <5>2. copies[t].id > last /\ members # due
          BY <2>4, <5>1
        <5> QED
          BY <4>2, <5>2 DEF Treats
      <4> QED
        BY <4>1, <4>2
    <3>2. Handled(t)'
      <4>1. \/ Safe(t)'
            \/ Treats(batch.next, t)' \/ AsRead(t)'
            \/ \E q \in Others' : Treats(passes[q], t)'
        <5> HIDE DEF next
        <5> QED
          BY <1>1, <1>4, <2>3, <2>6, <2>10, <2>12, <3>1, PlanningFacts
      <4> QED
        BY <2>3, <4>1 DEF Handled, ByRun
    <3> QED
      BY <1>4, <2>10, <2>11, <2>12, <3>2 DEF Kept
  <2> QED
    BY <1>2, <2>8, <2>9, <2>12 DEF Owing
<1> QED
  BY <1>5, <1>6 DEF ReadMirrors
-----------------------------------------------------------------------------
(***************************************************************************)
(* A run that goes on as it has read.                                      *)
(***************************************************************************)
SafeStays(t) ==
  /\ Right(t) => Right(t)'
  /\ Queued(t) => Queued(t)'
  /\ Unwanted(t) => Unwanted(t)'

TreatsStay(t) == \A pos : Treats(pos, t) => Treats(pos, t)'

LEMMA GoesOn ==
  ASSUME NEW t \in TaskId, Kept(t), Revising, Revising', SafeStays(t), TreatsStay(t),
         UNCHANGED passes, batch'.next = batch.next, batch'.pass = batch.pass,
         AsRead(t) => AsRead(t)', t \in Taken' => t \in Taken
  PROVE  Kept(t)'
<1>0. Underway /\ batch.phase # "reading" /\ batch'.phase # "reading"
      /\ batch.phase # "broken"
  BY DEF Revising, Underway
<1>1. Safe(t) => Safe(t)'
  BY DEF SafeStays, Safe
<1>2. Carried(t)'
  BY <1>1 DEF Kept, Carried, TreatsStay
<1>3. Handled(t)'
  <2>1. ByRun(t) => ByRun(t)'
    BY <1>0 DEF ByRun, TreatsStay
  <2>2. Others' = Others
    BY DEF Others
  <2> QED
    BY <1>0, <1>1, <2>1, <2>2 DEF Kept, Handled, TreatsStay
<1>4. t \in Taken' => AsRead(t)' \/ Renewed(t)'
  BY DEF Kept, Renewed, SafeStays, Others
<1> QED
  BY <1>2, <1>3, <1>4 DEF Kept

LEMMA JobsStay ==
  ASSUME UNCHANGED <<userVars, jobs>>, NEW t \in TaskId
  PROVE  /\ Queued(t)' <=> Queued(t)
         /\ Unwanted(t)' <=> Unwanted(t)
         /\ Live(t)' <=> Live(t)
         /\ Eligible(t)' <=> Eligible(t)
BY DEF userVars, Live, Eligible, Queued, Unwanted, Swept

(***************************************************************************)
(* An event is deleted that is wanted by now only if somebody else will    *)
(* put it back.                                                            *)
(***************************************************************************)
LEMMA SendDeletesKeeps ==
  ASSUME BInv, SendDeletes
  PROVE  Tables' /\ Owing'
<1> USE DEF BInv, Tables
<1>1. PICK done \in SUBSET batch.ops :
        /\ events' = [t \in TaskId |-> [k \in Calendar |->
             IF \E o \in done : o.task = t /\ o.calendar = k THEN NoEvent ELSE events[t][k]]]
        /\ trace' = [trace EXCEPT !.loose = @ \ {<<o.task, o.calendar>> : o \in done}]
        /\ batch' = [batch EXCEPT !.phase = "removed", !.done = done]
  BY DEF SendDeletes
<1>2. /\ batch.phase = "removing"
      /\ UNCHANGED <<userVars, routes, calendars, copies, jobs, passes, batchSize>>
      /\ UNCHANGED <<userVars, jobs>>
  BY DEF SendDeletes
<1>3. /\ batch'.phase = "removed" /\ batch'.done = done /\ batch'.ops = batch.ops
      /\ batch'.tidy = batch.tidy /\ batch'.next = batch.next /\ batch'.pass = batch.pass
      /\ batch'.fix = batch.fix /\ batch'.todo = batch.todo
  BY <1>1 DEF Types, RunTypes, Run
<1>4. Removing /\ Removing' /\ ~Sending' /\ ~Sending /\ Revising /\ Revising'
  BY <1>2, <1>3 DEF Removing, Sending, Revising
<1>5. \A o \in done : /\ o.task \in TaskId /\ o.calendar \in Calendar
                      /\ o.calendar = copies[o.task].calendar
  BY <1>4, DeletionFields DEF Deletions
<1>6. /\ trace'.loose = trace.loose \ {<<o.task, o.calendar>> : o \in done}
      /\ trace'.missed = trace.missed /\ trace'.covers = trace.covers
  BY <1>1 DEF Types, HistoryTypes, History
<1>7. Positions' /\ Places' /\ Rows' /\ Requests'
  BY <1>2, <1>3, <1>4 DEF Positions, Places, Rows, Requests, Copied, Live, userVars
<1>8. Shows'
  <2>1. ASSUME NEW t \in TaskId, NEW k \in Calendar
        PROVE  /\ \/ <<t, k>> \in trace'.loose
                  \/ events'[t][k] = IF k = copies'[t].calendar THEN copies'[t].payload
                                                                ELSE NoEvent
                  \/ Missing(t, k)'
               /\ calendars'[k] = "deleted" =>
                    (events'[t][k] = NoEvent /\ <<t, k>> \notin trace'.loose)
    <3>1. CASE \E o \in done : o.task = t /\ o.calendar = k
      BY <1>1, <1>2, <1>5, <1>6, <3>1 DEF Missing
    <3>2. CASE ~\E o \in done : o.task = t /\ o.calendar = k
      BY <1>1, <1>2, <1>6, <3>2 DEF Shows, Missing
    <3> QED
      BY <3>1, <3>2
  <2> QED
    BY <2>1 DEF Shows
<1>9. Deletions'
  BY <1>1, <1>2, <1>3, <1>4, <1>5 DEF Deletions, Copied, Live, userVars
<1>10. ASSUME NEW t \in TaskId, Owed(t)' PROVE Kept(t)'
  <2>1. Kept(t)
    BY <1>6, <1>10 DEF Owed, Owing
  <2>2. /\ Taken' = Taken
        /\ TreatsStay(t)
        /\ AsRead(t) => AsRead(t)'
    <3>1. Copied(t)' <=> Copied(t)
      BY <1>2 DEF Copied
    <3>2. TreatsStay(t)
      BY <1>2, <3>1, JobsStay DEF TreatsStay, Treats
    <3>3. AsRead(t) => AsRead(t)'
      BY <1>2, <1>3, <1>4, JobsStay DEF AsRead
    <3> QED
      BY <1>3, <3>2, <3>3 DEF Taken
  <2>3. CASE Right(t) => Right(t)'
    BY <1>2, <1>3, <1>4, <2>1, <2>2, <2>3, JobsStay, GoesOn DEF SafeStays
  <2>4. CASE Right(t) /\ ~Right(t)'
    <3>1. \E o \in done : o.task = t
      <4> SUFFICES ASSUME ~\E o \in done : o.task = t PROVE Aside(t)
        BY <2>4, AsideFacts
      <4> QED
        BY <1>1, <1>2, <1>6 DEF Aside, Beside, RoutesStay, userVars
    <3>2. Copied(t) /\ t \in Taken
      BY <1>4, <3>1 DEF Deletions, Taken
    <3>3. Eligible(t)
      BY <2>4, <3>2 DEF Right, Home, Copied
    <3>4. Renewed(t)
      BY <1>2, <1>4, <2>1, <3>2, <3>3 DEF Kept, AsRead, Removing
    <3>5. CASE Queued(t)
      BY <1>2, <3>5, JobsStay, QueuedKept
    <3>6. CASE \E q \in Others : passes[q] = Opened
      <4>1. GoogleTypes'
        BY RemovalSteps DEF Types
      <4> QED
        BY <1>2, <1>3, <1>7, <3>6, <4>1, OpenedKept DEF Others
    <3> QED
      BY <3>4, <3>5, <3>6 DEF Renewed
  <2> QED
    BY <2>3, <2>4
<1> QED
  BY <1>7, <1>8, <1>9, <1>10 DEF Owing

LEMMA CommitDeletesKeeps ==
  ASSUME BInv, CommitDeletes
  PROVE  Tables' /\ Owing'
<1> USE DEF BInv, Tables
<1> DEFINE dropped == {o.task : o \in batch.done} \cup batch.tidy
           keys == {o.key : o \in Undone}
           left == {<<t, copies[t].calendar>> : t \in {r \in batch.tidy :
                                        events[r][copies[r].calendar] # NoEvent}}
           reading == batch.next.at = "upsert"
<1>1. /\ batch.phase = "removed" /\ Accepted(keys)
      /\ copies' = [t \in TaskId |-> IF t \in dropped THEN NoCopy ELSE copies[t]]
      /\ trace' = [trace EXCEPT !.loose = trace.loose \cup left]
      /\ UNCHANGED <<userVars, routes, googleVars, passes, batchSize, credit>>
  BY DEF CommitDeletes
<1>2. /\ trace'.loose = trace.loose \cup left
      /\ trace'.missed = trace.missed /\ trace'.covers = trace.covers
  <2> HIDE DEF left
  <2> QED
    BY <1>1 DEF Types, HistoryTypes, History
<1>3. jobs'.upserts = jobs.upserts /\ jobs'.deletes = jobs.deletes \cup keys
  BY DEF CommitDeletes, Types, QueueTypes, Jobs
<1>4. Removing /\ Underway
  BY <1>1 DEF Removing, Underway
<1>5. IF reading
      THEN /\ batch'.phase = "reading" /\ batch'.pass = batch.pass /\ batch'.at = "upsert"
           /\ batch'.last = 0 /\ batch'.todo = {} /\ batch'.fix = <<>>
           /\ batch.next.last = 0
      ELSE /\ batch'.phase = "committed" /\ batch'.pass = batch.pass
           /\ batch'.next = batch.next /\ batch'.todo = {} /\ batch'.fix = <<>>
  <2>1. CASE reading
    <3>1. batch' = [NoBatch EXCEPT !.phase = "reading", !.pass = batch.pass, !.at = "upsert"]
      BY <2>1 DEF CommitDeletes
    <3>2. NoBatch \in Run /\ NoBatch.last = 0 /\ NoBatch.todo = {} /\ NoBatch.fix = <<>>
      BY NoBatchType DEF NoBatch
    <3> HIDE DEF NoBatch
    <3>3. /\ batch'.phase = "reading" /\ batch'.pass = batch.pass /\ batch'.at = "upsert"
          /\ batch'.last = 0 /\ batch'.todo = {} /\ batch'.fix = <<>>
      BY <3>1, <3>2 DEF Run
    <3> QED
      BY <1>4, <2>1, <3>3 DEF CommitDeletes, Positions
  <2>2. CASE ~reading
    BY <2>2, CommittedRun DEF CommitDeletes, Types
  <2> QED
    BY <2>1, <2>2
<1>6. ~Removing' /\ ~Sending' /\ ~Revising' /\ batch'.pass = batch.pass
      /\ batch'.phase \notin {"idle", "claimed", "recreated", "routing", "answered", "single"}
  BY <1>5 DEF Removing, Sending, Revising
<1>7. dropped \subseteq Taken /\ dropped \subseteq TaskId /\ Undone \subseteq batch.ops
  <2>1. batch.done \subseteq batch.ops /\ batch.tidy \subseteq TaskId
    BY RunFields DEF Types
  <2>2. \A o \in batch.ops : o.task \in TaskId
    BY <1>4, DeletionFields
  <2> QED
    BY <2>1, <2>2 DEF Taken, Undone
<1> HIDE DEF dropped
<1>8. Positions'
  <2>1. batch.pass \in Pass /\ passes \in [Pass -> Position] /\ batch.next.open
    BY <1>4, RunFields DEF Types, QueueTypes, Positions
  <2>2. batch.phase # "idle"
    BY <1>1
  <2>3. CASE reading
    BY <1>1, <1>5, <1>6, <2>1, <2>2, <2>3 DEF Positions, Ending
  <2>4. CASE ~reading
    BY <1>1, <1>5, <1>6, <2>1, <2>2, <2>4 DEF Positions
  <2> QED
    BY <2>3, <2>4
<1>9. Places' /\ Deletions' /\ Requests'
  <2>1. batch'.fix = <<>> /\ DOMAIN batch'.fix = {}
    BY <1>5
  <2> QED
    BY <1>1, <1>6, <2>1 DEF Places, Deletions, Requests, Sending, userVars
<1>10. \A t \in TaskId : /\ t \in dropped => copies'[t] = NoCopy /\ ~Copied(t)'
                         /\ t \notin dropped => copies'[t] = copies[t] /\ (Copied(t)' <=> Copied(t))
                         /\ Live(t)' <=> Live(t)
                         /\ Eligible(t)' <=> Eligible(t)
  BY <1>1 DEF Copied, NoCopy, Live, Eligible, userVars
<1>11. Rows'
  BY <1>10 DEF Rows
<1>12. \A t \in dropped : events[t][copies[t].calendar] = NoEvent
                            \/ <<t, copies[t].calendar>> \in trace'.loose
  <2>1. \A o \in batch.done : o.calendar = copies[o.task].calendar
                                /\ events[o.task][o.calendar] = NoEvent
    BY <1>1, <1>4, RunFields DEF Deletions, Types
  <2>2. \A t \in batch.tidy : events[t][copies[t].calendar] # NoEvent =>
                                <<t, copies[t].calendar>> \in left
    OBVIOUS
  <2> HIDE DEF left
  <2> QED
    BY <1>2, <2>1, <2>2 DEF dropped
<1>13. Shows'
  <2>1. ASSUME NEW t \in TaskId, NEW k \in Calendar
        PROVE  \/ <<t, k>> \in trace'.loose
               \/ events'[t][k] = IF k = copies'[t].calendar THEN copies'[t].payload
                                                             ELSE NoEvent
               \/ Missing(t, k)'
    <3>1. events' = events
      BY <1>1 DEF googleVars
    <3>2. CASE t \in dropped
      <4>1. k # copies'[t].calendar
        BY <1>10, <3>2, BatchAssumption DEF NoCopy, Calendar
      <4>2. events[t][k] = NoEvent \/ <<t, k>> \in trace'.loose
        BY <1>2, <1>12, <3>2 DEF Shows, Missing
      <4> QED
        BY <3>1, <4>1, <4>2
    <3>3. CASE t \notin dropped
      BY <1>2, <1>10, <3>1, <3>3 DEF Shows, Missing
    <3> QED
      BY <3>2, <3>3
  <2>2. ASSUME NEW t \in TaskId, NEW k \in Calendar, calendars'[k] = "deleted"
        PROVE  events'[t][k] = NoEvent /\ <<t, k>> \notin trace'.loose
    <3>1. events[t][k] = NoEvent /\ <<t, k>> \notin trace.loose
      BY <1>1, <2>2 DEF googleVars, Shows
    <3>2. <<t, k>> \notin left
      BY <3>1
    <3> QED
      BY <1>1, <1>2, <3>1, <3>2 DEF googleVars
  <2> QED
    BY <2>1, <2>2 DEF Shows
<1>14. Swept => Swept'
  BY <1>1, <1>3 DEF Swept, Live, userVars
<1>15. ASSUME NEW t \in TaskId, Owed(t)' PROVE Kept(t)'
  <2>1. Kept(t)
    BY <1>2, <1>15 DEF Owed, Owing
  <2>2. (Queued(t) => Queued(t)') /\ (Unwanted(t) => Unwanted(t)')
    BY <1>3, <1>10, <1>14 DEF Queued, Unwanted
  <2>3. CASE Renewed(t)
    <3>1. CASE Queued(t)
      BY <2>2, <3>1, QueuedKept
    <3>2. CASE \E q \in Others : passes[q] = Opened
      <4>1. GoogleTypes'
        BY RemovalSteps DEF Types
      <4>2. PICK q \in Others : passes[q] = Opened
        BY <3>2
      <4>3. passes'[q] = Opened /\ q # batch'.pass /\ q \in Pass
        BY <1>1, <1>6, <4>2 DEF Others
      <4> QED
        BY <1>11, <4>1, <4>3, OpenedKept
    <3> QED
      BY <2>3, <3>1, <3>2 DEF Renewed
  <2>4. CASE t \in Taken /\ AsRead(t)
    <3>1. ~Eligible(t) /\ (t \in batch.tidy \/ \E o \in batch.ops : o.task = t)
      BY <1>1, <2>4 DEF AsRead
    <3>2. CASE t \in dropped
      <4>1. Right(t)'
        BY <1>10, <3>1, <3>2 DEF Right, Home, Shown, NoCopy
      <4> QED
        BY <1>6, <4>1 DEF Safe, Carried, Kept, Handled
    <3>3. CASE t \notin dropped
      <4>1. PICK o \in Undone : o.task = t
        BY <3>1, <3>3 DEF dropped, Undone
      <4>2. o.key \in jobs'.deletes
        BY <1>3, <4>1
      <4>3. o.key = t \/ (o.key = Orphans /\ ~Live(t))
        BY <1>4, <1>7, <4>1 DEF Deletions
      <4>4. Queued(t)' \/ Unwanted(t)'
        <5>1. CASE Live(t)
          BY <1>10, <3>1, <4>2, <4>3, <5>1 DEF Unwanted
        <5>2. CASE ~Live(t)
          BY <1>10, <4>2, <4>3, <5>2 DEF Queued, Swept
        <5> QED
          BY <5>1, <5>2
      <4> QED
        BY <1>6, <4>4 DEF Safe, Carried, Kept, Handled
    <3> QED
      BY <3>2, <3>3
  <2>5. CASE t \notin Taken
    <3>1. t \notin dropped /\ ~AsRead(t)
      BY <1>1, <1>7, <2>5 DEF AsRead, Taken
    <3>2. \A k \in Calendar : <<t, k>> \in trace'.loose <=> <<t, k>> \in trace.loose
      <4>1. t \notin batch.tidy
        BY <3>1 DEF dropped
      <4>2. \A k \in Calendar : <<t, k>> \notin left
        BY <4>1
      <4> HIDE DEF left
      <4> QED
        BY <1>2, <4>2
    <3>3. Aside(t)
      BY <1>1, <1>10, <3>1, <3>2 DEF Aside, Beside, RoutesStay, userVars, googleVars
    <3>4. Safe(t) => Safe(t)'
      BY <2>2, <3>3, AsideFacts DEF Safe
    <3>5. \A pos : Treats(pos, t) => Treats(pos, t)'
      BY <3>3, AsideFacts
    <3>6. Safe(t) \/ Treats(batch.next, t) \/ \E q \in Others : Treats(passes[q], t)
      BY <1>1, <1>4, <2>1, <3>1 DEF Kept, Handled, ByRun
    <3>7. Carried(t)'
      BY <1>1, <2>1, <3>4, <3>5 DEF Kept, Carried
    <3>8. CASE reading
      <4>1. Treats(batch.next, t) => Treats(Here, t)'
        <5>1. Treats(batch.next, t) => Eligible(t) /\ t > 0
          BY <3>8 DEF Treats, TaskId
        <5> QED
          BY <1>5, <1>10, <3>8, <5>1 DEF Treats, Here
      <4>2. Handled(t)'
        BY <1>1, <1>5, <3>4, <3>5, <3>6, <3>8, <4>1 DEF Handled, ByRun, Others
      <4> QED
        BY <1>6, <3>7, <4>2 DEF Kept
    <3>9. CASE ~reading
      <4>1. Handled(t)'
        BY <1>1, <1>5, <3>4, <3>5, <3>6, <3>9 DEF Handled, ByRun, Others
      <4> QED
        BY <1>6, <3>7, <4>1 DEF Kept
    <3> QED
      BY <3>8, <3>9
  <2> QED
    BY <1>1, <2>1, <2>3, <2>4, <2>5 DEF Kept, Revising
<1> QED
  BY <1>8, <1>9, <1>11, <1>13, <1>15 DEF Owing
-----------------------------------------------------------------------------
(***************************************************************************)
(* A run returns: its pass waits at the next position, or is complete and  *)
(* has made good for what was missed before it began.                      *)
(***************************************************************************)
LEMMA ReturnFacts ==
  ASSUME Types, Positions, NEW next \in Position, ~next.open => next = Closed,
         NEW h \in History, h.missed = trace.missed, h.covers = trace.covers,
         Return(next, h)
  PROVE  /\ batch'.phase = "idle" /\ batch'.fix = <<>> /\ batch' = NoBatch
         /\ ~Removing' /\ ~Sending' /\ ~Revising' /\ ~Underway'
         /\ Positions' /\ Deletions' /\ Requests'
         /\ trace'.loose = h.loose
         /\ \A t \in TaskId : Owed(t)' => Owed(t)
         /\ passes'[batch.pass] = next
         /\ \A q \in Others : passes'[q] = passes[q]
<1>1. /\ batch' = NoBatch /\ batch'.phase = "idle" /\ batch'.fix = <<>> /\ batch'.todo = {}
  BY DEF Return, NoBatch
<1>2. ~Removing' /\ ~Sending' /\ ~Revising' /\ ~Underway'
  BY <1>1 DEF Removing, Sending, Revising, Underway
<1>3. /\ passes'[batch.pass] = next
      /\ \A q \in Others : passes'[q] = passes[q]
  BY RunFields DEF Types, QueueTypes, Return, Others
<1>4. Positions'
  BY <1>1, <1>2, <1>3 DEF Positions, Ending, Others
<1>5. Deletions' /\ Requests'
  BY <1>1, <1>2 DEF Deletions, Requests, Sending
<1>6. /\ trace'.loose = h.loose /\ trace'.covers = trace.covers
      /\ trace'.missed = IF next.open THEN trace.missed
                         ELSE trace.missed \ trace.covers[batch.pass]
  BY DEF Return, History
<1>7. \A t \in TaskId : Owed(t)' => Owed(t)
  <2>1. batch.pass \in Pass
    BY RunFields DEF Types
  <2> QED
    BY <1>6, <2>1 DEF Owed
<1> QED
  BY <1>1, <1>2, <1>3, <1>4, <1>5, <1>6, <1>7

\* What its pass comes to, or another one, or what needs no pass any more.
LEMMA ReturnKept ==
  ASSUME NEW t \in TaskId, ~Underway', ~Revising',
         NEW next, passes'[batch.pass] = next, batch.pass \in Pass,
         \A q \in Others : passes'[q] = passes[q],
         \/ Safe(t)'
         \/ Treats(next, t)'
         \/ \E q \in Others : Treats(passes[q], t)'
  PROVE  Kept(t)'
BY DEF Kept, Carried, Others

LEMMA NoTasksLeftKeeps ==
  ASSUME BInv, NoTasksLeft
  PROVE  Tables' /\ Owing'
<1> USE DEF BInv, Tables
<1>1. /\ batch.phase = "reading" /\ batch.at = "upsert" /\ DueTasks = {}
      /\ Return(Closed, trace)
      /\ UNCHANGED <<userVars, routes, googleVars, copies, jobs, batchSize, credit>>
  BY DEF NoTasksLeft
<1>2. Closed \in Position /\ trace \in History /\ batch.pass \in Pass
  BY PlainTypes, RunFields DEF Types, HistoryTypes
<1>3. /\ batch'.phase = "idle" /\ batch'.fix = <<>> /\ batch' = NoBatch
      /\ ~Removing' /\ ~Sending' /\ ~Revising' /\ ~Underway'
      /\ Positions' /\ Deletions' /\ Requests'
      /\ trace'.loose = trace.loose
      /\ \A t \in TaskId : Owed(t)' => Owed(t)
      /\ passes'[batch.pass] = Closed
      /\ \A q \in Others : passes'[q] = passes[q]
  BY <1>1, <1>2, ReturnFacts
<1>4. Rows' /\ Shows' /\ Places'
  <2>1. DOMAIN batch'.fix = {}
    BY <1>3
  <2> QED
    BY <1>1, <1>3, <2>1 DEF Rows, Live, Copied, Shows, Missing, Places, userVars, googleVars
<1>5. ASSUME NEW t \in TaskId, Owed(t)' PROVE Kept(t)'
  <2>1. Aside(t)
    BY <1>1, <1>3 DEF Aside, Beside, RoutesStay, userVars, googleVars
  <2>2. Kept(t)
    BY <1>3, <1>5 DEF Owing
  <2>3. Safe(t) => Safe(t)'
    BY <1>1, <2>1, AsideFacts, JobsStay DEF Safe
  <2>4. \A pos : Treats(pos, t) => Treats(pos, t)'
    BY <2>1, AsideFacts
  <2>5. ~Treats(Here, t)
    BY <1>1 DEF Treats, Here, DueTasks
  <2>6. Safe(t) \/ \E q \in Others : Treats(passes[q], t)
    BY <1>1, <2>2, <2>5 DEF Kept, Handled, ByRun, Underway
  <2> QED
    BY <1>2, <1>3, <2>3, <2>4, <2>6, ReturnKept
<1> QED
  BY <1>3, <1>4, <1>5 DEF Owing

LEMMA ReadTasksKeeps ==
  ASSUME BInv, ReadTasks
  PROVE  Tables' /\ Owing'
<1> USE DEF BInv, Tables
<1> DEFINE ids == [t \in TaskId |-> t]
<1>1. /\ batch.phase = "reading" /\ batch.at = "upsert"
      /\ UNCHANGED <<userVars, routes, googleVars, copies, jobs, passes, batchSize, credit,
                     trace>>
      /\ UNCHANGED <<userVars, routes, events, copies, jobs, passes, trace>>
  BY DEF ReadTasks, googleVars
<1>2. PICK members \in FirstOf(DueTasks, ids) : \E last \in LastOf(members, ids) :
        batch' = [NoBatch EXCEPT !.phase = "routing", !.pass = batch.pass, !.at = "upsert",
          !.last = batch.last, !.todo = members, !.members = members,
          !.seen = [t \in members |->
            [category |-> scheduled[t].category, payload |-> scheduled[t].payload]],
          !.next = IF members # DueTasks
                   THEN [open |-> TRUE, at |-> "upsert", last |-> last] ELSE Closed]
  BY DEF ReadTasks
<1> DEFINE seen == [t \in members |->
             [category |-> scheduled[t].category, payload |-> scheduled[t].payload]]
           next(last) == IF members # DueTasks
                         THEN [open |-> TRUE, at |-> "upsert", last |-> last] ELSE Closed
<1>3. PICK last \in LastOf(members, ids) :
        batch' = [NoBatch EXCEPT !.phase = "routing", !.pass = batch.pass, !.at = "upsert",
          !.last = batch.last, !.todo = members, !.members = members, !.seen = seen,
          !.next = next(last)]
  BY <1>2
<1>4. /\ batch'.phase = "routing" /\ batch'.pass = batch.pass /\ batch'.todo = members
      /\ batch'.members = members /\ batch'.seen = seen /\ batch'.next = next(last)
      /\ batch'.ops = {} /\ batch'.tidy = {} /\ batch'.expired = FALSE /\ batch'.fix = <<>>
  <2> HIDE DEF seen, next
  <2>1. /\ NoBatch \in Run /\ NoBatch.ops = {} /\ NoBatch.tidy = {}
        /\ NoBatch.expired = FALSE /\ NoBatch.fix = <<>>
    BY NoBatchType DEF NoBatch
  <2> HIDE DEF NoBatch
  <2> QED
    BY <1>3, <2>1 DEF Run
<1>5. /\ members \subseteq DueTasks
      /\ \A t \in DueTasks \ members : t > last
  <2>1. DueTasks \in SUBSET TaskId /\ ids \in [TaskId -> TaskId \cup {0}]
    BY DEF DueTasks
  <2> HIDE DEF ids
  <2>2. members \subseteq DueTasks /\ \A t \in DueTasks \ members : ids[t] > last
    BY <1>2, <1>3, <2>1, MembersTypes
  <2> QED
    BY <2>1, <2>2 DEF ids
<1>6. \A t \in members : t \in TaskId /\ Eligible(t)
  BY <1>5 DEF DueTasks
<1>7. next(last).open \/ next(last) = Closed
  OBVIOUS
<1>8. ~Removing' /\ Sending' /\ Revising' /\ Others' = Others
  BY <1>4 DEF Removing, Sending, Revising, Others
<1>9. DOMAIN seen = members
  OBVIOUS
<1>10. Positions' /\ Places' /\ Rows' /\ Shows' /\ Deletions' /\ Requests'
  <2>1. DOMAIN batch'.fix = {}
    BY <1>4
  <2>2. batch.phase # "idle" /\ batch.pass \in Pass
    BY <1>1, RunFields DEF Types
  <2> HIDE DEF next, seen
  <2>3. Positions'
    BY <1>1, <1>4, <1>7, <1>8, <2>2 DEF Positions
  <2>4. Places' /\ Rows' /\ Shows'
    BY <1>1, <1>4, <2>1 DEF Places, Rows, Shows, Missing, Live, Copied, userVars, googleVars
  <2>5. Deletions' /\ Requests'
    BY <1>4, <1>8, <1>9 DEF Deletions, Requests
  <2> QED
    BY <2>3, <2>4, <2>5
<1>11. \A t \in members : AsRead(t)'
  <2> SUFFICES ASSUME NEW t \in members PROVE AsRead(t)'
    OBVIOUS
  <2>1. t \in TaskId /\ Eligible(t)'
    BY <1>1, <1>6, PlanningFacts
  <2>2. seen[t].category = scheduled[t].category /\ seen[t].payload = scheduled[t].payload
    OBVIOUS
  <2>3. InTodo(t)' /\ SeenAsIs(t)'
    <3> HIDE DEF seen, next
    <3> QED
      BY <1>1, <1>4, <2>1, <2>2 DEF InTodo, SeenAsIs, userVars
  <2> QED
    BY <1>4, <2>3 DEF AsRead
<1>12. Taken' = members
  <2> HIDE DEF seen, next
  <2> QED
    BY <1>4 DEF Taken
<1>13. ASSUME NEW t \in TaskId, Owed(t)' PROVE Kept(t)'
  <2>1. Kept(t)
    BY <1>1, <1>13, PlanningFacts DEF Owing
  <2>2. Treats(Here, t) => Treats(next(last), t) \/ t \in members
    <3> SUFFICES ASSUME Treats(Here, t), t \notin members PROVE Treats(next(last), t)
      OBVIOUS
    <3>1. t \in DueTasks \ members /\ Eligible(t)
      BY <1>1 DEF Treats, Here, DueTasks
    <3>2. t > last /\ members # DueTasks
      BY <1>5, <3>1
    <3> QED
      BY <3>1, <3>2 DEF Treats
  <2>3. \/ Safe(t) \/ Treats(Here, t) \/ \E q \in Others : Treats(passes[q], t)
    BY <1>1, <2>1 DEF Kept, Handled, ByRun, Underway
  <2>4. Handled(t)'
    <3> HIDE DEF next
    <3>1. \/ Safe(t)' \/ Treats(batch.next, t)' \/ AsRead(t)'
          \/ \E q \in Others' : Treats(passes[q], t)'
      BY <1>1, <1>4, <1>8, <1>11, <2>2, <2>3, PlanningFacts
    <3> QED
      BY <1>4, <3>1 DEF Handled, ByRun
  <2>5. Carried(t)'
    BY <1>1, <2>1, PlanningFacts DEF Kept
  <2> QED
    BY <1>11, <1>12, <2>4, <2>5 DEF Kept
<1> QED
  BY <1>10, <1>13 DEF Owing
-----------------------------------------------------------------------------
(***************************************************************************)
(* A task of the batch gets its request, or turns out not to be wanted.    *)
(***************************************************************************)
LEMMA LeaveOutKeeps ==
  ASSUME BInv, RouteTask, NEW t \in Foremost, LeaveOut(t)
  PROVE  Tables' /\ Owing'
<1> USE DEF BInv, Tables
<1>1. /\ batch.phase = "routing"
      /\ UNCHANGED <<routes, calendars>>
      /\ UNCHANGED <<userVars, events, copies, jobs, passes, batchSize, credit, trace>>
      /\ UNCHANGED <<userVars, routes, events, copies, jobs, passes, trace>>
  BY DEF RouteTask, LeaveOut
<1>2. PICK locked \in SUBSET Category :
        batch' = [batch EXCEPT !.todo = @ \ {t}, !.locked = locked]
  BY DEF LeaveOut
<1>3. /\ batch'.phase = batch.phase /\ batch'.pass = batch.pass /\ batch'.ops = batch.ops
      /\ batch'.todo = batch.todo \ {t} /\ batch'.members = batch.members
      /\ batch'.seen = batch.seen /\ batch'.expired = batch.expired
      /\ batch'.done = batch.done /\ batch'.tidy = batch.tidy /\ batch'.fix = batch.fix
      /\ batch'.next = batch.next
  BY <1>2 DEF Types, RunTypes, Run
<1>4. Sending /\ Sending' /\ ~Removing /\ ~Removing' /\ Revising /\ Revising'
  BY <1>1, <1>3 DEF Sending, Removing, Revising
<1>5. Positions' /\ Places' /\ Rows' /\ Shows'
  BY <1>1, <1>3, <1>4 DEF Positions, Places, Rows, Shows, Missing, Live, Copied, userVars
<1>6. Deletions' /\ Requests'
  BY <1>1, <1>3, <1>4 DEF Deletions, Requests, RequestOK
<1>7. ASSUME NEW s \in TaskId, AsRead(s) PROVE AsRead(s)'
  <2>1. InTodo(s) /\ (batch.expired \/ SeenAsIs(s)) => s # t
    <3> SUFFICES ASSUME InTodo(t), batch.expired \/ SeenAsIs(t) PROVE FALSE
      OBVIOUS
    <3>1. KnownRow(t).category = scheduled[t].category
      BY DEF KnownRow, SeenAsIs
    <3> QED
      BY <3>1 DEF LeaveOut, InTodo, Eligible
  <2>2. (Eligible(s)' <=> Eligible(s)) /\ Home(s)' = Home(s)
    BY <1>1, PlanningFacts
  <2>3. \A o : Matches(o, s) => Matches(o, s)'
    BY <1>1, <2>2 DEF Matches, userVars
  <2>4. (InTodo(s) /\ s # t => InTodo(s)') /\ (SeenAsIs(s) => SeenAsIs(s)')
    BY <1>1, <1>3, <2>2 DEF InTodo, SeenAsIs, userVars
  <2> QED
    BY <1>1, <1>3, <1>4, <1>7, <2>1, <2>3, <2>4 DEF AsRead
<1>8. ASSUME NEW s \in TaskId, Owed(s)' PROVE Kept(s)'
  <2>1. Kept(s) /\ SafeStays(s) /\ TreatsStay(s)
    <3>1. SafeStays(s)
      BY <1>1, PlanningFacts, JobsStay DEF SafeStays, Right, userVars
    <3> QED
      BY <1>1, <1>8, <3>1, PlanningFacts DEF Owing, TreatsStay
  <2>2. s \in Taken' => s \in Taken
    BY <1>3 DEF Taken
  <2> QED
    BY <1>1, <1>3, <1>4, <1>7, <2>1, <2>2, GoesOn
<1> QED
  BY <1>5, <1>6, <1>8 DEF Owing

LEMMA AskForKeeps ==
  ASSUME BInv, RouteTask, NEW t \in Foremost, NEW k \in Calendar, AskFor(t, k)
  PROVE  Tables' /\ Owing'
<1> USE DEF BInv, Tables
<1> DEFINE c == KnownRow(t).category
           created == routes[c] = 0
           payload == IF created THEN scheduled[t].payload ELSE KnownRow(t).payload
<1>1. /\ batch.phase = "routing"
      /\ UNCHANGED <<userVars, events, copies, jobs, passes, batchSize, credit, trace>>
      /\ UNCHANGED <<userVars, jobs>>
      /\ t \in batch.todo /\ t \in TaskId /\ payload \in {1, 2}
  BY KnownType, EntryFields DEF RouteTask, Foremost, Types
<1>2. /\ k \in Routed(c) /\ c \in Category
      /\ routes' = [routes EXCEPT ![c] = k]
      /\ calendars' = IF created THEN [calendars EXCEPT ![k] = c] ELSE calendars
      /\ batch' = [[batch EXCEPT !.todo = @ \ {t}] EXCEPT !.ops = @ \cup {Asked(t, k, payload)},
                    !.phase = IF created /\ scheduled[t].state = "gone"
                              THEN "broken" ELSE @,
                    !.expired = @ \/ created,
                    !.locked = IF created THEN {} ELSE @ \cup {c}]
  BY DEF AskFor
<1>3. PICK request \in Request :
      /\ request = Asked(t, k, payload) /\ request.task = t /\ request.calendar = k
      /\ request.payload = payload /\ request.old = copies[t].calendar
      /\ (request.kind = "create") <=> (copies[t].calendar # k)
      /\ (request.kind = "verify") => copies[t].payload = payload
  <2> HIDE DEF payload
  <2>1. Asked(t, k, payload) \in Request
    BY <1>1, AskedType DEF Types
  <2>2. /\ Asked(t, k, payload).task = t /\ Asked(t, k, payload).calendar = k
        /\ Asked(t, k, payload).payload = payload
        /\ Asked(t, k, payload).old = copies[t].calendar
        /\ (Asked(t, k, payload).kind = "create") <=> (copies[t].calendar # k)
        /\ (Asked(t, k, payload).kind = "verify") => copies[t].payload = payload
    BY DEF Asked
  <2> QED
    BY <2>1, <2>2
<1>4. /\ batch'.phase \in {"routing", "broken"}
      /\ batch'.pass = batch.pass /\ batch'.ops = batch.ops \cup {request}
      /\ batch'.todo = batch.todo \ {t} /\ batch'.members = batch.members
      /\ batch'.seen = batch.seen /\ (batch.expired => batch'.expired)
      /\ batch'.done = batch.done /\ batch'.tidy = batch.tidy /\ batch'.fix = batch.fix
      /\ batch'.next = batch.next
  <2>1. PICK phase \in {"routing", "broken"}, expired \in BOOLEAN,
            locked \in {{}, batch.locked \cup {c}} :
          /\ batch' = [[batch EXCEPT !.todo = @ \ {t}] EXCEPT !.ops = @ \cup {request},
                        !.phase = phase, !.expired = expired, !.locked = locked]
          /\ batch.expired => expired
    <3> HIDE DEF c
    <3>1. batch.expired \in BOOLEAN /\ batch.phase = "routing"
      BY <1>1, RunFields DEF Types
    <3> DEFINE phase == IF created /\ scheduled[t].state = "gone" THEN "broken" ELSE "routing"
               expired == batch.expired \/ created
               locked == IF created THEN {} ELSE batch.locked \cup {c}
    <3>2. batch' = [[batch EXCEPT !.todo = @ \ {t}] EXCEPT !.ops = @ \cup {request},
                     !.phase = phase, !.expired = expired, !.locked = locked]
      BY <1>2, <1>3, <3>1 DEF Types, RunTypes, Run
    <3> QED
      BY <3>1, <3>2
  <2> QED
    BY <2>1 DEF Types, RunTypes, Run
<1> HIDE DEF payload
<1>5. Sending /\ Sending' /\ ~Removing /\ ~Removing' /\ Revising /\ Underway /\ Underway'
  BY <1>1, <1>4 DEF Sending, Removing, Revising, Underway
<1>6. /\ routes \in [Category -> Calendar \cup {0}]
      /\ calendars \in [Calendar -> Category \cup {"unused", "deleted"}]
  BY DEF Types, GoogleTypes
<1>7. RoutesStay
  BY <1>2, <1>6 DEF RoutesStay, Routed
<1>8. Positions'
  BY <1>1, <1>4, <1>5 DEF Positions
<1>9. Places' /\ Rows' /\ Deletions'
  <2>1. DOMAIN batch.fix = {} /\ batch.fix = <<>>
    BY <1>1 DEF Places
  <2> QED
    BY <1>1, <1>4, <1>5, <2>1 DEF Places, Rows, Live, Copied, Deletions, userVars
<1>10. Shows'
  <2>1. \A j \in Calendar : calendars'[j] = "deleted" => calendars[j] = "deleted"
    BY <1>2, <1>6, BatchAssumption
  <2> QED
    BY <1>1, <2>1 DEF Shows, Missing
<1>11. Requests'
  <2>1. batch.todo \subseteq batch.members /\ batch.tidy = {}
    BY <1>1, <1>5 DEF Requests
  <2>2. RequestOK(request)'
    BY <1>1, <1>3, <1>4, <2>1 DEF RequestOK
  <2>3. \A o \in batch.ops : RequestOK(o)' /\ o.task # t
    BY <1>1, <1>4, <1>5 DEF Requests, RequestOK
  <2>4. \A o, p \in batch'.ops : o.task = p.task => o = p
    BY <1>3, <1>4, <1>5, <2>3 DEF Requests
  <2>5. ~batch'.expired => DOMAIN batch'.seen = batch'.members
    BY <1>1, <1>4 DEF Requests
  <2> QED
    BY <1>4, <2>1, <2>2, <2>3, <2>4, <2>5 DEF Requests
<1>12. \A s \in TaskId : Aside(s)
  BY <1>1, <1>7 DEF Aside, Beside, userVars
<1>13. \A s \in TaskId : SafeStays(s) /\ TreatsStay(s)
  BY <1>1, <1>12, AsideFacts, JobsStay DEF SafeStays, TreatsStay
<1>14. ASSUME NEW s \in TaskId, AsRead(s), batch'.phase = "routing" PROVE AsRead(s)'
  <2>1. Eligible(s)' <=> Eligible(s)
    BY <1>12, AsideFacts
  <2>2. \A o \in batch.ops : Matches(o, s) => Matches(o, s)'
    <3> SUFFICES ASSUME NEW o \in batch.ops, Matches(o, s) PROVE Matches(o, s)'
      OBVIOUS
    <3>1. o.calendar \in Calendar
      BY <1>5, RequestFields
    <3>2. Eligible(s) /\ scheduled[s].category \in Category /\ Home(s) # 0
      BY <3>1, EntryFields, BatchAssumption DEF Matches, Types, Eligible, Calendar
    <3>3. Home(s)' = Home(s)
      BY <1>1, <1>7, <2>1, <3>2 DEF Home, RoutesStay, userVars
    <3> QED
      BY <1>1, <2>1, <3>3 DEF Matches, userVars
  <2>3. CASE InTodo(s) /\ (batch.expired \/ SeenAsIs(s)) /\ s # t
    BY <1>1, <1>4, <1>14, <2>1, <2>3 DEF AsRead, InTodo, SeenAsIs, userVars
  <2>4. CASE InTodo(s) /\ (batch.expired \/ SeenAsIs(s)) /\ s = t
    <3>1. KnownRow(t).category = scheduled[t].category /\ payload = scheduled[t].payload
      BY <2>4 DEF KnownRow, SeenAsIs, payload
    <3>2. Home(t)' = k
      BY <1>1, <1>2, <1>6, <2>1, <2>4, <3>1 DEF Home, InTodo, userVars
    <3>3. Matches(request, s)'
      BY <1>1, <1>3, <2>1, <2>4, <3>1, <3>2 DEF Matches, InTodo, userVars
    <3> QED
      BY <1>4, <1>14, <3>3 DEF AsRead
  <2>5. CASE \E o \in batch.ops : Matches(o, s)
    BY <1>4, <1>14, <2>2, <2>5 DEF AsRead
  <2> QED
    BY <1>1, <1>14, <2>3, <2>4, <2>5 DEF AsRead, Removing
<1>15. ASSUME NEW s \in TaskId, Owed(s)' PROVE Kept(s)'
  <2>1. Kept(s)
    BY <1>1, <1>15 DEF Owed, Owing
  <2>2. CASE batch'.phase = "routing"
    <3>1. s \in Taken' => s \in Taken
      BY <1>1, <1>3, <1>4 DEF Taken
    <3>2. Revising'
      BY <2>2 DEF Revising
    <3> QED
      BY <1>1, <1>4, <1>5, <1>13, <1>14, <2>1, <2>2, <3>1, <3>2, GoesOn
  <2>3. CASE batch'.phase = "broken"
    <3>1. Carried(s)'
      BY <1>1, <1>12, <1>13, <2>1, AsideCarried DEF SafeStays, Kept
    <3>2. ByRun(s)' /\ ~Revising'
      BY <2>3 DEF ByRun, Revising
    <3> QED
      BY <3>1, <3>2 DEF Kept, Handled
  <2> QED
    BY <1>4, <2>2, <2>3
<1> QED
  BY <1>8, <1>9, <1>10, <1>11, <1>15 DEF Owing

LEMMA SplitKeeps ==
  ASSUME BInv, SplitBatch \/ RefuseBatch
  PROVE  Tables' /\ Owing'
<1> USE DEF BInv, Tables
<1>1. /\ batch.phase = "routing" /\ batch.todo = {} /\ batch' = OneByOne
      /\ UNCHANGED <<userVars, routes, googleVars, copies, jobs, passes, batchSize, trace>>
      /\ UNCHANGED <<userVars, routes, events, copies, jobs, passes, trace>>
  BY DEF SplitBatch, RefuseBatch, googleVars
<1>2. /\ batch'.phase = "single" /\ batch'.todo = batch.members /\ batch'.pass = batch.pass
      /\ batch'.members = batch.members /\ batch'.fix = batch.fix /\ batch'.next = batch.next
  BY <1>1 DEF OneByOne, Types, RunTypes, Run
<1>3. Sending /\ ~Sending' /\ ~Removing /\ ~Removing' /\ Revising /\ ~Revising' /\ Underway
  BY <1>1, <1>2 DEF Sending, Removing, Revising, Underway
<1>4. Positions' /\ Places' /\ Rows' /\ Shows'
  BY <1>1, <1>2, <1>3 DEF Positions, Places, Rows, Shows, Missing, Live, Copied, userVars,
                          googleVars
<1>5. Deletions' /\ Requests'
  BY <1>2, <1>3 DEF Deletions, Requests
<1>6. ASSUME NEW t \in TaskId, Owed(t)' PROVE Kept(t)'
  <2>1. Kept(t) /\ Carried(t)'
    BY <1>1, <1>6, PlanningFacts DEF Owing, Kept
  <2>2. AsRead(t) => AsRead(t)'
    <3> SUFFICES ASSUME NEW o \in batch.ops, Matches(o, t) PROVE AsRead(t)'
      BY <1>1, <1>3 DEF AsRead, InTodo
    <3>1. Eligible(t)' /\ t \in batch.members
      BY <1>1, <1>3, PlanningFacts DEF Matches, Requests, RequestOK
    <3> QED
      BY <1>2, <3>1 DEF AsRead, InTodo
  <2>3. Handled(t)'
    <3>1. Safe(t) \/ AsRead(t) \/ Treats(batch.next, t) \/ \E q \in Others : Treats(passes[q], t)
      BY <1>1, <1>3, <2>1 DEF Kept, Handled, ByRun
    <3> QED
      BY <1>1, <1>2, <2>2, <3>1, PlanningFacts DEF Handled, ByRun, Others
  <2> QED
    BY <1>3, <2>1, <2>3 DEF Kept
<1> QED
  BY <1>4, <1>5, <1>6 DEF Owing
-----------------------------------------------------------------------------
(***************************************************************************)
(* The batch is sent and answered: what Google took is loose until it is   *)
(* recorded, and nothing was taken away.                                   *)
(***************************************************************************)
LEMMA SendBatchKeeps ==
  ASSUME BInv, SendBatch
  PROVE  Tables' /\ Owing'
<1> USE DEF BInv, Tables
<1>1. PICK done \in SUBSET {o \in batch.ops : Answerable(o)} :
       LET sent == {o \in done : o.kind # "verify"}
           shows == {<<o.task, o.calendar>> : o \in sent}
       IN /\ events' = [t \in TaskId |-> [k \in Calendar |->
               IF <<t, k>> \in shows
               THEN (CHOOSE o \in sent : o.task = t).payload ELSE events[t][k]]]
          /\ batch' = [batch EXCEPT !.phase = "answered", !.done = done, !.seen = <<>>,
                         !.expired = FALSE,
                         !.tidy = {o.task : o \in {p \in sent :
                                     p.old \notin {0, p.calendar}}}]
          /\ trace' = [trace EXCEPT !.loose = @ \cup shows]
  BY DEF SendBatch
<1> DEFINE sent == {o \in done : o.kind # "verify"}
           shows == {<<o.task, o.calendar>> : o \in sent}
           tidy == {o.task : o \in {p \in sent : p.old \notin {0, p.calendar}}}
<1>2. /\ batch.phase = "routing" /\ batch.todo = {}
      /\ UNCHANGED <<userVars, routes, calendars, copies, jobs, passes, batchSize>>
      /\ UNCHANGED <<userVars, jobs>>
  BY DEF SendBatch
<1>3. /\ batch'.phase = "answered" /\ batch'.done = done /\ batch'.tidy = tidy
      /\ batch'.ops = batch.ops /\ batch'.todo = batch.todo /\ batch'.pass = batch.pass
      /\ batch'.members = batch.members /\ batch'.fix = batch.fix /\ batch'.next = batch.next
  <2> HIDE DEF tidy
  <2>1. batch' = [batch EXCEPT !.phase = "answered", !.done = done, !.seen = <<>>,
                               !.expired = FALSE, !.tidy = tidy]
    BY <1>1 DEF tidy
  <2> QED
    BY <2>1 DEF Types, RunTypes, Run
<1>4. /\ trace'.loose = trace.loose \cup shows
      /\ trace'.missed = trace.missed /\ trace'.covers = trace.covers
  <2> HIDE DEF shows
  <2>1. trace' = [trace EXCEPT !.loose = trace.loose \cup shows]
    BY <1>1 DEF shows
  <2> QED
    BY <2>1 DEF Types, HistoryTypes, History
<1>5. \A t \in TaskId, k \in Calendar : <<t, k>> \notin shows => events'[t][k] = events[t][k]
  <2> HIDE DEF shows
  <2>1. \A t \in TaskId, k \in Calendar : <<t, k>> \notin shows => events'[t][k] = events[t][k]
    BY <1>1 DEF shows
  <2> QED
    BY <2>1
<1>6. Sending /\ Sending' /\ ~Removing /\ ~Removing' /\ Revising /\ Revising'
  BY <1>2, <1>3 DEF Sending, Removing, Revising
<1>7. /\ done \subseteq batch.ops
      /\ \A o \in done : /\ Answerable(o) /\ RequestOK(o)
                         /\ o.task \in TaskId /\ o.calendar \in Calendar
  BY <1>6, RequestFields DEF Requests
<1>8. \A o \in sent : <<o.task, o.calendar>> \in shows
  OBVIOUS
<1> HIDE DEF shows
<1>9. Positions' /\ Places' /\ Rows' /\ Deletions'
  BY <1>2, <1>3, <1>6 DEF Positions, Places, Rows, Deletions, Live, Copied, userVars
<1>10. Shows'
  <2>1. \A t \in TaskId, k \in Calendar : <<t, k>> \in shows => calendars[k] # "deleted"
    BY <1>7 DEF shows, Answerable
  <2>2. ASSUME NEW t \in TaskId, NEW k \in Calendar
        PROVE  /\ \/ <<t, k>> \in trace'.loose
                  \/ events'[t][k] = IF k = copies'[t].calendar THEN copies'[t].payload
                                                                ELSE NoEvent
                  \/ Missing(t, k)'
               /\ calendars'[k] = "deleted" =>
                    (events'[t][k] = NoEvent /\ <<t, k>> \notin trace'.loose)
    <3>1. CASE <<t, k>> \in shows
      BY <1>2, <1>4, <2>1, <3>1
    <3>2. CASE <<t, k>> \notin shows
      BY <1>2, <1>4, <1>5, <3>2 DEF Shows, Missing
    <3> QED
      BY <3>1, <3>2
  <2> QED
    BY <2>2 DEF Shows
<1>11. Requests'
  <2>1. \A o \in batch.ops : RequestOK(o)'
    BY <1>2, <1>3, <1>6 DEF Requests, RequestOK
  <2>2. \A o \in done : Sent(o)' => AnswerOK(o)'
    <3> SUFFICES ASSUME NEW o \in done, o.kind # "verify" PROVE AnswerOK(o)'
      BY DEF Sent
    <3>1. <<o.task, o.calendar>> \in trace'.loose
      BY <1>4, <1>8
    <3>2. Moved(o)' => o.task \in tidy
      BY DEF Moved
    <3> HIDE DEF tidy
    <3> QED
      BY <1>3, <3>1, <3>2 DEF AnswerOK
  <2>3. \A t \in tidy : \E o \in done : Sent(o)' /\ o.task = t /\ Moved(o)'
    BY <1>3 DEF Sent, Moved
  <2>4. batch'.todo \subseteq batch'.members
    BY <1>2, <1>3
  <2> HIDE DEF tidy
  <2> QED
    BY <1>2, <1>3, <1>6, <2>1, <2>2, <2>3, <2>4 DEF Requests
<1>12. \A t \in TaskId : Shown(t) => Shown(t)'
  <2> SUFFICES ASSUME NEW t \in TaskId, Shown(t), Copied(t) PROVE Shown(t)'
    BY <1>2 DEF Shown, Copied
  <2>1. copies[t].calendar \in Calendar
    BY CopyFields DEF Types, Copied
  <2> QED
    BY <1>2, <1>4, <1>5, <2>1 DEF Shown
<1>13. \A t \in TaskId : /\ Eligible(t)' <=> Eligible(t)
                         /\ Home(t)' = Home(t)
                         /\ Copied(t)' <=> Copied(t)
  BY <1>2 DEF Eligible, Home, Copied, userVars
<1>14. \A o \in done : Outcome(o)'
  <2> SUFFICES ASSUME NEW o \in done PROVE Outcome(o)'
    OBVIOUS
  <2>1. CASE o.kind = "verify"
    <3>1. o.old = copies[o.task].calendar /\ o.old = o.calendar
      BY <1>7, <2>1 DEF RequestOK
    <3>2. events[o.task][o.calendar] # NoEvent
      BY <1>7, <2>1 DEF Answerable
    <3>3. Shown(o.task)
      BY <1>7, <3>1, <3>2 DEF Shown, Shows, Missing
    <3> QED
      BY <1>7, <1>12, <2>1, <3>3 DEF Outcome
  <2>2. CASE o.kind # "verify"
    <3>1. <<o.task, o.calendar>> \in trace'.loose
      BY <1>4, <1>8, <2>2
    <3> QED
      BY <1>3, <2>2, <3>1 DEF Outcome, Sent
  <2> QED
    BY <2>1, <2>2
<1>15. ASSUME NEW t \in TaskId, AsRead(t) PROVE AsRead(t)'
  <2>1. PICK o \in batch.ops : Matches(o, t)
    BY <1>2, <1>6, <1>15 DEF AsRead, InTodo
  <2>2. Matches(o, t)'
    BY <1>2, <1>13, <2>1 DEF Matches, userVars
  <2>3. Outcome(o)'
    BY <1>3, <1>14 DEF Outcome
  <2> QED
    BY <1>3, <2>2, <2>3 DEF AsRead
<1>16. ASSUME NEW t \in TaskId, Owed(t)' PROVE Kept(t)'
  <2>1. Kept(t)
    BY <1>4, <1>16 DEF Owed, Owing
  <2>2. SafeStays(t)
    BY <1>2, <1>12, <1>13, JobsStay DEF SafeStays, Right, userVars
  <2>3. TreatsStay(t)
    BY <1>2, <1>13 DEF TreatsStay, Treats
  <2>4. t \in Taken' => t \in Taken
    <3>1. tidy \subseteq {o.task : o \in batch.ops}
      BY <1>7
    <3> HIDE DEF tidy
    <3> QED
      BY <1>2, <1>3, <3>1 DEF Taken
  <2> HIDE DEF tidy, sent
  <2> QED
    BY <1>2, <1>3, <1>6, <1>15, <2>1, <2>2, <2>3, <2>4, GoesOn
<1> QED
  BY <1>9, <1>10, <1>11, <1>16 DEF Owing

(***************************************************************************)
(* The event in the calendar a task has left goes.  A task that is back in *)
(* that calendar by now is in the hands of somebody else.                  *)
(***************************************************************************)
LEMMA TidyOneKeeps ==
  ASSUME BInv, TidyOne
  PROVE  Tables' /\ Owing'
<1> USE DEF BInv, Tables
<1>1. PICK u \in batch.tidy :
       /\ events' = Drop(events, u, copies[u].calendar)
       /\ trace' = [trace EXCEPT !.loose = @ \ {<<u, copies[u].calendar>>}]
       /\ batch' = [batch EXCEPT !.tidy = @ \ {u}]
  BY DEF TidyOne
<1>2. /\ batch.phase = "answered" /\ u \in TaskId
      /\ UNCHANGED <<userVars, routes, calendars, copies, jobs, passes, batchSize>>
      /\ UNCHANGED <<userVars, jobs>>
  BY RunFields DEF TidyOne, Types
<1>3. /\ batch'.phase = "answered" /\ batch'.tidy = batch.tidy \ {u}
      /\ batch'.ops = batch.ops /\ batch'.done = batch.done
      /\ batch'.todo = batch.todo /\ batch'.pass = batch.pass
      /\ batch'.members = batch.members /\ batch'.fix = batch.fix /\ batch'.next = batch.next
  BY <1>1, <1>2 DEF Types, RunTypes, Run
<1>4. Sending /\ Sending' /\ ~Removing /\ ~Removing' /\ Revising /\ Revising'
  BY <1>2, <1>3 DEF Sending, Removing, Revising
<1>5. PICK o \in batch.done : Sent(o) /\ o.task = u /\ Moved(o)
  BY <1>2 DEF Requests
<1>6. /\ o \in batch.ops /\ o.old = copies[u].calendar /\ o.calendar # o.old
      /\ copies[u].calendar \in Calendar
      /\ \A p \in batch.ops : p.task = u => p = o
  <2>1. o \in batch.ops /\ RequestOK(o)
    BY <1>4, RunFields DEF Requests, Types
  <2>2. copies[u].calendar \in Calendar \cup {0}
    BY <1>2, CopyFields DEF Types
  <2> QED
    BY <1>4, <1>5, <2>1, <2>2 DEF RequestOK, Moved, Requests
<1>7. /\ \A t \in TaskId, k \in Calendar :
           events'[t][k] = IF t = u /\ k = copies[u].calendar THEN NoEvent ELSE events[t][k]
      /\ trace'.loose = trace.loose \ {<<u, copies[u].calendar>>}
      /\ trace'.missed = trace.missed /\ trace'.covers = trace.covers
  <2>1. trace \in History /\ events \in [TaskId -> [Calendar -> 0..3]]
    BY DEF Types, HistoryTypes, GoogleTypes
  <2> QED
    BY <1>1, <1>2, <1>6, <2>1, DropType DEF History
<1>8. Positions' /\ Places' /\ Rows' /\ Deletions'
  BY <1>2, <1>3, <1>4 DEF Positions, Places, Rows, Deletions, Live, Copied, userVars
<1>9. Shows'
  BY <1>2, <1>7 DEF Shows, Missing
<1>10. Requests'
  <2>1. \A p \in batch.ops : RequestOK(p)'
    BY <1>2, <1>3, <1>4 DEF Requests, RequestOK
  <2>2. ASSUME NEW p \in batch.done, Sent(p) PROVE AnswerOK(p)'
    <3>1. /\ AnswerOK(p) /\ RequestOK(p) /\ p.task \in TaskId /\ p.calendar \in Calendar
          /\ p.old \in Calendar \cup {0} /\ p \in batch.ops
      BY <1>2, <1>4, <2>2, RequestFields, RunFields DEF Requests, Types
    <3>2. p.task = u => p = o
      BY <1>6, <3>1
    <3>3. <<p.task, p.calendar>> \in trace'.loose \/ events'[p.task][p.calendar] = NoEvent
      BY <1>6, <1>7, <3>1, <3>2 DEF AnswerOK
    <3>4. Moved(p) => p.task \in batch'.tidy \/ events'[p.task][p.old] = NoEvent
      <4>1. Moved(p) => p.old \in Calendar
        BY <3>1 DEF Moved
      <4> QED
        BY <1>3, <1>6, <1>7, <3>1, <3>2, <4>1 DEF AnswerOK
    <3> QED
      BY <3>3, <3>4 DEF AnswerOK, Moved
  <2>3. \A p : (Sent(p)' <=> Sent(p)) /\ (Moved(p)' <=> Moved(p))
    BY <1>3 DEF Sent, Moved
  <2> QED
    BY <1>2, <1>3, <1>4, <2>1, <2>2, <2>3 DEF Requests
<1>11. \A t \in TaskId : /\ Eligible(t)' <=> Eligible(t)
                         /\ Home(t)' = Home(t)
                         /\ Copied(t)' <=> Copied(t)
                         /\ TreatsStay(t)
  BY <1>2 DEF Eligible, Home, Copied, userVars, TreatsStay, Treats
<1>12. \A t \in TaskId \ {u} : Shown(t) => Shown(t)'
  <2> SUFFICES ASSUME NEW t \in TaskId \ {u}, Shown(t), Copied(t) PROVE Shown(t)'
    BY <1>2 DEF Shown, Copied
  <2>1. copies[t].calendar \in Calendar
    BY CopyFields DEF Types, Copied
  <2> QED
    BY <1>2, <1>7, <2>1 DEF Shown
<1>13. ASSUME NEW t \in TaskId, AsRead(t) PROVE AsRead(t)'
  <2>1. PICK p \in batch.ops : Matches(p, t) /\ Outcome(p)
    BY <1>2, <1>4, <1>13 DEF AsRead
  <2>2. Matches(p, t)'
    BY <1>2, <1>11, <2>1 DEF Matches, userVars
  <2>3. Outcome(p)'
    <3>1. p.task = t /\ p.calendar \in Calendar
      BY <1>4, <2>1, RequestFields DEF Matches
    <3>2. CASE t = u
      BY <1>3, <1>5, <1>6, <1>7, <2>1, <3>1, <3>2 DEF Outcome, Sent
    <3>3. CASE t # u
      BY <1>3, <1>7, <1>12, <2>1, <3>1, <3>3 DEF Outcome, Sent
    <3> QED
      BY <3>2, <3>3
  <2> QED
    BY <1>3, <2>2, <2>3 DEF AsRead
<1>14. ASSUME NEW t \in TaskId, Owed(t)' PROVE Kept(t)'
  <2>1. Kept(t)
    BY <1>7, <1>14 DEF Owed, Owing
  <2>2. CASE Right(t) => Right(t)'
    <3>1. SafeStays(t)
      BY <1>2, <2>2, JobsStay DEF SafeStays
    <3>2. t \in Taken' => t \in Taken
      BY <1>3 DEF Taken
    <3> QED
      BY <1>2, <1>3, <1>4, <1>11, <1>13, <2>1, <3>1, <3>2, GoesOn
  <2>3. CASE Right(t) /\ ~Right(t)'
    <3>1. t = u
      BY <1>2, <1>11, <1>12, <2>3 DEF Right, userVars
    <3>2. ~AsRead(t)
      <4> SUFFICES ASSUME NEW p \in batch.ops, Matches(p, t) PROVE FALSE
        BY <1>2, <1>4 DEF AsRead
      <4>1. p = o
        BY <1>6, <3>1 DEF Matches
      <4> QED
        BY <1>6, <2>3, <3>1, <4>1 DEF Matches, Right
    <3>3. Renewed(t)
      BY <1>4, <2>1, <3>1, <3>2 DEF Kept, Taken
    <3>4. CASE Queued(t)
      BY <1>2, <3>4, JobsStay, QueuedKept
    <3>5. CASE \E q \in Others : passes[q] = Opened
      <4>1. GoogleTypes'
        BY TidyTypes DEF Types
      <4> QED
        BY <1>2, <1>3, <1>8, <3>5, <4>1, OpenedKept DEF Others
    <3> QED
      BY <3>3, <3>4, <3>5 DEF Renewed
  <2> QED
    BY <2>2, <2>3
<1> QED
  BY <1>8, <1>9, <1>10, <1>14 DEF Owing
-----------------------------------------------------------------------------
(***************************************************************************)
(* What was answered is recorded; the rest goes to jobs of its own.        *)
(***************************************************************************)
Landed == {<<o.task, o.calendar>> : o \in
             {p \in Delivered : events[p.task][p.calendar] = p.payload}}

LEMMA CommitRecords ==
  ASSUME Types, CommitBatch
  PROVE  /\ trace'.loose = trace.loose \ Landed
         /\ trace'.missed = trace.missed /\ trace'.covers = trace.covers
<1>1. trace' = [trace EXCEPT !.loose = trace.loose \ Landed]
  BY DEF CommitBatch, Landed, Delivered
<1> QED
  BY <1>1 DEF Types, HistoryTypes, History

\* The row that a task has after the commit, and where it comes from.
LEMMA CommittedRows ==
  ASSUME BInv, CommitBatch, NEW t \in TaskId
  PROVE  /\ t \notin Written => copies'[t] = copies[t]
         /\ t \in Written =>
              /\ copies'[t].calendar = Made(t).calendar
              /\ copies'[t].payload = Made(t).payload /\ Made(t).payload # 0
              /\ Copied(t) => /\ copies'[t].id = copies[t].id
                              /\ copies'[t].owned = copies[t].owned
              /\ ~Copied(t) => /\ copies'[t].id \in FreeId /\ copies'[t].owned = TRUE
                               /\ Live(t)
         /\ \A s \in Written : t \in Written /\ ~Copied(t) /\ ~Copied(s)
                                 /\ copies'[s].id = copies'[t].id => s = t
<1> USE DEF BInv, Tables
<1>1. PICK id \in [{s \in Written : ~Copied(s)} -> FreeId] :
           /\ IsInjective(id)
           /\ copies' = [s \in TaskId |->
                IF s \notin Written THEN copies[s]
                ELSE IF Copied(s)
                THEN [copies[s] EXCEPT !.calendar = Made(s).calendar, !.payload = Made(s).payload]
                ELSE [calendar |-> Made(s).calendar, payload |-> Made(s).payload,
                      owned |-> TRUE, id |-> id[s]]]
  BY CommitFacts
<1>2. batch.phase = "answered" /\ Insertable
  BY DEF CommitBatch
<1>3. ASSUME NEW s \in Written
      PROVE  /\ s \in TaskId /\ Made(s).payload # 0
             /\ Copied(s) => /\ copies'[s].calendar = Made(s).calendar
                             /\ copies'[s].payload = Made(s).payload
                             /\ copies'[s].id = copies[s].id
                             /\ copies'[s].owned = copies[s].owned
             /\ ~Copied(s) => /\ copies'[s].calendar = Made(s).calendar
                              /\ copies'[s].payload = Made(s).payload
                              /\ copies'[s].id = id[s] /\ copies'[s].owned = TRUE
                              /\ Live(s)
  <2>1. s \in TaskId /\ Made(s) \in Delivered /\ Made(s) \in Request /\ Made(s).task = s
        /\ Made(s) \in batch.ops
    BY <1>2, MadeFacts
  <2>2. copies[s] \in Copy
    BY <2>1, CopyFields DEF Types
  <2>3. CASE Copied(s)
    <3> DEFINE made == Made(s)
    <3>1. copies'[s] = [copies[s] EXCEPT !.calendar = made.calendar, !.payload = made.payload]
      BY <1>1, <2>1, <2>3
    <3>2. made.payload # 0
      BY <2>1 DEF Request
    <3> HIDE DEF made
    <3>3. /\ copies'[s].calendar = made.calendar /\ copies'[s].payload = made.payload
          /\ copies'[s].id = copies[s].id /\ copies'[s].owned = copies[s].owned
      BY <2>2, <3>1 DEF Copy
    <3> QED
      BY <2>1, <2>3, <3>2, <3>3 DEF made
  <2>4. CASE ~Copied(s)
    <3>1. Made(s).old = 0 /\ Made(s).kind = "create"
      BY <1>2, <2>1, <2>4, BatchAssumption DEF Requests, RequestOK, Sending, Copied, Request,
                                              Calendar
    <3>2. s \in {o.task : o \in {p \in batch.done : p.kind = "create" /\ p.old = 0}}
      BY <2>1, <3>1 DEF Delivered
    <3>3. s # Orphans
      BY <2>1 DEF TaskId, Orphans
    <3>4. Live(s)
      BY <1>2, <3>2, <3>3 DEF Insertable, Accepted, Live
    <3>5. copies'[s] = [calendar |-> Made(s).calendar, payload |-> Made(s).payload,
                        owned |-> TRUE, id |-> id[s]]
      BY <1>1, <2>1, <2>4
    <3>6. Made(s).payload # 0
      BY <2>1 DEF Request
    <3>7. /\ copies'[s].calendar = Made(s).calendar /\ copies'[s].payload = Made(s).payload
          /\ copies'[s].id = id[s] /\ copies'[s].owned = TRUE
      BY <3>5
    <3> QED
      BY <2>1, <2>4, <3>4, <3>6, <3>7
  <2> QED
    BY <2>1, <2>3, <2>4
<1>4. t \notin Written => copies'[t] = copies[t]
  BY <1>1
<1>5. \A s \in Written : t \in Written /\ ~Copied(t) /\ ~Copied(s)
                           /\ copies'[s].id = copies'[t].id => s = t
  BY <1>1, <1>3 DEF IsInjective
<1>6. t \in Written /\ ~Copied(t) => copies'[t].id \in FreeId
  BY <1>1, <1>3
<1> QED
  BY <1>3, <1>4, <1>5, <1>6

LEMMA CommitBatchKeeps ==
  ASSUME BInv, CommitBatch
  PROVE  Tables' /\ Owing'
<1> USE DEF BInv, Tables
<1>1. /\ batch.phase = "answered" /\ batch.tidy = {} /\ Insertable
      /\ UNCHANGED <<userVars, routes, googleVars, passes, batchSize, credit>>
  BY DEF CommitBatch
<1>2. /\ jobs'.upserts = jobs.upserts \cup {o.task : o \in Undone}
      /\ jobs'.deletes = jobs.deletes
  BY DEF CommitBatch, Types, QueueTypes, Jobs
<1>3. Sending /\ ~Removing /\ Revising /\ Underway
  BY <1>1 DEF Sending, Removing, Revising, Underway
<1>4. batch.next \in Position /\ (~batch.next.open => batch.next = Closed)
      /\ batch.pass \in Pass /\ batch.done \subseteq batch.ops
  BY <1>3, RunFields DEF Types, Positions
<1>5. /\ batch'.phase = "committed" /\ batch'.fix = <<>> /\ batch'.todo = {}
      /\ batch'.pass = batch.pass /\ batch'.next = batch.next
      /\ ~Removing' /\ ~Sending' /\ ~Revising'
      /\ Positions' /\ Deletions' /\ Requests'
      /\ trace'.loose = trace.loose \ Landed
      /\ \A t \in TaskId : Owed(t)' => Owed(t)
  <2>1. /\ batch'.phase = "committed" /\ batch'.fix = <<>> /\ batch'.todo = {}
        /\ batch'.pass = batch.pass /\ batch'.next = batch.next
    BY CommittedRun DEF CommitBatch, Types
  <2>2. ~Removing' /\ ~Sending' /\ ~Revising'
    BY <2>1 DEF Removing, Sending, Revising
  <2>3. Positions' /\ Deletions' /\ Requests'
    BY <1>1, <1>4, <2>1, <2>2 DEF Positions, Deletions, Requests, Sending
  <2> QED
    BY <2>1, <2>2, <2>3, CommitRecords DEF Owed
<1>6. Places'
  <2>1. DOMAIN batch'.fix = {}
    BY <1>5
  <2> QED
    BY <1>1, <1>5, <2>1 DEF Places, userVars
<1>7. ASSUME NEW t \in Written
      PROVE  /\ t \in TaskId /\ Made(t) \in batch.done /\ Sent(Made(t)) /\ Made(t).task = t
             /\ Made(t).calendar \in Calendar /\ RequestOK(Made(t)) /\ AnswerOK(Made(t))
             /\ \A o \in batch.ops : o.task = t => o = Made(t)
  <2>1. t \in TaskId /\ Made(t) \in Delivered /\ Made(t) \in batch.ops
        /\ Made(t) \in Request /\ Made(t).task = t
    BY <1>1, MadeFacts
  <2>2. Made(t) \in batch.done /\ Sent(Made(t))
    BY <2>1 DEF Delivered, Sent
  <2>3. RequestOK(Made(t)) /\ AnswerOK(Made(t))
    BY <1>1, <1>3, <2>1, <2>2 DEF Requests
  <2>4. \A o \in batch.ops : o.task = t => o = Made(t)
    BY <1>3, <2>1 DEF Requests
  <2> QED
    BY <2>1, <2>2, <2>3, <2>4 DEF Request
<1>8. \A t \in TaskId, k \in Calendar : <<t, k>> \in Landed =>
        /\ t \in Written /\ k = Made(t).calendar /\ events[t][k] = Made(t).payload
  <2> SUFFICES ASSUME NEW t \in TaskId, NEW k \in Calendar, <<t, k>> \in Landed
               PROVE  /\ t \in Written /\ k = Made(t).calendar
                      /\ events[t][k] = Made(t).payload
    OBVIOUS
  <2>1. PICK o \in Delivered : /\ events[o.task][o.calendar] = o.payload
                               /\ t = o.task /\ k = o.calendar
    BY DEF Landed
  <2>2. t \in Written /\ o \in batch.ops
    BY <1>4, <2>1 DEF Written, Delivered
  <2> QED
    BY <1>7, <2>1, <2>2
<1>9. Written \subseteq Taken
  BY <1>4 DEF Written, Delivered, Taken
<1>10. \A t \in TaskId : (Live(t)' <=> Live(t)) /\ (Eligible(t)' <=> Eligible(t))
                         /\ Home(t)' = Home(t)
  BY <1>1 DEF Live, Eligible, Home, userVars
<1>11. Rows'
  <2>1. \A t \in TaskId : Copied(t)' <=> (Copied(t) \/ t \in Written)
    <3> SUFFICES ASSUME NEW t \in TaskId PROVE Copied(t)' <=> (Copied(t) \/ t \in Written)
      OBVIOUS
    <3>1. CASE t \in Written
      <4>1. copies'[t].calendar \in Calendar
        BY <1>7, <3>1, CommittedRows
      <4> QED
        BY <3>1, <4>1, BatchAssumption DEF Copied, Calendar
    <3>2. CASE t \notin Written
      BY <3>2, CommittedRows DEF Copied
    <3> QED
      BY <3>1, <3>2
  <2>2. \A t \in TaskId : ~Copied(t)' => copies'[t] = NoCopy
    BY <2>1, CommittedRows DEF Rows
  <2>3. \A t \in TaskId : Copied(t)' =>
          /\ copies'[t].id # 0 /\ copies'[t].payload # 0
          /\ copies'[t].owned <=> Live(t)'
    <3> SUFFICES ASSUME NEW t \in TaskId, Copied(t)'
                 PROVE  /\ copies'[t].id # 0 /\ copies'[t].payload # 0
                        /\ copies'[t].owned <=> Live(t)'
      OBVIOUS
    <3>1. CASE t \notin Written
      BY <1>10, <2>1, <3>1, CommittedRows DEF Rows
    <3>2. CASE t \in Written /\ Copied(t)
      BY <1>10, <3>2, CommittedRows DEF Rows
    <3>3. CASE t \in Written /\ ~Copied(t)
      <4>1. 0 \notin FreeId
        BY DEF FreeId, TaskId
      <4> QED
        BY <1>10, <3>3, <4>1, CommittedRows
    <3> QED
      BY <3>1, <3>2, <3>3
  <2>4. \A s, t \in TaskId : Copied(s)' /\ Copied(t)' /\ copies'[s].id = copies'[t].id => s = t
    <3> SUFFICES ASSUME NEW s \in TaskId, NEW t \in TaskId, Copied(s)', Copied(t)',
                        copies'[s].id = copies'[t].id
                 PROVE  s = t
      OBVIOUS
    <3>1. \A r \in TaskId : Copied(r) => copies'[r].id = copies[r].id
      BY CommittedRows
    <3>2. \A r \in TaskId : ~Copied(r) /\ r \in Written => copies'[r].id \in FreeId
      BY CommittedRows
    <3>3. CASE Copied(s) /\ Copied(t)
      BY <3>1, <3>3 DEF Rows
    <3>4. CASE Copied(s) /\ ~Copied(t)
      BY <2>1, <3>1, <3>2, <3>4 DEF FreeId
    <3>5. CASE ~Copied(s) /\ Copied(t)
      BY <2>1, <3>1, <3>2, <3>5 DEF FreeId
    <3>6. CASE ~Copied(s) /\ ~Copied(t)
      BY <2>1, <3>6, CommittedRows
    <3> QED
      BY <3>3, <3>4, <3>5, <3>6
  <2> QED
    BY <2>2, <2>3, <2>4 DEF Rows
<1>12. Shows'
  <2>1. events' = events /\ calendars' = calendars
    BY <1>1 DEF googleVars
  <2>2. ASSUME NEW t \in TaskId, NEW k \in Calendar
        PROVE  \/ <<t, k>> \in trace'.loose
               \/ events'[t][k] = IF k = copies'[t].calendar THEN copies'[t].payload
                                                             ELSE NoEvent
               \/ Missing(t, k)'
    <3>1. CASE t \notin Written
      <4>1. <<t, k>> \notin Landed /\ copies'[t] = copies[t]
        BY <1>8, <3>1, CommittedRows
      <4> QED
        BY <1>5, <2>1, <4>1 DEF Shows, Missing
    <3>2. CASE t \in Written /\ k = Made(t).calendar
      <4>1. copies'[t].calendar = k /\ copies'[t].payload = Made(t).payload
        BY <3>2, CommittedRows
      <4>2. <<t, k>> \in trace.loose \/ events[t][k] = NoEvent
        BY <1>7, <3>2 DEF AnswerOK
      <4>3. <<t, k>> \in Landed => events[t][k] = Made(t).payload
        BY <1>8
      <4> QED
        BY <1>5, <2>1, <4>1, <4>2, <4>3 DEF Missing
    <3>3. CASE t \in Written /\ k # Made(t).calendar
      <4>1. copies'[t].calendar # k /\ <<t, k>> \notin Landed
        BY <1>8, <3>3, CommittedRows
      <4>2. <<t, k>> \in trace.loose \/ events[t][k] = NoEvent
        <5>1. CASE k # copies[t].calendar
          BY <5>1 DEF Shows, Missing
        <5>2. CASE k = copies[t].calendar
          <6>1. Moved(Made(t)) /\ Made(t).old = k
            BY <1>7, <3>3, <5>2, BatchAssumption DEF RequestOK, Moved, Calendar
          <6> QED
            BY <1>1, <1>7, <3>3, <6>1 DEF AnswerOK
        <5> QED
          BY <5>1, <5>2
      <4> QED
        BY <1>5, <2>1, <4>1, <4>2
    <3> QED
      BY <3>1, <3>2, <3>3
  <2>3. ASSUME NEW t \in TaskId, NEW k \in Calendar, calendars'[k] = "deleted"
        PROVE  events'[t][k] = NoEvent /\ <<t, k>> \notin trace'.loose
    BY <1>5, <2>1, <2>3 DEF Shows
  <2> QED
    BY <2>2, <2>3 DEF Shows
<1>13. ASSUME NEW t \in TaskId, Owed(t)' PROVE Kept(t)'
  <2>1. Kept(t)
    BY <1>5, <1>13 DEF Owing
  <2>2. Swept => Swept'
    BY <1>1, <1>2 DEF Swept, Live, userVars
  <2>3. (Queued(t) => Queued(t)') /\ (Unwanted(t) => Unwanted(t)')
    BY <1>2, <1>10, <2>2 DEF Queued, Unwanted
  <2>4. CASE Renewed(t)
    <3>1. CASE Queued(t)
      BY <2>3, <3>1, QueuedKept
    <3>2. CASE \E q \in Others : passes[q] = Opened
      <4>1. GoogleTypes'
        BY CommitTypes DEF Types
      <4> QED
        BY <1>1, <1>5, <1>11, <3>2, <4>1, OpenedKept DEF Others
    <3> QED
      BY <2>4, <3>1, <3>2 DEF Renewed
  <2>5. CASE AsRead(t)
    <3>1. PICK o \in batch.ops : Matches(o, t) /\ Outcome(o)
      BY <1>1, <1>3, <2>5 DEF AsRead
    <3>2. /\ o.task = t /\ Eligible(t) /\ o.calendar = Home(t)
          /\ o.payload = scheduled[t].payload /\ o.calendar \in Calendar /\ RequestOK(o)
      BY <1>3, <3>1, RequestFields DEF Matches, Requests
    <3>3. CASE o \notin batch.done
      <4>1. t \in jobs'.upserts
        BY <1>2, <3>1, <3>2, <3>3 DEF Undone
      <4>2. Live(t)'
        BY <1>10, <3>2 DEF Eligible, Live
      <4> QED
        BY <4>1, <4>2, QueuedKept DEF Queued
    <3>4. CASE o \in batch.done
      <4>1. Right(t)'
        <5>1. CASE o.kind = "verify" /\ Shown(t)
          <6>1. t \notin Written
            BY <1>7, <3>1, <3>2, <5>1 DEF Sent
          <6>2. copies'[t] = copies[t]
            BY <6>1, CommittedRows
          <6>3. copies[t].calendar = o.calendar /\ copies[t].payload = o.payload
            BY <3>2, <5>1 DEF RequestOK
          <6>4. Shown(t)'
            <7>1. \A k \in Calendar : <<t, k>> \notin Landed
              BY <1>8, <6>1
            <7> QED
              BY <1>1, <1>5, <3>2, <5>1, <6>2, <6>3, <7>1 DEF Shown, Copied, googleVars
          <6> QED
            BY <1>1, <1>10, <3>2, <6>2, <6>3, <6>4, BatchAssumption DEF Right, userVars, Calendar
        <5>2. CASE Sent(o) /\ <<t, o.calendar>> \in trace.loose
          <6>1. t \in Written
            BY <3>2, <5>2 DEF Written, Delivered, Sent
          <6>2. Made(t) = o
            BY <1>7, <3>1, <3>2, <6>1
          <6>3. copies'[t].calendar = o.calendar /\ copies'[t].payload = o.payload
            BY <6>1, <6>2, CommittedRows
          <6>4. Shown(t)'
            <7>1. <<t, o.calendar>> \in Landed => events[t][o.calendar] = o.payload
              BY <1>8, <3>2, <6>2
            <7> QED
              BY <1>1, <1>5, <5>2, <6>3, <7>1 DEF Shown, googleVars
          <6> QED
            BY <1>1, <1>10, <3>2, <6>3, <6>4, BatchAssumption DEF Right, userVars, Calendar
        <5> QED
          BY <3>1, <3>2, <3>4, <5>1, <5>2 DEF Outcome
      <4> QED
        BY <1>5, <4>1 DEF Kept, Carried, Handled, Safe
    <3> QED
      BY <3>3, <3>4
  <2>6. CASE t \notin Taken
    <3>1. t \notin Written /\ ~AsRead(t)
      BY <1>1, <1>3, <1>9, <2>6 DEF AsRead, Matches, Taken
    <3>2. Aside(t)
      <4>1. copies'[t] = copies[t] /\ \A k \in Calendar : <<t, k>> \notin Landed
        BY <1>8, <3>1, CommittedRows
      <4> QED
        BY <1>1, <1>5, <4>1 DEF Aside, Beside, RoutesStay, userVars, googleVars
    <3>3. Safe(t) => Safe(t)'
      BY <2>3, <3>2, AsideFacts DEF Safe
    <3>4. Carried(t)'
      BY <1>1, <2>1, <2>3, <3>2, AsideCarried DEF Kept
    <3>5. Safe(t) \/ Treats(batch.next, t) \/ \E q \in Others : Treats(passes[q], t)
      BY <1>1, <1>3, <2>1, <3>1 DEF Kept, Handled, ByRun
    <3>6. Handled(t)'
      BY <1>1, <1>5, <3>2, <3>3, <3>5, AsideFacts DEF Handled, ByRun, Others
    <3> QED
      BY <1>5, <3>4, <3>6 DEF Kept
  <2> QED
    BY <1>3, <2>1, <2>4, <2>5, <2>6 DEF Kept
<1> QED
  BY <1>5, <1>6, <1>11, <1>12, <1>13 DEF Owing
-----------------------------------------------------------------------------
(***************************************************************************)
(* The batch was refused as such, and its tasks are synced one by one.     *)
(***************************************************************************)
LEMMA SyncSingleKeeps ==
  ASSUME BInv, SyncSingle
  PROVE  Tables' /\ Owing'
<1> USE DEF BInv, Tables
<1>1. PICK u \in Foremost : /\ Live(u) /\ SyncOne(u)
                            /\ batch' = [batch EXCEPT !.todo = @ \ {u}]
  BY DEF SyncSingle, Live
<1>2. /\ batch.phase = "single" /\ u \in TaskId
      /\ UNCHANGED <<userVars, jobs, passes, batchSize, credit>>
      /\ UNCHANGED <<userVars, jobs>>
  BY RunFields DEF SyncSingle, Foremost, Types
<1>3. /\ batch'.phase = "single" /\ batch'.todo = batch.todo \ {u}
      /\ batch'.members = batch.members /\ batch'.pass = batch.pass
      /\ batch'.fix = batch.fix /\ batch'.next = batch.next
  BY <1>1, <1>2 DEF Types, RunTypes, Run
<1>4. ~Sending /\ ~Sending' /\ ~Removing /\ ~Removing' /\ ~Revising /\ ~Revising' /\ Underway
  BY <1>2, <1>3 DEF Sending, Removing, Revising, Underway
<1>5. SyncLeaves(u)
  BY <1>1, <1>2, SyncEffect
<1>6. Positions' /\ Places'
  <2>1. DOMAIN batch.fix = {} /\ batch.fix = <<>>
    BY <1>2 DEF Places
  <2> QED
    BY <1>2, <1>3, <1>4, <2>1 DEF Positions, Ending, Places, userVars
<1>7. Deletions' /\ Requests'
  BY <1>2, <1>3, <1>4 DEF Deletions, Requests, Sending
<1>8. ASSUME NEW t \in TaskId, Owed(t)' PROVE Kept(t)'
  <2>1. Kept(t)
    BY <1>5, <1>8 DEF SyncLeaves, Owing
  <2>2. CASE t = u
    BY <1>4, <1>5, <2>2 DEF SyncLeaves, Kept, Carried, Handled, Safe
  <2>3. CASE t # u
    <3>1. Aside(t)
      BY <1>2, <1>5, <2>3 DEF SyncLeaves, Aside, userVars
    <3>2. Carried(t)' /\ (Safe(t) => Safe(t)')
      BY <1>2, <2>1, <3>1, JobsStay, AsideFacts, AsideCarried DEF Kept, Safe
    <3>3. AsRead(t) => AsRead(t)'
      BY <1>2, <1>3, <1>4, <2>3, <3>1, AsideFacts DEF AsRead, InTodo
    <3>4. Handled(t)'
      <4>1. Safe(t) \/ AsRead(t) \/ Treats(batch.next, t) \/ \E q \in Others : Treats(passes[q], t)
        BY <1>2, <1>4, <2>1 DEF Kept, Handled, ByRun
      <4> QED
        BY <1>2, <1>3, <3>1, <3>2, <3>3, <4>1, AsideFacts DEF Handled, ByRun, Others
    <3> QED
      BY <1>4, <3>2, <3>4 DEF Kept
  <2> QED
    BY <2>2, <2>3
<1> QED
  BY <1>5, <1>6, <1>7, <1>8 DEF SyncLeaves, Owing

\* The position is written, after a commit or after the last single task.
LEMMA FinishBatchKeeps ==
  ASSUME BInv, FinishBatch
  PROVE  Tables' /\ Owing'
<1> USE DEF BInv, Tables
<1>1. /\ Ending /\ batch.todo = {} /\ Return(batch.next, trace)
      /\ UNCHANGED <<userVars, routes, googleVars, copies, jobs, batchSize, credit>>
      /\ UNCHANGED <<userVars, jobs>>
  BY DEF FinishBatch, Ending, Positions, Sending
<1>2. /\ batch.next \in Position /\ (~batch.next.open => batch.next = Closed)
      /\ batch.pass \in Pass /\ trace \in History
  BY <1>1, RunFields DEF Types, HistoryTypes, Positions
<1>3. /\ batch'.phase = "idle" /\ batch'.fix = <<>> /\ batch' = NoBatch
      /\ ~Removing' /\ ~Sending' /\ ~Revising' /\ ~Underway'
      /\ Positions' /\ Deletions' /\ Requests'
      /\ trace'.loose = trace.loose
      /\ \A t \in TaskId : Owed(t)' => Owed(t)
      /\ passes'[batch.pass] = batch.next
      /\ \A q \in Others : passes'[q] = passes[q]
  BY <1>1, <1>2, ReturnFacts
<1>4. Rows' /\ Shows' /\ Places'
  <2>1. DOMAIN batch'.fix = {}
    BY <1>3
  <2> QED
    BY <1>1, <1>3, <2>1 DEF Rows, Live, Copied, Shows, Missing, Places, userVars, googleVars
<1>5. ASSUME NEW t \in TaskId, Owed(t)' PROVE Kept(t)'
  <2>1. Aside(t)
    BY <1>1, <1>3 DEF Aside, Beside, RoutesStay, userVars, googleVars
  <2>2. Safe(t) => Safe(t)'
    BY <1>1, <2>1, AsideFacts, JobsStay DEF Safe
  <2>3. ~AsRead(t)
    BY <1>1 DEF AsRead, InTodo, Removing, Ending
  <2>4. Safe(t) \/ Treats(batch.next, t) \/ \E q \in Others : Treats(passes[q], t)
    BY <1>1, <1>3, <1>5, <2>3 DEF Owing, Kept, Handled, ByRun, Underway, Ending
  <2> QED
    BY <1>2, <1>3, <2>1, <2>2, <2>4, AsideFacts, ReturnKept
<1> QED
  BY <1>3, <1>4, <1>5 DEF Owing

(***************************************************************************)
(* A run that is rolled back leaves its pass where it was; one that is     *)
(* given up is not to make good for anything.                              *)
(***************************************************************************)
LEMMA EndKeeps ==
  ASSUME BInv, RetryBatch \/ PassDies
  PROVE  Tables' /\ Owing'
<1> USE DEF BInv, Tables
<1>1. /\ batch' = NoBatch /\ batch.phase # "idle"
      /\ UNCHANGED <<userVars, routes, googleVars, copies, jobs, batchSize>>
      /\ UNCHANGED <<userVars, jobs>>
      /\ \/ UNCHANGED <<passes, trace>>
         \/ /\ passes' = [passes EXCEPT ![batch.pass] = Closed]
            /\ trace' = Forget(trace, TaskId)
  BY DEF RetryBatch, PassDies
<1>2. /\ batch'.phase = "idle" /\ batch'.fix = <<>> /\ batch'.todo = {}
      /\ DOMAIN batch'.fix = {}
  BY <1>1 DEF NoBatch
<1>3. ~Removing' /\ ~Sending' /\ ~Underway' /\ ~Revising'
  BY <1>2 DEF Removing, Sending, Underway, Revising
<1>4. Positions'
  BY <1>1, <1>2, <1>3 DEF Positions, Ending, Types, QueueTypes
<1>5. trace'.loose = trace.loose
  BY <1>1, ForgetFacts DEF Types
<1>6. Places' /\ Rows' /\ Shows' /\ Deletions' /\ Requests'
  <2>1. Places' /\ Rows' /\ Shows'
    BY <1>1, <1>2, <1>5 DEF Places, Rows, Shows, Missing, Live, Copied, userVars, googleVars
  <2>2. Deletions' /\ Requests'
    BY <1>2, <1>3 DEF Deletions, Requests, Sending
  <2> QED
    BY <2>1, <2>2
<1>7. ASSUME NEW t \in TaskId, Owed(t)' PROVE Kept(t)'
  <2>1. UNCHANGED <<passes, trace>>
    BY <1>1, <1>7, ForgetFacts DEF Types
  <2>2. Aside(t)
    BY <1>1, <2>1 DEF Aside, Beside, RoutesStay, userVars, googleVars
  <2>3. Carried(t)
    BY <1>7, <2>1, SameHistory DEF Owing, Kept
  <2>4. Carried(t)'
    BY <1>1, <2>1, <2>2, <2>3, JobsStay, AsideCarried
  <2> QED
    BY <1>3, <2>4 DEF Kept
<1> QED
  BY <1>4, <1>6, <1>7 DEF Owing

LEMMA RunKeeps ==
  ASSUME BInv, BatchStep
  PROVE  BInv'
<1>1. Types'
  BY StepTypes DEF BInv, Tables, BatchNext
<1>2. ASSUME RouteTask PROVE Tables' /\ Owing'
  BY <1>2, RouteCases, LeaveOutKeeps, AskForKeeps DEF BInv, Tables
<1>3. Tables' /\ Owing'
  BY <1>2, RecreateKeeps, CommitCalendarsKeeps, ReadMirrorsKeeps, SendDeletesKeeps,
     CommitDeletesKeeps, ReadTasksKeeps, NoTasksLeftKeeps, SplitKeeps, SendBatchKeeps,
     TidyOneKeeps, CommitBatchKeeps, SyncSingleKeeps, FinishBatchKeeps, EndKeeps DEF BatchStep
<1> QED
  BY <1>1, <1>3 DEF BInv
-----------------------------------------------------------------------------
(***************************************************************************)
(* The invariant holds at first, and every step keeps it.                  *)
(***************************************************************************)
LEMMA InitTypes == BatchInit => Types
<1> SUFFICES ASSUME BatchInit PROVE Types
  OBVIOUS
<1>1. /\ categories = [c \in Category |-> "synced"]
      /\ scheduled \in [TaskId -> [state: {"live"}, active: {TRUE}, category: Category,
                                   payload: {1}]]
      /\ jobs = [upserts |-> {}, deletes |-> {}] /\ batch = NoBatch
      /\ batchSize \in BatchSizes
      /\ trace = [missed |-> {}, covers |-> [p \in Pass |-> {}], loose |-> {}]
  BY DEF BatchInit
<1>2. PICK mirrored \in BOOLEAN, calendarOf \in [Category -> Calendar] :
       /\ routes = [c \in Category |-> IF mirrored THEN calendarOf[c] ELSE 0]
       /\ calendars = [k \in Calendar |->
            IF mirrored /\ \E c \in Category : calendarOf[c] = k
            THEN CHOOSE c \in Category : calendarOf[c] = k ELSE "unused"]
       /\ events = [t \in TaskId |-> [k \in Calendar |->
            IF mirrored /\ calendarOf[scheduled[t].category] = k THEN 1 ELSE NoEvent]]
       /\ copies = [t \in TaskId |->
            IF mirrored THEN [calendar |-> calendarOf[scheduled[t].category],
                              payload |-> 1, owned |-> TRUE, id |-> t]
            ELSE NoCopy]
       /\ passes = [p \in Pass |-> IF p = "manual" /\ ~mirrored THEN Opened ELSE Closed]
  BY DEF BatchInit
<1>3. TaskTypes
  <2>1. \A t \in TaskId : scheduled[t] \in Entry
    BY <1>1 DEF Entry
  <2> QED
    BY <1>1, <2>1 DEF TaskTypes
<1>4. GoogleTypes
  <2>1. \A t \in TaskId : scheduled[t].category \in Category
    BY <1>1
  <2>2. copies \in [TaskId -> Copy]
    <3>1. \A t \in TaskId : copies[t] \in Copy
      BY <1>2, <2>1, PlainTypes DEF Copy
    <3> QED
      BY <1>2, <3>1
  <2>3. calendars \in [Calendar -> Category \cup {"unused", "deleted"}]
    BY <1>2
  <2>4. routes \in [Category -> Calendar \cup {0}]
    BY <1>2
  <2>5. events \in [TaskId -> [Calendar -> 0..3]]
    BY <1>2 DEF NoEvent
  <2> QED
    BY <2>2, <2>3, <2>4, <2>5 DEF GoogleTypes
<1>5. QueueTypes
  BY <1>1, <1>2, PlainTypes DEF QueueTypes, Jobs
<1>6. HistoryTypes
  BY <1>1 DEF HistoryTypes, History
<1>7. RunTypes
  BY <1>1, NoBatchType DEF RunTypes
<1> QED
  BY <1>3, <1>4, <1>5, <1>6, <1>7 DEF Types

LEMMA BatchBegins == BatchInit => BInv
<1> SUFFICES ASSUME BatchInit PROVE BInv
  OBVIOUS
<1>0. Types
  BY InitTypes
<1>1. /\ categories = [c \in Category |-> "synced"]
      /\ scheduled \in [TaskId -> [state: {"live"}, active: {TRUE}, category: Category,
                                   payload: {1}]]
      /\ batch.phase = "idle" /\ batch.fix = <<>> /\ batch = NoBatch /\ batch.todo = {}
      /\ trace.loose = {}
  BY DEF BatchInit, NoBatch
<1>2. PICK mirrored \in BOOLEAN, calendarOf \in [Category -> Calendar] :
       /\ routes = [c \in Category |-> IF mirrored THEN calendarOf[c] ELSE 0]
       /\ calendars = [k \in Calendar |->
            IF mirrored /\ \E c \in Category : calendarOf[c] = k
            THEN CHOOSE c \in Category : calendarOf[c] = k ELSE "unused"]
       /\ events = [t \in TaskId |-> [k \in Calendar |->
            IF mirrored /\ calendarOf[scheduled[t].category] = k THEN 1 ELSE NoEvent]]
       /\ copies = [t \in TaskId |->
            IF mirrored THEN [calendar |-> calendarOf[scheduled[t].category],
                              payload |-> 1, owned |-> TRUE, id |-> t]
            ELSE NoCopy]
       /\ passes = [p \in Pass |-> IF p = "manual" /\ ~mirrored THEN Opened ELSE Closed]
  BY DEF BatchInit
<1>3. ~Removing /\ ~Sending /\ ~Underway /\ ~Revising
  BY <1>1 DEF Removing, Sending, Underway, Revising
<1>4. 0 \notin Calendar /\ 0 \notin TaskId /\ "deleted" \notin Category
  BY BatchAssumption DEF Calendar, TaskId
<1>5. \A t \in TaskId :
        /\ Live(t) /\ Eligible(t) /\ scheduled[t].payload = 1
        /\ scheduled[t].category \in Category
        /\ calendarOf[scheduled[t].category] \in Calendar
        /\ Copied(t) <=> mirrored
        /\ mirrored => /\ copies[t].calendar = calendarOf[scheduled[t].category]
                       /\ copies[t].payload = 1 /\ copies[t].owned = TRUE /\ copies[t].id = t
        /\ ~mirrored => copies[t] = NoCopy /\ copies[t].calendar = 0
  <2> SUFFICES ASSUME NEW t \in TaskId
               PROVE  /\ Live(t) /\ Eligible(t) /\ scheduled[t].payload = 1
                      /\ scheduled[t].category \in Category
                      /\ calendarOf[scheduled[t].category] \in Calendar
                      /\ Copied(t) <=> mirrored
                      /\ mirrored => /\ copies[t].calendar = calendarOf[scheduled[t].category]
                                     /\ copies[t].payload = 1 /\ copies[t].owned = TRUE
                                     /\ copies[t].id = t
                      /\ ~mirrored => copies[t] = NoCopy /\ copies[t].calendar = 0
    OBVIOUS
  <2>1. /\ scheduled[t].state = "live" /\ scheduled[t].active = TRUE
        /\ scheduled[t].payload = 1 /\ scheduled[t].category \in Category
    BY <1>1
  <2>2. Live(t) /\ Eligible(t)
    BY <1>1, <2>1, BatchAssumption DEF Live, Eligible
  <2> QED
    BY <1>2, <1>4, <2>1, <2>2 DEF Copied, NoCopy
<1>6. Positions
  BY <1>1, <1>2, <1>3 DEF Positions, Ending, Opened
<1>7. Rows
  BY <1>4, <1>5 DEF Rows
<1>8. Places
  <2>1. DOMAIN batch.fix = {}
    BY <1>1
  <2> QED
    BY <1>1, <1>5, <2>1 DEF Places
<1>9. Shows
  <2>1. \A t \in TaskId, k \in Calendar :
          events[t][k] = IF k = copies[t].calendar THEN copies[t].payload ELSE NoEvent
    BY <1>2, <1>4, <1>5
  <2>2. \A k \in Calendar : calendars[k] # "deleted"
    BY <1>2, <1>4
  <2> QED
    BY <2>1, <2>2 DEF Shows
<1>10. Deletions /\ Requests
  BY <1>1, <1>3 DEF Deletions, Requests, Sending
<1>11. ASSUME NEW t \in TaskId PROVE Carried(t)
  <2>1. CASE mirrored
    <3>1. Home(t) = copies[t].calendar /\ Home(t) # 0
      BY <1>2, <1>4, <1>5, <2>1 DEF Home
    <3>2. Shown(t)
      BY <1>2, <1>5, <2>1 DEF Shown
    <3> QED
      BY <1>5, <2>1, <3>1, <3>2 DEF Right, Safe, Carried
  <2>2. CASE ~mirrored
    <3>1. passes["manual"] = Opened
      BY <1>2, <2>2 DEF Pass
    <3> QED
      BY <1>5, <3>1 DEF Treats, Opened, Pass, Carried
  <2> QED
    BY <2>1, <2>2
<1>12. Owing
  BY <1>3, <1>11 DEF Owing, Kept
<1> QED
  BY <1>0, <1>6, <1>7, <1>8, <1>9, <1>10, <1>12 DEF BInv, Tables

LEMMA BatchKeeps == BInv /\ [BatchNext]_batchVars => BInv'
<1> SUFFICES ASSUME BInv, [BatchNext]_batchVars PROVE BInv'
  OBVIOUS
<1>1. CASE UNCHANGED batchVars
  <2>1. Types'
    BY <1>1, StepTypes DEF BInv, Tables
  <2>2. /\ UNCHANGED <<userVars, routes, events, copies, jobs, passes, trace>>
        /\ UNCHANGED <<calendars, batch>>
    BY <1>1 DEF batchVars, userVars
  <2>3. Tables'
    <3>1. Positions'
      BY <2>2, GrowPositions DEF BInv, Tables, PassesGrow
    <3>2. Rows' /\ Places' /\ Shows'
      BY <2>2 DEF BInv, Tables, Rows, Places, Shows, Missing, Live, Copied, userVars
    <3>3. Deletions' /\ Requests'
      BY <2>2, RunStays DEF BInv, Tables, MirrorsStay, EventsFade, Live, userVars
    <3> QED
      BY <3>1, <3>2, <3>3 DEF Tables
  <2>4. ASSUME NEW t \in TaskId, Owed(t)' PROVE Kept(t)'
    <3>1. Alike(t)
      BY <2>2, PlanningFacts DEF Alike, BInv, userVars
    <3>2. JobsGrow /\ PassesGrow
      BY <2>2 DEF JobsGrow, PassesGrow, Live, userVars
    <3>3. Kept(t)
      BY <2>2, <2>4, SameHistory DEF BInv, Owing
    <3> QED
      BY <2>2, <3>1, <3>2, <3>3, AlikeKept DEF BInv
  <2> QED
    BY <2>1, <2>3, <2>4 DEF BInv, Owing
<1> QED
  BY <1>1, RunKeeps, JobsKeep, UserKeeps DEF BatchNext

THEOREM BatchInvariant == BatchSpec => []BInv
<1>1. BInv /\ [BatchNext]_batchVars => BInv'
  BY BatchKeeps
<1> QED
  BY BatchBegins, <1>1, PTL DEF BatchSpec

(***************************************************************************)
(* The tables, the progress of the jobs and the run under way keep their   *)
(* types.                                                                  *)
(***************************************************************************)
THEOREM BatchTypes == BatchSpec => []BatchTypeOK
<1>1. BInv => BatchTypeOK
  BY Promised DEF BInv
<1> QED
  BY BatchInvariant, <1>1, PTL

(***************************************************************************)
(* When all jobs are over, Google shows every task that is owed a mirror   *)
(* as it is, in the calendar of its category and in no other.              *)
(***************************************************************************)
LEMMA NothingCarried ==
  ASSUME BInv, batch.phase = "idle", \A p \in Pass : ~passes[p].open,
         jobs.upserts = {}, jobs.deletes = {}, NEW t \in TaskId \ trace.missed
  PROVE  Right(t)
<1>1. Carried(t)
  BY DEF BInv, Owing, Owed, Kept
<1>2. ~Queued(t) /\ ~Unwanted(t)
  BY DEF Queued, Unwanted, Swept
<1>3. \A q \in Pass : ~Treats(passes[q], t)
  BY DEF Treats
<1> QED
  BY <1>1, <1>2, <1>3 DEF Carried, Safe

THEOREM PassesRepair == BatchSpec => []Repaired
<1>1. BInv => Repaired
  <2> SUFFICES ASSUME BInv, batch.phase = "idle", \A p \in Pass : ~passes[p].open,
                      jobs.upserts = {}, jobs.deletes = {}, NEW t \in TaskId \ trace.missed
               PROVE  /\ Eligible(t) => Home(t) # 0 /\ copies[t].payload = scheduled[t].payload
                      /\ copies[t].calendar = Home(t)
                      /\ \A j \in Calendar :
                           \/ <<t, j>> \in trace.loose
                           \/ events[t][j] = IF j = Home(t) THEN scheduled[t].payload
                                                            ELSE NoEvent
    BY DEF Repaired, Home
  <2>1. Right(t)
    BY NothingCarried
  <2>2. ASSUME NEW j \in Calendar, <<t, j>> \notin trace.loose
        PROVE  events[t][j] = IF j = Home(t) THEN scheduled[t].payload ELSE NoEvent
    <3>1. j = Home(t) => Copied(t) /\ Eligible(t)
      BY <2>1, BatchAssumption DEF Right, Home, Copied, Calendar
    <3> QED
      BY <2>1, <2>2, <3>1 DEF BInv, Tables, Shows, Missing, Right, Shown
  <2> QED
    BY <2>1, <2>2 DEF Right
<1> QED
  BY BatchInvariant, <1>1, PTL
-----------------------------------------------------------------------------
(***************************************************************************)
(* An event that is wanted is taken away.                                  *)
(***************************************************************************)
Lost(t) == /\ Due(t)
           /\ events[t][Home(t)] # NoEvent /\ events'[t][Home(t)] = NoEvent

Restored(t) == \/ t \in jobs'.upserts \cup trace'.missed
               \/ \E p \in Pass : passes'[p] = Opened

LEMMA LostFacts ==
  ASSUME BInv, NEW t \in TaskId, Lost(t)
  PROVE  /\ Eligible(t) /\ Live(t) /\ scheduled[t].category \in Category
         /\ Home(t) = routes[scheduled[t].category] /\ Home(t) \in Calendar
<1>1. Eligible(t) /\ Live(t)
  BY DEF Lost, Due, Eligible, Live
<1>2. scheduled[t].category \in Category
  BY <1>1, EntryFields DEF BInv, Types, Eligible
<1> QED
  BY <1>1, <1>2 DEF Lost, Due, Home, BInv, Types, GoogleTypes

LEMMA LostSynced ==
  ASSUME BInv, NEW t \in TaskId, NEW u \in TaskId, SyncOne(u), Lost(t), Live(u),
         UNCHANGED userVars
  PROVE  FALSE
<1>1. /\ Eligible(t) /\ scheduled[t].category \in Category
      /\ Home(t) = routes[scheduled[t].category] /\ Home(t) \in Calendar
  BY LostFacts
<1>2. t = u
  BY <1>1, SyncEffect DEF SyncLeaves, Beside, Lost
<1>3. PICK k \in Routed(scheduled[t].category) : Put(t, k)
  BY <1>1, <1>2 DEF SyncOne
<1>4. k = Home(t)
  BY <1>1, <1>3, BatchAssumption DEF Routed, Calendar
<1>5. events'[t][k] = scheduled[t].payload
  <2>1. Types
    BY DEF BInv
  <2>3. k \in Calendar /\ Eligible(t)
    BY <1>1, <1>4
  <2>2. PutLeaves(t, k)
    BY <1>3, <2>1, <2>3, PutEffect
  <2> QED
    BY <2>2, <2>3 DEF PutLeaves
<1> QED
  BY <1>4, <1>5, EntryFields DEF Lost, NoEvent, BInv, Types

\* A job without its task, or a deletion that the task has outlived.
LEMMA LostByJob ==
  ASSUME BInv, NEW t \in TaskId, NEW d \in TaskId \cup {Orphans}, RunDelete(d), Lost(t)
  PROVE  Restored(t)
<1> DEFINE live == d # Orphans /\ scheduled[d].state = "live"
           ts == {s \in TaskId : Copied(s) /\ (IF live THEN s = d ELSE ~copies[s].owned)}
           fresh == {s \in ts : Eligible(s)}
<1>1. Withdraw(ts, Forget(trace, fresh)) \/ UNCHANGED googleVars
  BY DEF RunDelete
<1>2. Eligible(t) /\ Home(t) \in Calendar /\ UNCHANGED userVars
  BY LostFacts DEF RunDelete
<1>3. Withdraw(ts, Forget(trace, fresh))
  BY <1>1 DEF Lost, googleVars
<1>4. /\ Forget(trace, fresh) \in History /\ Forget(trace, fresh).loose = trace.loose
      /\ Forget(trace, fresh).missed = trace.missed \cup fresh
  <2>1. trace \in History /\ fresh \in SUBSET TaskId
    BY DEF BInv, Types, HistoryTypes
  <2> HIDE DEF fresh
  <2> QED
    BY <2>1, ForgetType DEF Forget, History
<1>5. /\ \A s \in TaskId : IF s \in ts THEN ~Copied(s)' ELSE Beside(s)
      /\ trace'.missed = trace.missed \cup fresh
  <2>1. ts \in SUBSET TaskId
    OBVIOUS
  <2> HIDE DEF ts, fresh
  <2> QED
    BY <1>2, <1>3, <1>4, <2>1, WithdrawKeeps
<1>6. t \in ts
  <2> HIDE DEF ts, fresh
  <2> QED
    BY <1>2, <1>5 DEF Beside, Lost
<1> QED
  BY <1>2, <1>5, <1>6 DEF Restored

LEMMA LostByRun ==
  ASSUME BInv, NEW t \in TaskId, SendDeletes \/ TidyOne, Lost(t)
  PROVE  Restored(t)
<1> USE DEF BInv, Tables
<1>1. /\ Eligible(t) /\ Live(t) /\ Home(t) \in Calendar
      /\ Revising /\ UNCHANGED <<jobs, passes>>
  BY LostFacts DEF SendDeletes, TidyOne, Revising
<1>2. trace'.missed = trace.missed
  BY DEF SendDeletes, TidyOne, Types, HistoryTypes, History
<1>3. t \in Taken /\ ~AsRead(t)
  <2>1. CASE SendDeletes
    <3>1. PICK done \in SUBSET batch.ops :
            events' = [s \in TaskId |-> [k \in Calendar |->
              IF \E o \in done : o.task = s /\ o.calendar = k THEN NoEvent ELSE events[s][k]]]
      BY <2>1 DEF SendDeletes
    <3>2. \E o \in batch.ops : o.task = t
      BY <1>1, <3>1 DEF Lost
    <3>3. batch.phase = "removing"
      BY <2>1 DEF SendDeletes
    <3> QED
      BY <1>1, <3>2, <3>3 DEF Taken, AsRead
  <2>2. CASE TidyOne
    <3>1. PICK u \in batch.tidy : events' = Drop(events, u, copies[u].calendar)
      BY <2>2 DEF TidyOne
    <3>2. batch.phase = "answered" /\ u \in TaskId /\ Sending /\ ~Removing
      BY <2>2, RunFields DEF TidyOne, Types, Sending, Removing
    <3>3. \A s \in TaskId, k \in Calendar :
            events'[s][k] = IF s = u /\ k = copies[u].calendar THEN NoEvent ELSE events[s][k]
      <4>1. events \in [TaskId -> [Calendar -> 0..3]] /\ copies[u].calendar \in Calendar \cup {0}
        BY <3>2, CopyFields DEF Types, GoogleTypes
      <4> QED
        BY <3>1, <3>2, <4>1, DropType
    <3>4. t = u /\ Home(t) = copies[t].calendar
      BY <1>1, <3>3 DEF Lost
    <3>5. PICK o \in batch.done : o.task = t /\ Moved(o)
      BY <3>2, <3>4 DEF Requests
    <3>6. /\ o \in batch.ops /\ o.calendar # Home(t)
          /\ \A p \in batch.ops : p.task = t => p = o
      <4>1. o \in batch.ops
        BY RunFields DEF Types
      <4> QED
        BY <3>2, <3>4, <3>5, <4>1 DEF Requests, RequestOK, Moved
    <3>7. ~AsRead(t)
      BY <3>2, <3>6 DEF AsRead, Matches
    <3> QED
      BY <3>4, <3>7 DEF Taken
  <2> QED
    BY <2>1, <2>2
<1>4. CASE t \in trace.missed
  BY <1>2, <1>4 DEF Restored
<1>5. CASE t \notin trace.missed
  <2>1. Renewed(t)
    BY <1>1, <1>3, <1>5 DEF Owing, Owed, Kept
  <2> QED
    BY <1>1, <2>1 DEF Renewed, Queued, Restored, Others
<1> QED
  BY <1>4, <1>5

LEMMA LostBySending ==
  ASSUME BInv, NEW t \in TaskId, SendBatch, Lost(t)
  PROVE  FALSE
<1>1. Home(t) \in Calendar
  BY LostFacts
<1>2. PICK done \in SUBSET {o \in batch.ops : Answerable(o)} :
       LET sent == {o \in done : o.kind # "verify"}
           shows == {<<o.task, o.calendar>> : o \in sent}
       IN events' = [s \in TaskId |-> [k \in Calendar |->
               IF <<s, k>> \in shows
               THEN (CHOOSE o \in sent : o.task = s).payload ELSE events[s][k]]]
  BY DEF SendBatch
<1> DEFINE sent == {o \in done : o.kind # "verify"}
           shows == {<<o.task, o.calendar>> : o \in sent}
           chosen == CHOOSE o \in sent : o.task = t
<1>3. events'[t][Home(t)] = IF <<t, Home(t)>> \in shows THEN chosen.payload
                            ELSE events[t][Home(t)]
  <2> HIDE DEF shows, sent
  <2> QED
    BY <1>1, <1>2 DEF shows, sent
<1>4. <<t, Home(t)>> \in shows /\ chosen.payload = NoEvent
  <2> HIDE DEF shows, chosen
  <2> QED
    BY <1>3 DEF Lost
<1>5. \E o \in sent : o.task = t
  BY <1>4
<1>6. chosen \in sent
  <2> HIDE DEF sent
  <2> QED
    BY <1>5
<1>7. chosen \in batch.ops /\ Sending
  <2> HIDE DEF chosen
  <2> QED
    BY <1>6 DEF SendBatch, Sending
<1>8. chosen.payload \in {1, 2}
  <2> HIDE DEF chosen
  <2> QED
    BY <1>7, RequestFields DEF BInv
<1> QED
  BY <1>4, <1>8 DEF NoEvent

LEMMA LostInGoogle ==
  ASSUME BInv, NEW t \in TaskId, Lost(t),
         \/ \E u \in TaskId, k \in Calendar : TouchEvent(u, k)
         \/ \E k \in Calendar : DeleteCalendar(k)
  PROVE  Restored(t)
<1>1. Home(t) \in Calendar /\ events \in [TaskId -> [Calendar -> 0..3]] /\ trace \in History
  BY LostFacts DEF BInv, Types, GoogleTypes, HistoryTypes
<1>2. ASSUME NEW u \in TaskId, NEW k \in Calendar, TouchEvent(u, k) PROVE Restored(t)
  <2>1. CASE events' = [events EXCEPT ![u][k] = Edited]
    BY <1>1, <2>1 DEF Lost, Edited, NoEvent
  <2>2. CASE /\ events' = [events EXCEPT ![u][k] = NoEvent]
             /\ trace' = [Forget(trace, {u}) EXCEPT !.loose = @ \ {<<u, k>>}]
    <3>1. t = u
      BY <1>1, <2>2 DEF Lost
    <3> DEFINE h == Forget(trace, {u})
    <3>2. h \in History /\ u \in h.missed /\ trace' = [h EXCEPT !.loose = h.loose \ {<<u, k>>}]
      BY <1>1, <2>2, ForgetType DEF Forget, History
    <3> HIDE DEF h
    <3>3. trace'.missed = h.missed
      BY <3>2 DEF History
    <3> QED
      BY <3>1, <3>2, <3>3 DEF Restored
  <2> QED
    BY <1>2, <2>1, <2>2 DEF TouchEvent
<1>3. ASSUME NEW k \in Calendar, DeleteCalendar(k) PROVE Restored(t)
  <2> DEFINE h == Forget(trace, TaskId)
  <2>1. h \in History /\ t \in h.missed
        /\ trace' = [h EXCEPT !.loose = {e \in h.loose : e[2] # k}]
    BY <1>1, <1>3, ForgetType DEF Forget, History, DeleteCalendar
  <2> HIDE DEF h
  <2>2. trace'.missed = h.missed
    BY <2>1 DEF History
  <2> QED
    BY <2>1, <2>2 DEF Restored
<1> QED
  BY <1>2, <1>3

(***************************************************************************)
(* An event that is wanted is taken away only in a step that leaves a job  *)
(* for its task or a pass that starts anew, or counts it as missed (what   *)
(* the user does in Google nobody is told of).                             *)
(***************************************************************************)
THEOREM WantedComesBack == BatchSpec => WantedRestored
<1>1. ASSUME BInv, [BatchNext]_batchVars, NEW t \in TaskId, Lost(t) PROVE Restored(t)
  <2>1. events' # events
    BY <1>1 DEF Lost
  <2>2. CASE BatchStep
    <3>1. SendDeletes \/ SendBatch \/ TidyOne \/ SyncSingle
      BY <2>1, <2>2 DEF BatchStep, RecreateCalendars, CommitCalendars, ReadMirrors,
           CommitDeletes, ReadTasks, NoTasksLeft, RouteTask, SplitBatch, RefuseBatch,
           CommitBatch, FinishBatch, RetryBatch, PassDies, googleVars
    <3>2. CASE SyncSingle
      <4>1. PICK u \in Foremost : Live(u) /\ SyncOne(u)
        BY <3>2 DEF SyncSingle, Live
      <4>2. u \in TaskId /\ UNCHANGED userVars
        BY <1>1, <3>2, <4>1, RunFields DEF SyncSingle, Foremost, BInv, Types
      <4> QED
        BY <1>1, <4>1, <4>2, LostSynced
    <3> QED
      BY <1>1, <3>1, <3>2, LostByRun, LostBySending
  <2>3. CASE JobStep
    <3>1. ASSUME NEW u \in TaskId, RunUpsert(u) PROVE FALSE
      <4>1. Live(u) /\ SyncOne(u) /\ UNCHANGED userVars
        BY <2>1, <3>1 DEF RunUpsert, googleVars, Live
      <4> QED
        BY <1>1, <4>1, LostSynced
    <3>2. ASSUME NEW p \in Pass, ClaimPass(p) PROVE FALSE
      BY <2>1, <3>2 DEF ClaimPass, googleVars
    <3> QED
      BY <1>1, <2>3, <3>1, <3>2, LostByJob DEF JobStep
  <2>4. CASE UserStep
    <3>1. \/ \E u \in TaskId, k \in Calendar : TouchEvent(u, k)
          \/ \E k \in Calendar : DeleteCalendar(k)
      BY <2>1, <2>4 DEF UserStep, SaveTask, RemoveTask, SwitchCategory, DropCategory,
                        AddCategory, AskForPass, googleVars
    <3> QED
      BY <1>1, <3>1, LostInGoogle
  <2>5. ~UNCHANGED batchVars
    BY <2>1 DEF batchVars
  <2> QED
    BY <1>1, <2>2, <2>3, <2>4, <2>5 DEF BatchNext
<1>2. ASSUME BInv, [BatchNext]_batchVars
      PROVE  \A t \in TaskId :
               LET k == routes[scheduled[t].category]
               IN Due(t) /\ events[t][k] # NoEvent /\ events'[t][k] = NoEvent
                    => \/ t \in jobs'.upserts \cup trace'.missed
                       \/ \E p \in Pass : passes'[p] = Opened
  <2>1. \A t \in TaskId : Due(t) => Home(t) = routes[scheduled[t].category]
    BY DEF Due, Home
  <2> QED
    BY <1>1, <1>2, <2>1 DEF Lost, Restored
<1> QED
  BY BatchInvariant, <1>2, PTL DEF BatchSpec, WantedRestored
=============================================================================
