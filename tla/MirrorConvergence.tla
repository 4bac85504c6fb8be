-------------------------- MODULE MirrorConvergence --------------------------
(***************************************************************************)
(* Converged for every number of tasks, categories, jobs and workers: a    *)
(* task shows what it should, or an open job that has still to commit will *)
(* make it so.                                                             *)
(***************************************************************************)
EXTENDS MirrorSyncProofs

(***************************************************************************)
(* Healthy, but for a task that is gone a folded change does not matter:   *)
(* its delete_task job reads no task.                                      *)
(***************************************************************************)
Unharmed(t) ==
  /\ tasks[t].exists => t \notin history.late
  /\ ~Doubled(t)
  /\ \A j \in Job : outbox[j].status = "dead" => outbox[j].key[2] # t

DueKey(t) == <<IF tasks[t].exists THEN "upsert_task" ELSE "delete_task", t>>

(***************************************************************************)
(* An open job of t that no run has already finished the work of.          *)
(***************************************************************************)
Due(t) ==
  \E j \in OpenRows(outbox, DueKey(t)) :
    \A w \in Worker : Running(w, j) => workers[w].phase # "saved"

(***************************************************************************)
(* The mirrors and the events of t are what they should be.                *)
(***************************************************************************)
Shaped(t) ==
  /\ \A l \in Wanted(t) : google[<<t, l>>] = tasks[t].version
  /\ \A l \in List : Recorded(t, l) => l \in Wanted(t)

Carried == \A t \in Task : Unharmed(t) => Shaped(t) \/ Due(t)

(***************************************************************************)
(* The upsert_task jobs of a task that is there still name it, and so do   *)
(* the runs that claimed them.  It has no delete_task job.                 *)
(***************************************************************************)
TargetsKept ==
  \A t \in Task, j \in Job : tasks[t].exists =>
    /\ outbox[j].key # <<"delete_task", t>>
    /\ outbox[j].key = <<"upsert_task", t>> => target[j] = t

TasksKnown ==
  \A w \in Worker, t \in Task :
    tasks[t].exists /\ workers[w].phase # "idle"
      => (outbox[workers[w].job].key = <<"upsert_task", t>> => workers[w].task = t)

OneMirror ==
  \A m, n \in Mirror :
    mirrors[m].used /\ mirrors[n].used /\ mirrors[m].event = mirrors[n].event => m = n

(***************************************************************************)
(* A removal has selected all the mirrors of the task its job is about.    *)
(***************************************************************************)
TakesAll(w) ==
  workers[w].phase = "removing" =>
    \A m \in Mirror :
      mirrors[m].used /\ outbox[workers[w].job].key = DueKey(mirrors[m].event)
        => m \in workers[w].rows \/ Doubled(mirrors[m].event)

(***************************************************************************)
(* What a run has read of its task is what the task still is, and what it  *)
(* has sent is shown.                                                      *)
(***************************************************************************)
UpToDate(w) ==
  LET t == workers[w].task IN
  t # NoTask /\ tasks[t].exists /\ t \notin history.late /\ ~Doubled(t) =>
    /\ workers[w].phase \in {"read", "unmapped", "found"} =>
         workers[w].version = tasks[t].version
    /\ workers[w].phase \in {"sent", "cleaned"} =>
         google[<<t, workers[w].cal>>] = tasks[t].version
    /\ workers[w].phase \in {"read", "unmapped", "found", "sent", "cleaned"} =>
         Wanted(t) = {workers[w].cal}

CInv ==
  /\ Inv /\ TargetsKept /\ TasksKnown /\ OneMirror
  /\ \A w \in Worker : TakesAll(w) /\ UpToDate(w)
  /\ Carried

-----------------------------------------------------------------------------
(***************************************************************************)
(* Operators in a form the steps below can use.                            *)
(***************************************************************************)
LEMMA PairFacts ==
  ASSUME NEW t, NEW u, <<"upsert_task", t>> = <<"upsert_task", u>>
  PROVE  t = u
  OBVIOUS

LEMMA DueKeyFacts ==
  ASSUME NEW t \in Task
  PROVE  /\ DueKey(t) \in Key /\ DueKey(t)[2] = t
         /\ tasks[t].exists => DueKey(t) = <<"upsert_task", t>>
         /\ ~tasks[t].exists => DueKey(t) = <<"delete_task", t>>
  BY UpsertKey DEF DueKey

(***************************************************************************)
(* A worker at work for t, and not yet done, makes t due.                  *)
(***************************************************************************)
BusyDue ==
  \A t \in Task, w \in Worker :
    tasks[t].exists /\ ~Doubled(t) /\ workers[w].task = t
      /\ workers[w].phase \notin {"idle", "saved"} => Due(t)

LEMMA BusyIsDue == QueueInv => BusyDue
<1> SUFFICES ASSUME QueueInv, NEW t \in Task, NEW w \in Worker, tasks[t].exists, ~Doubled(t),
                    workers[w].task = t, workers[w].phase \notin {"idle", "saved"}
             PROVE  Due(t)
  BY DEF BusyDue
<1> DEFINE j == workers[w].job
<1>1. j \in Job /\ outbox[j].key = <<"upsert_task", t>> /\ DueKey(t) = <<"upsert_task", t>>
  BY MirrorAssumption DEF QueueInv, WorkersPlaced, RowOK, DueKey
<1>2. <<"upsert_task", t>> \notin history.overran
  BY DEF Doubled
<1>3. outbox[j].status = "processing" /\ outbox[j].lockedBy = w
  BY <1>1, <1>2 DEF QueueInv, HolderOwns, Running
<1>4. \A v \in Worker : Running(v, j) => v = w
  BY <1>1, <1>2, <1>3 DEF QueueInv, HolderOwns
<1>5. j \in OpenRows(outbox, DueKey(t))
  BY <1>1, <1>3 DEF OpenRows, Open
<1> QED
  BY <1>4, <1>5 DEF Due

LEMMA BusyIsDueNext == QueueInv' => BusyDue'
  BY BusyIsDue, PTL

(***************************************************************************)
(* The steps of a run between the claim and its end.                       *)
(***************************************************************************)
InRun(w) ==
  \/ StartDelete(w) \/ SkipUpsert(w) \/ ReadTask(w) \/ LockList(w) \/ CreateCalendar(w)
  \/ SendEvent(w) \/ RemoveOld(w) \/ Commit(w) \/ CommitRefused(w) \/ RemoveEvent(w)
  \/ CommitRemoval(w)

LEMMA ReadJob ==
  ASSUME QueueInv, NEW w \in Worker, ReadTask(w)
  PROVE  workers'[w].job = workers[w].job
<1> DEFINE t == workers[w].task
           read == [workers[w] EXCEPT !.phase = "read", !.cal = tasks[t].list,
                                      !.version = tasks[t].version]
<1>1. workers \in [Worker -> State] /\ workers[w] \in State /\ workers[w].phase = "claimed"
  BY Types DEF QueueInv, ReadTask
<1>2. read.job = workers[w].job /\ Removal(w, t).job = workers[w].job
  BY <1>1, RemovalFacts DEF State
<1>3. workers' = [workers EXCEPT ![w] = read] \/ workers' = [workers EXCEPT ![w] = Removal(w, t)]
  BY DEF ReadTask
<1> HIDE DEF read
<1> QED
  BY <1>1, <1>2, <1>3

LEMMA InRunFacts ==
  ASSUME QueueInv, NEW w \in Worker, InRun(w)
  PROVE  /\ UNCHANGED <<tasks, outbox, target>>
         /\ workers[w].phase # "idle" /\ workers'[w].job = workers[w].job
         /\ workers'[w].task = workers[w].task
<1>1. workers \in [Worker -> State] /\ workers[w] \in State
  BY Types DEF QueueInv
<1>2. UNCHANGED <<tasks, outbox, target>> /\ workers[w].phase # "idle"
  BY DEF InRun, StartDelete, SkipUpsert, ReadTask, LockList, CreateCalendar, SendEvent,
     RemoveOld, Commit, CommitRefused, RemoveEvent, CommitRemoval, Written
<1>3. \A s : workers' = [workers EXCEPT ![w] = s] => workers'[w] = s
  BY <1>1
<1>4. CASE StartDelete(w)
  BY <1>2, <1>3, <1>4, RemovalFacts DEF StartDelete
<1>5. CASE ReadTask(w)
  BY <1>2, <1>5, ReadTaskEffect, ReadJob
<1>6. CASE SkipUpsert(w) \/ SendEvent(w) \/ RemoveOld(w) \/ Commit(w) \/ CommitRefused(w)
           \/ CommitRemoval(w)
  <2>1. ASSUME NEW phase, workers' = [workers EXCEPT ![w].phase = phase]
        PROVE  workers'[w].job = workers[w].job /\ workers'[w].task = workers[w].task
    BY <1>1, <2>1 DEF State
  <2>2. CASE SkipUpsert(w) \/ SendEvent(w) \/ RemoveOld(w)
    BY <1>2, <2>1, <2>2 DEF SkipUpsert, SendEvent, RemoveOld
  <2>3. CASE Commit(w) \/ CommitRefused(w) \/ CommitRemoval(w)
    BY <1>2, <2>1, <2>3 DEF Commit, CommitRefused, CommitRemoval
  <2> QED
    BY <1>6, <2>2, <2>3
<1>7. CASE RemoveEvent(w)
  <2>1. \E doomed : workers' = [workers EXCEPT ![w].doomed = doomed]
    BY <1>7 DEF RemoveEvent
  <2> QED
    BY <1>1, <1>2, <2>1 DEF State
<1>8. CASE LockList(w)
  <2>1. \A s \in FoundMirrors(w) : s.job = workers[w].job /\ s.task = workers[w].task
    BY <1>1, <1>8, FoundFacts DEF LockList
  <2>2. PICK s : workers' = [workers EXCEPT ![w] = s]
                 /\ s \in FoundMirrors(w) \cup {[workers[w] EXCEPT !.phase = "unmapped"]}
    BY <1>8 DEF LockList
  <2>3. s.job = workers[w].job /\ s.task = workers[w].task
    BY <1>1, <2>1, <2>2 DEF State
  <2> QED
    BY <1>2, <1>3, <2>2, <2>3
<1>9. CASE CreateCalendar(w)
  <2>1. \A s \in FoundMirrors(w) : s \in State /\ s.job = workers[w].job /\ s.task = workers[w].task
    BY <1>1, <1>9, FoundFacts DEF CreateCalendar
  <2>2. PICK s, version :
          /\ workers' = [workers EXCEPT ![w] = [s EXCEPT !.version = version]]
          /\ s \in FoundMirrors(w) \cup {[workers[w] EXCEPT !.phase = "broken"]}
    BY <1>9 DEF CreateCalendar
  <2>3. s \in State /\ s.job = workers[w].job /\ s.task = workers[w].task
    BY <1>1, <2>1, <2>2, Zenon DEF State, Phase
  <2>4. [s EXCEPT !.version = version].job = s.job /\ [s EXCEPT !.version = version].task = s.task
    BY <2>3, Zenon DEF State
  <2> QED
    BY <1>2, <1>3, <2>2, <2>3, <2>4
<1> QED
  BY <1>2, <1>4, <1>5, <1>6, <1>7, <1>8, <1>9 DEF InRun

LEMMA InRunKeeps ==
  ASSUME Inv, NEW w \in Worker, InRun(w)
  PROVE  Inv' /\ Only(w) /\ Grown
<1>1. CASE StartDelete(w) \/ SkipUpsert(w) \/ ReadTask(w) \/ LockList(w) \/ CreateCalendar(w)
  <2>1. Inv'
    BY <1>1, StartDeleteKeeps, SkipUpsertKeeps, ReadTaskKeeps, LockListKeeps, CreateCalendarKeeps
  <2>2. Only(w)
    BY <1>1, StartDeleteEffect, SkipUpsertEffect, ReadTaskEffect, LockListEffect,
       CreateCalendarEffect DEF Inv
  <2>3. history.overran \subseteq history'.overran /\ history.crossed \subseteq history'.crossed
    BY <1>1, StartDeleteEffect, SkipUpsertEffect, ReadTaskEffect, LockListEffect,
       CreateCalendarEffect DEF Inv, Unmarked
  <2> QED
    BY <2>1, <2>2, <2>3, MarksGrow
<1>2. CASE SendEvent(w) \/ RemoveOld(w) \/ Commit(w) \/ CommitRefused(w) \/ RemoveEvent(w)
           \/ CommitRemoval(w)
  <2>1. Inv'
    BY <1>2, SendEventKeeps, RemoveOldKeeps, CommitKeeps, CommitRefusedKeeps, RemoveEventKeeps,
       CommitRemovalKeeps
  <2>2. Only(w)
    BY <1>2, SendEventEffect, RemoveOldEffect, CommitEffect, CommitRefusedEffect,
       RemoveEventEffect, CommitRemovalEffect DEF Inv
  <2>3. history.overran \subseteq history'.overran /\ history.crossed \subseteq history'.crossed
    <3>1. CASE SendEvent(w) \/ RemoveOld(w) \/ Commit(w)
      BY <3>1, SendEventEffect, RemoveOldEffect, CommitEffect DEF Inv, Unmarked
    <3>2. CASE CommitRefused(w) \/ RemoveEvent(w) \/ CommitRemoval(w)
      BY <3>2, CommitRefusedEffect, RemoveEventEffect, CommitRemovalEffect DEF Inv, Unmarked
    <3> QED
      BY <1>2, <3>1, <3>2
  <2> QED
    BY <2>1, <2>2, <2>3, MarksGrow
<1> QED
  BY <1>1, <1>2 DEF InRun

LEMMA InRunKnown ==
  ASSUME CInv, NEW w \in Worker, InRun(w)
  PROVE  TargetsKept' /\ TasksKnown'
<1>1. /\ UNCHANGED <<tasks, outbox, target>> /\ Only(w)
      /\ workers[w].phase # "idle" /\ workers'[w].job = workers[w].job
      /\ workers'[w].task = workers[w].task
  BY InRunFacts, InRunKeeps DEF CInv, Inv
<1>2. TargetsKept'
  BY <1>1 DEF CInv, TargetsKept
<1>3. TasksKnown'
  <2> SUFFICES ASSUME NEW v \in Worker, NEW t \in Task, tasks[t].exists,
                      workers'[v].phase # "idle",
                      outbox[workers'[v].job].key = <<"upsert_task", t>>
               PROVE  workers'[v].task = t
    BY <1>1 DEF TasksKnown
  <2>1. workers'[v].job = workers[v].job /\ workers'[v].task = workers[v].task
        /\ workers[v].phase # "idle"
    BY <1>1 DEF Only
  <2> QED
    BY <2>1 DEF CInv, TasksKnown
<1> QED
  BY <1>2, <1>3

(***************************************************************************)
(* What the other runs remember stays true, when a step of one run changes *)
(* the events and the mirrors of its own task, or of one that is gone.     *)
(***************************************************************************)
LEMMA OthersUpToDate ==
  ASSUME CInv, NEW w \in Worker, Only(w), Grown, UNCHANGED tasks,
         \A t \in Task : t \in history.late => t \in history'.late \cup {workers[w].task},
         \A t \in Task, l \in List : google'[<<t, l>>] # google[<<t, l>>] =>
           t = workers[w].task \/ ~tasks[t].exists
  PROVE  \A v \in Worker \ {w} : UpToDate(v)'
<1> SUFFICES ASSUME NEW v \in Worker, v # w PROVE UpToDate(v)'
  OBVIOUS
<1>1. workers'[v] = workers[v] /\ UpToDate(v)
  BY DEF Only, CInv
<1> SUFFICES ASSUME NEW t \in Task, t = workers[v].task, tasks[t].exists, t \notin history'.late,
                    ~Doubled(t)'
             PROVE  UpToDate(v)'
  <2>1. workers[v].task \in Task \cup {NoTask}
    BY WorkerFacts DEF CInv, Inv
  <2> QED
    BY <1>1, <2>1 DEF UpToDate, Doubled
<1>2. ~Doubled(t) /\ t # workers[w].task
  BY OneRun, MirrorAssumption DEF Grown, CInv, Inv, DoubleRun
<1>3. t \notin history.late
  BY <1>2
<1>4. workers[v].phase \in Syncing => workers[v].cal \in List
  BY WorkerFacts DEF CInv, Inv
<1>5. workers[v].phase \in {"sent", "cleaned"} =>
        google'[<<t, workers[v].cal>>] = google[<<t, workers[v].cal>>]
  BY <1>2, <1>4 DEF Syncing
<1>6. Wanted(t)' = Wanted(t)
  BY DEF Wanted
<1> QED
  BY <1>1, <1>2, <1>3, <1>5, <1>6, MirrorAssumption DEF UpToDate

LEMMA OthersTakeAll ==
  ASSUME CInv, NEW w \in Worker, InRun(w),
         \A m \in Mirror : mirrors'[m].used =>
           \/ mirrors[m].used /\ mirrors[m].event = mirrors'[m].event
           \/ /\ mirrors'[m].event = workers[w].task /\ workers[w].task \in Task
              /\ tasks[workers[w].task].exists
  PROVE  \A v \in Worker \ {w} : TakesAll(v)'
<1> SUFFICES ASSUME NEW v \in Worker, v # w, workers'[v].phase = "removing", NEW m \in Mirror,
                    mirrors'[m].used,
                    outbox'[workers'[v].job].key = DueKey(mirrors[m].event)'
             PROVE  m \in workers'[v].rows \/ Doubled(mirrors[m].event)'
  BY DEF TakesAll
<1>1. /\ UNCHANGED <<tasks, outbox, target>> /\ Only(w) /\ Grown /\ QueueInv'
  BY InRunFacts, InRunKeeps DEF CInv, Inv
<1>2. PICK t \in Task : t = mirrors'[m].event
  <2>1. mirrors[m].used => mirrors[m].event \in Task
    BY Types DEF CInv, Inv, QueueInv, MirrorsOwned, MirrorRow
  <2> QED
    BY <2>1
<1>3. workers'[v] = workers[v] /\ outbox[workers[v].job].key = DueKey(t)
  BY <1>1, <1>2 DEF Only, DueKey
<1>4. CASE mirrors[m].used /\ mirrors[m].event = t
  <2>1. m \in workers[v].rows \/ Doubled(t)
    BY <1>3, <1>4 DEF CInv, TakesAll
  <2> QED
    BY <1>1, <1>2, <1>3, <2>1 DEF Grown, Doubled
<1>5. CASE t = workers[w].task /\ tasks[t].exists
  <2>1. workers[v].task = t
    BY <1>3, <1>5 DEF CInv, TasksKnown, DueKey
  <2>2. Doubled(t)
    BY <1>5, <2>1, OneRun, MirrorAssumption DEF CInv, Inv, DoubleRun
  <2> QED
    BY <1>1, <1>2, <2>2 DEF Grown, Doubled
<1> QED
  BY <1>2, <1>4, <1>5

(***************************************************************************)
(* What is due stays due until the run of its job is done.                 *)
(***************************************************************************)
LEMMA DueStays ==
  ASSUME CInv, NEW w \in Worker, InRun(w), NEW t \in Task, Due(t),
         workers'[w].phase # "saved" \/ outbox[workers[w].job].key # DueKey(t)
  PROVE  Due(t)'
<1>1. UNCHANGED <<tasks, outbox>> /\ Only(w) /\ workers'[w].job = workers[w].job
  BY InRunFacts, InRunKeeps DEF CInv, Inv
<1>2. PICK j \in OpenRows(outbox, DueKey(t)) :
        \A v \in Worker : Running(v, j) => workers[v].phase # "saved"
  BY DEF Due
<1>3. j \in OpenRows(outbox', DueKey(t)')
  BY <1>1, <1>2 DEF DueKey
<1>4. ASSUME NEW v \in Worker, workers'[v].phase # "idle", workers'[v].job = j
      PROVE  workers'[v].phase # "saved"
  <2>1. CASE v = w
    BY <1>1, <1>2, <1>4, <2>1 DEF OpenRows
  <2>2. CASE v # w
    BY <1>1, <1>2, <1>4, <2>2 DEF Only, Running
  <2> QED
    BY <2>1, <2>2
<1> QED
  BY <1>3, <1>4 DEF Due, Running

LEMMA BusyStays ==
  ASSUME Inv', NEW w \in Worker, NEW t \in Task, tasks'[t].exists, workers'[w].task = t,
         workers'[w].phase \notin {"idle", "saved"}, Unharmed(t)'
  PROVE  Due(t)'
  BY BusyIsDueNext DEF Inv, Unharmed, BusyDue

(***************************************************************************)
(* A step that changes neither a mirror nor what Google shows.             *)
(***************************************************************************)
LEMMA UnchangedShape ==
  ASSUME UNCHANGED <<tasks, mirrors, google>>, NEW t \in Task, Shaped(t)
  PROVE  Shaped(t)'
<1>1. \A l : Recorded(t, l)' <=> Recorded(t, l)
  BY DEF Recorded
<1>2. Wanted(t)' = Wanted(t)
  BY DEF Wanted
<1> QED
  BY <1>1, <1>2 DEF Shaped

LEMMA CalmCarries ==
  ASSUME CInv, NEW w \in Worker, InRun(w), UNCHANGED <<mirrors, google>>,
         \A t \in Task : t \in history.late => t \in history'.late \cup {workers[w].task},
         \A t \in Task : workers'[w].phase # "saved" \/ outbox[workers[w].job].key # DueKey(t)
  PROVE  Carried'
<1> SUFFICES ASSUME NEW t \in Task, Unharmed(t)' PROVE Shaped(t)' \/ Due(t)'
  BY DEF Carried
<1>1. /\ UNCHANGED <<tasks, outbox>> /\ Grown /\ Inv'
      /\ workers[w].phase # "idle" /\ workers'[w].task = workers[w].task
      /\ workers'[w].job = workers[w].job
  BY InRunFacts, InRunKeeps DEF CInv, Inv
<1>2. CASE Unharmed(t)
  BY <1>1, <1>2, DueStays, UnchangedShape DEF CInv, Carried
<1>3. CASE ~Unharmed(t)
  <2>1. t = workers[w].task /\ tasks[t].exists
    BY <1>1, <1>3 DEF Unharmed, Grown
  <2>2. workers'[w].phase \notin {"idle", "saved"}
    <3>1. outbox[workers[w].job].key = DueKey(t)
      BY <1>1, <2>1, MirrorAssumption DEF CInv, Inv, QueueInv, WorkersPlaced, RowOK, DueKey
    <3>2. workers'[w].phase # "idle"
      BY <1>1, <2>1, IdleType, MirrorAssumption DEF Inv, QueueInv, WorkersPlaced, Placed
    <3> QED
      BY <3>1, <3>2
  <2> QED
    BY <1>1, <2>1, <2>2, BusyStays
<1> QED
  BY <1>2, <1>3

LEMMA CalmConverges ==
  ASSUME CInv, NEW w \in Worker, InRun(w), UNCHANGED <<mirrors, google>>,
         \A t \in Task : t \in history.late => t \in history'.late \cup {workers[w].task},
         \A t \in Task : workers'[w].phase # "saved" \/ outbox[workers[w].job].key # DueKey(t),
         TakesAll(w)', UpToDate(w)'
  PROVE  CInv'
<1>1. Inv' /\ Only(w) /\ Grown /\ UNCHANGED <<tasks, outbox>>
  BY InRunFacts, InRunKeeps DEF CInv, Inv
<1>2. TargetsKept' /\ TasksKnown'
  BY InRunKnown
<1>3. OneMirror'
  BY DEF CInv, OneMirror
<1>4. \A v \in Worker \ {w} : TakesAll(v)'
  BY OthersTakeAll
<1>5. \A v \in Worker \ {w} : UpToDate(v)'
  BY <1>1, OthersUpToDate
<1>6. Carried'
  BY CalmCarries
<1> QED
  BY <1>1, <1>2, <1>3, <1>4, <1>5, <1>6 DEF CInv

(***************************************************************************)
(* No claim about a worker whose run has not read its task, or is over.    *)
(***************************************************************************)
LEMMA NothingDoneNext ==
  ASSUME NEW w \in Worker, workers'[w].phase \in {"idle", "claimed", "broken", "saved"}
  PROVE  TakesAll(w)' /\ UpToDate(w)'
  BY DEF TakesAll, UpToDate

LEMMA StartDeleteConverges ==
  ASSUME CInv, NEW w \in Worker, StartDelete(w)
  PROVE  CInv'
<1>1. /\ UNCHANGED <<tasks, mirrors, google, outbox>> /\ Unmarked({"crossed"})
      /\ workers[w].phase = "claimed" /\ workers[w].task = NoTask
      /\ workers'[w] = Removal(w, NoTask) /\ InRun(w) /\ QueueInv
  BY StartDeleteEffect DEF CInv, Inv, StartDelete, InRun
<1>2. /\ workers'[w].phase = "removing" /\ workers'[w].rows = OwnedBy(NoTask)
      /\ workers'[w].job = workers[w].job
  BY <1>1, RemovalFacts
<1>3. outbox[workers[w].job].key[1] = "delete_task"
  BY DEF StartDelete, Operation
<1>4. TakesAll(w)'
  <2> SUFFICES ASSUME NEW m \in Mirror, mirrors[m].used,
                      outbox[workers[w].job].key = DueKey(mirrors[m].event)
               PROVE  m \in OwnedBy(NoTask)
    BY <1>1, <1>2 DEF TakesAll, DueKey
  <2>1. ~tasks[mirrors[m].event].exists
    BY <1>3 DEF DueKey
  <2> QED
    BY <1>1, <2>1 DEF QueueInv, MirrorsOwned, OwnedBy
<1>5. UpToDate(w)'
  BY <1>2 DEF UpToDate
<1>6. history'.late = history.late
  BY <1>1 DEF Unmarked
<1> QED
  BY <1>1, <1>2, <1>4, <1>5, <1>6, CalmConverges

LEMMA SkipUpsertConverges ==
  ASSUME CInv, NEW w \in Worker, SkipUpsert(w)
  PROVE  CInv'
<1>1. /\ UNCHANGED <<tasks, mirrors, google, outbox, history>> /\ InRun(w)
      /\ workers[w].phase = "claimed" /\ workers[w].task = NoTask
      /\ workers'[w].phase = "saved"
      /\ outbox[workers[w].job].key[1] = "upsert_task"
  BY SkipUpsertEffect DEF CInv, Inv, SkipUpsert, InRun, Operation
<1>2. ASSUME NEW t \in Task PROVE outbox[workers[w].job].key # DueKey(t)
  <2>1. CASE tasks[t].exists
    BY <1>1, <2>1, MirrorAssumption DEF CInv, TasksKnown, DueKey
  <2>2. CASE ~tasks[t].exists
    BY <1>1, <2>2 DEF DueKey
  <2> QED
    BY <2>1, <2>2
<1> QED
  BY <1>1, <1>2, NothingDoneNext, CalmConverges

LEMMA ReadTaskConverges ==
  ASSUME CInv, NEW w \in Worker, ReadTask(w)
  PROVE  CInv'
<1> DEFINE t == workers[w].task
<1>1. /\ UNCHANGED <<tasks, mirrors, google, outbox>> /\ InRun(w) /\ QueueInv
      /\ workers[w].phase = "claimed" /\ t \in Task /\ workers'[w].task = t
      /\ IF Wanted(t) # {}
         THEN workers'[w].phase = "read" /\ Wanted(t) = {workers'[w].cal}
         ELSE workers'[w] = Removal(w, t)
      /\ Unmarked({"late"}) /\ history'.late = history.late \ {t}
  BY ReadTaskEffect DEF CInv, Inv, ReadTask, InRun
<1>2. workers'[w].job = workers[w].job
  BY <1>1, ReadJob
<1>3. TakesAll(w)' /\ UpToDate(w)' /\ workers'[w].phase # "saved"
  <2>1. CASE Wanted(t) # {}
    <3>1. workers'[w].version = tasks[t].version
      <4>1. workers[w] \in State /\ workers \in [Worker -> State]
        BY <1>1, Types DEF QueueInv
      <4>2. workers' = [workers EXCEPT ![w] = [workers[w] EXCEPT !.phase = "read",
                          !.cal = tasks[t].list, !.version = tasks[t].version]]
        BY <2>1 DEF ReadTask, Wanted
      <4> QED
        BY <4>1, <4>2 DEF State
    <3>2. Wanted(t)' = Wanted(t)
      BY <1>1 DEF Wanted
    <3> QED
      BY <1>1, <2>1, <3>1, <3>2 DEF TakesAll, UpToDate
  <2>2. CASE Wanted(t) = {}
    <3>1. workers'[w].phase = "removing" /\ workers'[w].rows = OwnedBy(t)
      BY <1>1, <2>2, RemovalFacts
    <3>2. ASSUME NEW m \in Mirror, mirrors[m].used,
                 outbox[workers[w].job].key = DueKey(mirrors[m].event)
          PROVE  m \in OwnedBy(t)
      <4>1. outbox[workers[w].job].key = <<"upsert_task", t>>
        BY <1>1, MirrorAssumption DEF QueueInv, WorkersPlaced, RowOK
      <4>2. mirrors[m].event = t /\ tasks[t].exists
        BY <3>2, <4>1 DEF DueKey
      <4> QED
        BY <1>1, <3>2, <4>2 DEF QueueInv, MirrorsOwned, OwnedBy
    <3>3. TakesAll(w)'
      BY <1>1, <1>2, <3>1, <3>2 DEF TakesAll, DueKey
    <3> QED
      BY <3>1, <3>3 DEF UpToDate
  <2> QED
    BY <2>1, <2>2
<1>4. \A u \in Task : u \in history.late => u \in history'.late \cup {t}
  BY <1>1
<1> QED
  BY <1>1, <1>3, <1>4, CalmConverges

(***************************************************************************)
(* A run that goes on to its calendar and its mirror keeps what it read.   *)
(***************************************************************************)
LEMMA FoundUpToDate ==
  ASSUME NEW w \in Worker, UpToDate(w), workers[w].phase \in {"read", "unmapped"},
         workers'[w].phase \in {"unmapped", "found", "broken"},
         workers'[w].task = workers[w].task, workers'[w].cal = workers[w].cal,
         workers'[w].version \in {workers[w].version, tasks[workers[w].task].version},
         UNCHANGED <<tasks, google, history>>
  PROVE  TakesAll(w)' /\ UpToDate(w)'
<1>1. UpToDate(w)'
  BY DEF UpToDate, Wanted, Doubled
<1> QED
  BY <1>1 DEF TakesAll

LEMMA LockListConverges ==
  ASSUME CInv, NEW w \in Worker, LockList(w)
  PROVE  CInv'
<1>1. /\ UNCHANGED <<tasks, mirrors, google, outbox, history>> /\ InRun(w) /\ QueueInv
      /\ workers[w].phase = "read" /\ workers'[w].phase \in {"unmapped", "found"}
      /\ workers'[w].task = workers[w].task /\ workers'[w].cal = workers[w].cal
  BY LockListEffect DEF CInv, Inv, LockList, InRun
<1>2. workers'[w].version = workers[w].version
  <2>1. workers[w] \in State /\ workers \in [Worker -> State]
    BY <1>1, Types DEF QueueInv
  <2>2. PICK s : workers' = [workers EXCEPT ![w] = s]
                 /\ s \in FoundMirrors(w) \cup {[workers[w] EXCEPT !.phase = "unmapped"]}
    BY DEF LockList
  <2>3. s.version = workers[w].version
    BY <1>1, <2>1, <2>2, FoundFacts DEF State
  <2> QED
    BY <2>1, <2>2, <2>3
<1>3. TakesAll(w)' /\ UpToDate(w)'
  BY <1>1, <1>2, FoundUpToDate DEF CInv
<1> QED
  BY <1>1, <1>3, CalmConverges

LEMMA CreateCalendarConverges ==
  ASSUME CInv, NEW w \in Worker, CreateCalendar(w)
  PROVE  CInv'
<1>1. /\ UNCHANGED <<tasks, mirrors, google, outbox, history>> /\ InRun(w) /\ QueueInv
      /\ workers[w].phase = "unmapped" /\ workers'[w].phase \in {"found", "broken"}
      /\ workers'[w].task = workers[w].task /\ workers'[w].cal = workers[w].cal
  BY CreateCalendarEffect DEF CInv, Inv, CreateCalendar, InRun
<1>2. workers'[w].version = tasks[workers[w].task].version
  <2>1. workers[w] \in State /\ workers \in [Worker -> State]
    BY <1>1, Types DEF QueueInv
  <2>2. PICK s : /\ workers' = [workers EXCEPT ![w] =
                       [s EXCEPT !.version = tasks[workers[w].task].version]]
                 /\ s \in FoundMirrors(w) \cup {[workers[w] EXCEPT !.phase = "broken"]}
    BY DEF CreateCalendar
  <2>3. s \in State
    <3>1. [workers[w] EXCEPT !.phase = "broken"] \in State
      BY <2>1, Zenon DEF State, Phase
    <3> QED
      BY <1>1, <2>2, <3>1, FoundFacts
  <2> QED
    BY <2>1, <2>2, <2>3 DEF State
<1>3. TakesAll(w)' /\ UpToDate(w)'
  BY <1>1, <1>2, FoundUpToDate DEF CInv
<1> QED
  BY <1>1, <1>3, CalmConverges

LEMMA CommitRefusedConverges ==
  ASSUME CInv, NEW w \in Worker, CommitRefused(w)
  PROVE  CInv'
<1>1. /\ UNCHANGED <<tasks, mirrors, google, outbox, history>> /\ InRun(w)
      /\ workers'[w].phase = "broken"
  BY CommitRefusedEffect DEF CInv, Inv, CommitRefused, InRun, Onward
<1> QED
  BY <1>1, NothingDoneNext, CalmConverges

(***************************************************************************)
(* A step that changes an event of the run's own task, or of one that is   *)
(* gone, and no mirror.                                                    *)
(***************************************************************************)
LEMMA EventConverges ==
  ASSUME CInv, NEW w \in Worker, InRun(w), UNCHANGED mirrors, history'.late = history.late,
         workers'[w].phase \notin {"idle", "saved"},
         \A t \in Task, l \in List : google'[<<t, l>>] # google[<<t, l>>] =>
           t = workers[w].task \/ ~tasks[t].exists,
         TakesAll(w)', UpToDate(w)'
  PROVE  CInv'
<1>1. /\ Inv' /\ Only(w) /\ Grown /\ UNCHANGED <<tasks, outbox>>
      /\ workers'[w].task = workers[w].task
  BY InRunFacts, InRunKeeps DEF CInv, Inv
<1>2. TargetsKept' /\ TasksKnown'
  BY InRunKnown
<1>3. OneMirror'
  BY DEF CInv, OneMirror
<1>4. \A v \in Worker \ {w} : TakesAll(v)'
  BY OthersTakeAll
<1>5. \A v \in Worker \ {w} : UpToDate(v)'
  BY <1>1, OthersUpToDate
<1>6. Carried'
  <2> SUFFICES ASSUME NEW t \in Task, Unharmed(t)' PROVE Shaped(t)' \/ Due(t)'
    BY DEF Carried
  <2>1. Unharmed(t)
    BY <1>1 DEF Unharmed, Grown
  <2>2. CASE Due(t)
    BY <2>2, DueStays
  <2>3. CASE tasks[t].exists /\ t = workers[w].task
    BY <1>1, <2>3, BusyStays
  <2>4. CASE Shaped(t) /\ ~(tasks[t].exists /\ t = workers[w].task)
    <3>1. \A l : Recorded(t, l)' <=> Recorded(t, l)
      BY DEF Recorded
    <3>2. Wanted(t)' = Wanted(t) /\ Wanted(t) \subseteq List
      BY <1>1, Types DEF Wanted, CInv, Inv, QueueInv, TaskRow
    <3>3. \A l \in Wanted(t) : google'[<<t, l>>] = google[<<t, l>>]
      BY <2>4, <3>2 DEF Wanted
    <3> QED
      BY <1>1, <2>4, <3>1, <3>2, <3>3 DEF Shaped
  <2> QED
    BY <2>1, <2>2, <2>3, <2>4 DEF CInv, Carried
<1> QED
  BY <1>1, <1>2, <1>3, <1>4, <1>5, <1>6 DEF CInv

LEMMA SendEventConverges ==
  ASSUME CInv, NEW w \in Worker, SendEvent(w)
  PROVE  CInv'
<1>0. PICK t \in Task, l \in List : t = workers[w].task /\ l = workers[w].cal
  BY SendEventEffect DEF CInv, Inv
<1>1. /\ UNCHANGED <<tasks, mirrors>> /\ Onward(w, "sent") /\ InRun(w) /\ Unmarked({"hidden"})
      /\ workers[w].phase = "found"
  BY SendEventEffect DEF CInv, Inv, InRun
<1>2. /\ history'.late = history.late /\ history'.overran = history.overran
      /\ history'.crossed = history.crossed
  BY <1>1 DEF Unmarked
<1>3. /\ google'[<<t, l>>] = workers[w].version
      /\ \A u \in Task, c \in List : google'[<<u, c>>] # google[<<u, c>>] => u = t
  <2>1. /\ google \in [Task \X List -> Nat]
        /\ google' = [google EXCEPT ![<<t, l>>] = workers[w].version]
    BY <1>0, Types DEF CInv, Inv, QueueInv, SendEvent
  <2> QED
    BY <2>1
<1>4. UpToDate(w)'
  <2>1. UpToDate(w) /\ Wanted(t)' = Wanted(t)
    BY <1>1 DEF CInv, Wanted
  <2> QED
    BY <1>0, <1>1, <1>2, <1>3, <2>1 DEF UpToDate, Onward, Doubled
<1>5. TakesAll(w)'
  BY <1>1 DEF TakesAll, Onward
<1> QED
  BY <1>0, <1>1, <1>2, <1>3, <1>4, <1>5, EventConverges DEF Onward

LEMMA RemoveOldConverges ==
  ASSUME CInv, NEW w \in Worker, RemoveOld(w)
  PROVE  CInv'
<1>0. PICK t \in Task, l \in List : t = workers[w].task /\ l = workers[w].old
  BY RemoveOldEffect DEF CInv, Inv
<1>1. /\ UNCHANGED <<tasks, mirrors>> /\ Onward(w, "cleaned") /\ InRun(w)
      /\ Unmarked({"strays"}) /\ workers[w].phase = "sent" /\ l # workers[w].cal
      /\ google' = [google EXCEPT ![<<t, l>>] = NoEvent]
  BY <1>0, RemoveOldEffect DEF CInv, Inv, InRun, Moving
<1>2. /\ history'.late = history.late /\ history'.overran = history.overran
      /\ history'.crossed = history.crossed
  BY <1>1 DEF Unmarked
<1>3. \A u \in Task, c \in List : google'[<<u, c>>] # google[<<u, c>>] => u = t /\ c = l
  <2>1. google \in [Task \X List -> Nat]
    BY Types DEF CInv, Inv, QueueInv
  <2> QED
    BY <1>1, <2>1
<1>4. UpToDate(w)'
  <2>1. UpToDate(w) /\ Wanted(t)' = Wanted(t) /\ workers[w].cal \in List
    BY <1>1, WorkerFacts DEF CInv, Inv, Wanted, Syncing
  <2>2. google'[<<t, workers[w].cal>>] = google[<<t, workers[w].cal>>]
    BY <1>1, <1>3, <2>1
  <2> QED
    BY <1>0, <1>1, <1>2, <2>1, <2>2 DEF UpToDate, Onward, Doubled
<1>5. TakesAll(w)'
  BY <1>1 DEF TakesAll, Onward
<1> QED
  BY <1>0, <1>1, <1>2, <1>3, <1>4, <1>5, EventConverges DEF Onward

LEMMA RemoveEventConverges ==
  ASSUME CInv, NEW w \in Worker, RemoveEvent(w)
  PROVE  CInv'
<1>1. /\ UNCHANGED <<tasks, mirrors, outbox>> /\ InRun(w)
      /\ workers[w].phase = "removing" /\ workers'[w].phase = "removing"
      /\ workers'[w].task = workers[w].task /\ workers'[w].rows = workers[w].rows
      /\ workers'[w].job = workers[w].job
  BY RemoveEventEffect, InRunFacts DEF CInv, Inv, InRun
<1>2. PICK e \in workers[w].doomed :
        /\ e \in Task \X List /\ google' = [google EXCEPT ![e] = NoEvent]
        /\ Unmarked({"strays", "hidden"})
  BY RemoveEventEffect DEF CInv, Inv
<1>3. PICK t \in Task, l \in List : e = <<t, l>>
  BY <1>2
<1>4. /\ history'.late = history.late /\ history'.overran = history.overran
      /\ history'.crossed = history.crossed
  BY <1>2 DEF Unmarked
<1>5. t = workers[w].task \/ ~tasks[t].exists
  BY <1>1, <1>3 DEF CInv, Inv, Held, HeldBy, DoomedHeld
<1>6. \A u \in Task, c \in List : google'[<<u, c>>] # google[<<u, c>>] => u = t
  <2>1. google \in [Task \X List -> Nat] /\ google' = [google EXCEPT ![<<t, l>>] = NoEvent]
    BY <1>2, <1>3, Types DEF CInv, Inv, QueueInv
  <2> QED
    BY <2>1
<1>7. TakesAll(w)'
  BY <1>1, <1>4 DEF CInv, TakesAll, Doubled, DueKey
<1>8. UpToDate(w)'
  BY <1>1 DEF UpToDate
<1> QED
  BY <1>1, <1>4, <1>5, <1>6, <1>7, <1>8, EventConverges

(***************************************************************************)
(* The mirror of a run is committed: it is the only one of its task.       *)
(***************************************************************************)
LEMMA CommitConverges ==
  ASSUME CInv, NEW w \in Worker, Commit(w)
  PROVE  CInv'
<1>0. PICK t \in Task, l \in List : t = workers[w].task /\ l = workers[w].cal
  BY CommitEffect DEF CInv, Inv
<1>1. /\ UNCHANGED <<tasks, google, outbox>> /\ Onward(w, "saved") /\ InRun(w)
      /\ workers[w].phase \in {"sent", "cleaned"} /\ Unmarked({"strays"})
      /\ Inv' /\ Only(w) /\ Grown /\ workers'[w].job = workers[w].job
  BY CommitEffect, InRunFacts, InRunKeeps DEF CInv, Inv, InRun
<1>2. PICK m \in Mirror :
        /\ IF workers[w].mirror = NoMirror THEN m \in FreshIds
           ELSE m = workers[w].mirror /\ mirrors[m].used /\ mirrors[m].event = t
        /\ mirrors'[m].used /\ mirrors'[m].event = t /\ mirrors'[m].cal = l
        /\ \A n \in Mirror \ {m} : mirrors'[n] = mirrors[n]
  BY <1>0, CommitEffect DEF CInv, Inv
<1>3. history'.late = history.late
  BY <1>1 DEF Unmarked
<1>4. TargetsKept' /\ TasksKnown'
  BY <1>1, InRunKnown
<1>5. workers[w].mirror = NoMirror => tasks[t].exists /\ OwnedBy(t) = {}
  BY <1>0 DEF Commit, Admitted
<1>6. \A n \in Mirror \ {m} : mirrors[n].used => mirrors[n].event # t
  <2> SUFFICES ASSUME NEW n \in Mirror \ {m}, mirrors[n].used, mirrors[n].event = t
               PROVE  FALSE
    OBVIOUS
  <2>1. CASE workers[w].mirror = NoMirror
    BY <1>5, <2>1 DEF OwnedBy, CInv, Inv, QueueInv, MirrorsOwned
  <2>2. CASE workers[w].mirror # NoMirror
    BY <1>2, <2>2 DEF CInv, OneMirror
  <2> QED
    BY <2>1, <2>2
<1>7. OneMirror'
  BY <1>2, <1>6 DEF CInv, OneMirror
<1>8. \A v \in Worker \ {w} : TakesAll(v)'
  <2>1. \A n \in Mirror : mirrors'[n].used =>
           \/ mirrors[n].used /\ mirrors[n].event = mirrors'[n].event
           \/ /\ mirrors'[n].event = workers[w].task /\ workers[w].task \in Task
              /\ tasks[workers[w].task].exists
    BY <1>0, <1>2, <1>5
  <2> QED
    BY <1>1, <2>1, OthersTakeAll
<1>9. \A v \in Worker \ {w} : UpToDate(v)'
  BY <1>1, <1>3, OthersUpToDate
<1>10. TakesAll(w)' /\ UpToDate(w)'
  BY <1>1, NothingDoneNext DEF Onward
<1>11. Carried'
  <2> SUFFICES ASSUME NEW u \in Task, Unharmed(u)' PROVE Shaped(u)' \/ Due(u)'
    BY DEF Carried
  <2>1. Unharmed(u) /\ Wanted(u)' = Wanted(u)
    BY <1>1, <1>3 DEF Unharmed, Grown, Wanted
  <2>2. outbox[workers[w].job].key = <<"upsert_task", t>>
    BY <1>0, <1>1, MirrorAssumption DEF CInv, Inv, QueueInv, WorkersPlaced, RowOK
  <2>3. CASE Due(u) /\ ~(u = t /\ tasks[t].exists)
    <3>1. outbox[workers[w].job].key # DueKey(u)
      BY <2>2, <2>3 DEF DueKey
    <3> QED
      BY <1>1, <2>3, <3>1, DueStays
  <2>4. CASE u # t /\ Shaped(u)
    <3>1. \A c : Recorded(u, c)' => Recorded(u, c)
      BY <1>2, <2>4 DEF Recorded
    <3> QED
      BY <1>1, <2>1, <2>4, <3>1 DEF Shaped
  <2>5. CASE u = t /\ tasks[t].exists
    <3>1. Wanted(t) = {l} /\ google[<<t, l>>] = tasks[t].version
      BY <1>0, <1>1, <2>1, <2>5, MirrorAssumption DEF CInv, UpToDate, Unharmed
    <3>2. \A c \in List : Recorded(t, c)' => c = l
      <4> SUFFICES ASSUME NEW c \in List, NEW n \in Mirror, n # m,
                          mirrors[n].event = t
                   PROVE  FALSE
        BY <1>0, <1>2 DEF Recorded
      <4>1. ~mirrors[n].used
        BY <1>6
      <4> QED
        BY <4>1, MirrorAssumption DEF CInv, Inv, QueueInv, MirrorsOwned, FreeRow
    <3> QED
      BY <1>0, <1>1, <2>1, <2>5, <3>1, <3>2 DEF Shaped
  <2>6. CASE u = t /\ ~tasks[t].exists /\ Shaped(t)
    <3>1. mirrors[m].used /\ mirrors[m].event = t
      BY <1>2, <1>5, <2>6
    <3>2. mirrors[m].cal \in List
      BY <3>1, Types DEF CInv, Inv, QueueInv, MirrorsOwned, MirrorRow
    <3> QED
      BY <2>6, <3>1, <3>2 DEF Shaped, Recorded, Wanted
  <2> QED
    BY <2>1, <2>3, <2>4, <2>5, <2>6 DEF CInv, Carried
<1> QED
  BY <1>1, <1>4, <1>7, <1>8, <1>9, <1>10, <1>11 DEF CInv

(***************************************************************************)
(* The mirrors of a task are dropped, all of them.                         *)
(***************************************************************************)
LEMMA CommitRemovalConverges ==
  ASSUME CInv, NEW w \in Worker, CommitRemoval(w)
  PROVE  CInv'
<1>1. /\ UNCHANGED <<tasks, google, history, outbox>> /\ Onward(w, "saved") /\ InRun(w)
      /\ workers[w].phase = "removing"
      /\ \A m \in Mirror : mirrors'[m] = IF m \in workers[w].rows THEN FreeRow ELSE mirrors[m]
      /\ Inv' /\ Only(w) /\ Grown /\ workers'[w].job = workers[w].job
  BY CommitRemovalEffect, InRunFacts, InRunKeeps DEF CInv, Inv, InRun
<1>2. TargetsKept' /\ TasksKnown'
  BY <1>1, InRunKnown
<1>3. \A m \in Mirror : mirrors'[m].used => mirrors'[m] = mirrors[m] /\ m \notin workers[w].rows
  BY <1>1 DEF FreeRow
<1>4. OneMirror'
  BY <1>3 DEF CInv, OneMirror
<1>5. \A v \in Worker \ {w} : TakesAll(v)'
  <2>1. \A m \in Mirror : mirrors'[m].used =>
           mirrors[m].used /\ mirrors[m].event = mirrors'[m].event
    BY <1>3
  <2> QED
    BY <1>1, <2>1, OthersTakeAll
<1>6. \A v \in Worker \ {w} : UpToDate(v)'
  BY <1>1, OthersUpToDate
<1>7. TakesAll(w)' /\ UpToDate(w)'
  BY <1>1, NothingDoneNext DEF Onward
<1>8. Carried'
  <2> SUFFICES ASSUME NEW u \in Task, Unharmed(u)' PROVE Shaped(u)' \/ Due(u)'
    BY DEF Carried
  <2>1. Unharmed(u) /\ Wanted(u)' = Wanted(u)
    BY <1>1 DEF Unharmed, Grown, Wanted
  <2>2. \A l : Recorded(u, l)' => \E m \in Mirror :
           /\ mirrors[m].used /\ m \notin workers[w].rows
           /\ mirrors[m].event = u /\ mirrors[m].cal = l
    <3> SUFFICES ASSUME NEW m \in Mirror, mirrors'[m].event = u
                 PROVE  mirrors[m].used /\ m \notin workers[w].rows /\ mirrors'[m] = mirrors[m]
      BY DEF Recorded
    <3>1. mirrors'[m].used
      BY <1>1, MirrorAssumption DEF Inv, QueueInv, MirrorsOwned, FreeRow
    <3> QED
      BY <1>3, <3>1
  <2>3. CASE Shaped(u)
    <3>1. \A l : Recorded(u, l)' => Recorded(u, l)
      BY <2>2 DEF Recorded
    <3> QED
      BY <1>1, <2>1, <2>3, <3>1 DEF Shaped
  <2>4. CASE Due(u) /\ outbox[workers[w].job].key # DueKey(u)
    BY <1>1, <2>4, DueStays
  <2>5. CASE outbox[workers[w].job].key = DueKey(u)
    <3>1. \A l : ~Recorded(u, l)'
      BY <1>1, <2>1, <2>2, <2>5 DEF CInv, TakesAll, Unharmed
    <3>2. Wanted(u) = {}
      <4>1. CASE ~tasks[u].exists
        BY <4>1 DEF Wanted
      <4>2. CASE tasks[u].exists
        <5>1. workers[w].task = u
          BY <1>1, <2>5, <4>2 DEF CInv, TasksKnown, DueKey
        <5> QED
          BY <1>1, <2>1, <4>2, <5>1, MirrorAssumption DEF CInv, Inv, Held, HeldBy, ReadAgrees,
             Unharmed
      <4> QED
        BY <4>1, <4>2
    <3> QED
      BY <2>1, <3>1, <3>2 DEF Shaped
  <2> QED
    BY <2>1, <2>3, <2>4, <2>5 DEF CInv, Carried
<1> QED
  BY <1>1, <1>2, <1>4, <1>5, <1>6, <1>7, <1>8 DEF CInv

(***************************************************************************)
(* The steps of the queue: a claim, the end of a run, the clock.           *)
(***************************************************************************)
LEMMA QueueConverges ==
  ASSUME CInv, Inv', UNCHANGED <<tasks, mirrors, google, target>>, Grown,
         history'.late = history.late,
         \A j \in Job : outbox'[j].key = outbox[j].key,
         \A v \in Worker :
           \/ workers'[v] = workers[v]
           \/ workers'[v].phase = "idle"
           \/ /\ workers'[v].phase = "claimed" /\ workers'[v].job \in Job
              /\ workers'[v].task = target[workers'[v].job],
         \A t \in Task : Unharmed(t)' => Unharmed(t) /\ (Due(t) => Due(t)')
  PROVE  CInv'
<1>1. TargetsKept'
  BY DEF CInv, TargetsKept
<1>2. TasksKnown'
  <2> SUFFICES ASSUME NEW v \in Worker, NEW t \in Task, tasks[t].exists,
                      workers'[v].phase # "idle",
                      outbox'[workers'[v].job].key = <<"upsert_task", t>>
               PROVE  workers'[v].task = t
    BY DEF TasksKnown
  <2>1. CASE workers'[v] = workers[v]
    <3>1. workers[v].job \in Job
      BY <2>1, WorkerFacts DEF CInv, Inv
    <3> QED
      BY <2>1, <3>1 DEF CInv, TasksKnown
  <2>2. CASE workers'[v] # workers[v]
    <3>1. workers'[v].job \in Job /\ workers'[v].task = target[workers'[v].job]
      BY <2>2
    <3> QED
      BY <3>1 DEF CInv, TargetsKept
  <2> QED
    BY <2>1, <2>2
<1>3. OneMirror'
  BY DEF CInv, OneMirror
<1>4. ASSUME NEW v \in Worker PROVE TakesAll(v)' /\ UpToDate(v)'
  <2>1. CASE workers'[v] = workers[v]
    <3>1. UpToDate(v)'
      <4>1. UpToDate(v) /\ workers[v].task \in Task \cup {NoTask}
        BY WorkerFacts DEF CInv, Inv
      <4>2. workers[v].task \in Task => Wanted(workers[v].task)' = Wanted(workers[v].task)
        BY <2>1 DEF Wanted
      <4>3. workers[v].task \in Task => (Doubled(workers[v].task) => Doubled(workers[v].task)')
        BY <2>1 DEF Grown, Doubled
      <4> QED
        BY <2>1, <4>1, <4>2, <4>3 DEF UpToDate
    <3>2. TakesAll(v)'
      <4> SUFFICES ASSUME workers[v].phase = "removing", NEW m \in Mirror, mirrors[m].used,
                          outbox'[workers[v].job].key = DueKey(mirrors[m].event)
                   PROVE  m \in workers[v].rows \/ Doubled(mirrors[m].event)'
        BY <2>1 DEF TakesAll, DueKey
      <4>1. workers[v].job \in Job /\ mirrors[m].event \in Task
        BY WorkerFacts, Types DEF CInv, Inv, QueueInv, MirrorsOwned, MirrorRow
      <4>2. m \in workers[v].rows \/ Doubled(mirrors[m].event)
        BY <4>1 DEF CInv, TakesAll
      <4> QED
        BY <4>1, <4>2 DEF Grown, Doubled
    <3> QED
      BY <3>1, <3>2
  <2>2. CASE workers'[v] # workers[v]
    BY <2>2, NothingDoneNext
  <2> QED
    BY <2>1, <2>2
<1>5. Carried'
  BY UnchangedShape DEF CInv, Carried
<1> QED
  BY <1>1, <1>2, <1>3, <1>4, <1>5 DEF CInv

(***************************************************************************)
(* A row that is over, or dead while its claim overran, leaves the other   *)
(* rows as they were.                                                      *)
(***************************************************************************)
LEMMA DeadOverran ==
  ASSUME QueueInv, NEW w \in Worker, workers[w].phase # "idle", NEW t \in Task,
         outbox[workers[w].job].key[2] = t, outbox[workers[w].job].status # "processing"
  PROVE  Doubled(t)
<1>1. workers[w].job \in Job /\ outbox[workers[w].job].key \in Key
  BY WorkerFacts
<1>2. outbox[workers[w].job].key \in history.overran
  BY <1>1 DEF QueueInv, HolderOwns, Running
<1> QED
  BY <1>2 DEF Doubled

LEMMA RunEnds ==
  ASSUME CInv, NEW w \in Worker, Inv', Only(w), workers'[w] = Idle, workers[w].phase # "idle",
         UNCHANGED <<tasks, mirrors, google, target>>, Unmarked({"strays"}),
         NEW row \in Row, outbox' = [outbox EXCEPT ![workers[w].job] = row],
         row.key = outbox[workers[w].job].key,
         \/ row.status = "done" /\ workers[w].phase = "saved"
         \/ row.status \in Open \cup {"dead"}
  PROVE  CInv'
<1> DEFINE j == workers[w].job
<1>1. /\ j \in Job /\ outbox \in [Job -> Row] /\ outbox[j].key \in Key
  BY WorkerFacts, Types DEF CInv, Inv, QueueInv
<1>2. outbox'[j] = row /\ \A i \in Job \ {j} : outbox'[i] = outbox[i]
  BY <1>1
<1>3. history'.late = history.late /\ Grown /\ \A t : Doubled(t)' <=> Doubled(t)
  BY DEF Unmarked, Grown, Doubled
<1>4. ASSUME NEW t \in Task, Unharmed(t)' PROVE Unharmed(t)
  <2>1. ~Doubled(t)
    BY <1>3, <1>4 DEF Unharmed, Doubled
  <2>2. ASSUME NEW i \in Job, outbox[i].status = "dead" PROVE outbox[i].key[2] # t
    <3>1. CASE i # j
      BY <1>2, <1>4, <2>2, <3>1 DEF Unharmed
    <3>2. CASE i = j
      BY <2>1, <2>2, <3>2, DeadOverran DEF CInv, Inv
    <3> QED
      BY <3>1, <3>2
  <2> QED
    BY <1>3, <1>4, <2>1, <2>2 DEF Unharmed
<1>5. ASSUME NEW t \in Task, Unharmed(t)', Due(t) PROVE Due(t)'
  <2>1. PICK i \in OpenRows(outbox, DueKey(t)) :
          \A v \in Worker : Running(v, i) => workers[v].phase # "saved"
    BY <1>5 DEF Due
  <2>2. i \in Job /\ outbox[i].key = DueKey(t) /\ outbox[i].status \in Open
    BY <2>1 DEF OpenRows
  <2>3. outbox'[i].key = DueKey(t) /\ outbox'[i].status \in Open
    <3>1. CASE i # j
      BY <1>2, <2>2, <3>1
    <3>2. CASE i = j
      <4>1. row.status # "done"
        BY <2>1, <3>2 DEF Running, Open
      <4>2. row.status # "dead"
        BY <1>1, <1>2, <1>5, <2>2, <3>2, DueKeyFacts DEF Unharmed
      <4> QED
        BY <1>2, <2>2, <3>2, <4>1, <4>2
    <3> QED
      BY <3>1, <3>2
  <2>4. \A v \in Worker : Running(v, i)' => workers'[v].phase # "saved"
    BY <2>1, IdleType DEF Running, Only
  <2> QED
    BY <2>2, <2>3, <2>4 DEF Due, OpenRows, DueKey
<1>6. \A i \in Job : outbox'[i].key = outbox[i].key
  BY <1>2
<1>7. \A v \in Worker : workers'[v] = workers[v] \/ workers'[v].phase = "idle"
  BY IdleType DEF Only
<1> QED
  BY <1>3, <1>4, <1>5, <1>6, <1>7, QueueConverges

LEMMA FinishConverges ==
  ASSUME CInv, NEW w \in Worker, Finish(w)
  PROVE  CInv'
<1>1. /\ Inv' /\ Only(w) /\ workers'[w] = Idle /\ workers[w].phase = "saved"
      /\ UNCHANGED <<tasks, mirrors, google, target, history>>
  BY FinishKeeps, FinishEffect DEF CInv, Inv, Finish
<1> DEFINE row == DoneRow(outbox[workers[w].job])
<1>2. outbox[workers[w].job] \in Row /\ workers[w].job \in Job /\ outbox \in [Job -> Row]
  BY <1>1, WorkerFacts, Types DEF CInv, Inv, QueueInv
<1>3. row \in Row /\ row.key = outbox[workers[w].job].key /\ row.status = "done"
  BY <1>2, DoneRowLemma
<1>4. outbox' = [outbox EXCEPT ![workers[w].job] = row]
  BY <1>2 DEF Finish
<1>5. Unmarked({"strays"})
  BY <1>1 DEF Unmarked
<1> HIDE DEF row
<1> QED
  BY <1>1, <1>3, <1>4, <1>5, RunEnds DEF Open

LEMMA CutShortConverges ==
  ASSUME CInv, NEW w \in Worker, Fail(w) \/ Crash(w)
  PROVE  CInv'
<1>1. /\ Inv' /\ Only(w) /\ workers'[w] = Idle /\ workers[w].phase # "idle"
      /\ UNCHANGED <<tasks, mirrors, google, target>> /\ Unmarked({"strays"})
  BY CutShortKeeps, CutShortEffect DEF CInv, Inv, Fail, Crash, CutShort
<1> DEFINE j == workers[w].job
<1>2. outbox[j] \in Row /\ j \in Job /\ outbox \in [Job -> Row]
  BY <1>1, WorkerFacts, Types DEF CInv, Inv, QueueInv
<1>3. CASE Fail(w)
  <2>1. PICK retryable \in BOOLEAN : outbox' = [outbox EXCEPT ![j] = FailedRow(@, retryable)]
    BY <1>3 DEF Fail
  <2> DEFINE row == FailedRow(outbox[j], retryable)
  <2>2. row \in Row /\ row.key = outbox[j].key /\ row.status \in {"failed", "dead"}
    BY <1>2, FailedRowLemma
  <2>3. outbox' = [outbox EXCEPT ![j] = row]
    BY <1>2, <2>1
  <2> HIDE DEF row
  <2> QED
    BY <1>1, <2>2, <2>3, RunEnds DEF Open
<1>4. CASE Crash(w)
  <2>1. UNCHANGED outbox
    BY <1>4 DEF Crash
  <2>2. history'.late = history.late /\ Grown /\ \A t : Doubled(t)' <=> Doubled(t)
    BY <1>1 DEF Unmarked, Grown, Doubled
  <2>3. ASSUME NEW t \in Task, Unharmed(t)' PROVE Unharmed(t) /\ (Due(t) => Due(t)')
    <3>1. Unharmed(t)
      BY <1>1, <2>1, <2>2, <2>3 DEF Unharmed
    <3>2. Due(t) => Due(t)'
      BY <1>1, <2>1, IdleType DEF Due, Running, OpenRows, DueKey, Only
    <3> QED
      BY <3>1, <3>2
  <2>4. \A v \in Worker : workers'[v] = workers[v] \/ workers'[v].phase = "idle"
    BY <1>1, IdleType DEF Only
  <2> QED
    BY <1>1, <2>1, <2>2, <2>3, <2>4, QueueConverges
<1> QED
  BY <1>3, <1>4

LEMMA ClaimConverges ==
  ASSUME CInv, NEW w \in Worker, Claim(w)
  PROVE  CInv'
<1>1. /\ Inv' /\ Only(w) /\ UNCHANGED <<tasks, mirrors, google, target>>
      /\ workers[w].phase = "idle" /\ workers'[w].phase = "claimed"
      /\ Unmarked({"overran"}) /\ history.overran \subseteq history'.overran
  BY ClaimKeeps, ClaimEffect DEF CInv, Inv, Claim
<1>2. PICK j \in ClaimCandidates(outbox) :
        /\ outbox' = [outbox EXCEPT ![j] = ClaimRow(@, w)]
        /\ workers' = [workers EXCEPT ![w] =
             [Idle EXCEPT !.phase = "claimed", !.job = j, !.task = target[j]]]
  BY DEF Claim
<1>3. /\ workers \in [Worker -> State] /\ outbox \in [Job -> Row]
      /\ j \in Job /\ outbox[j] \in Row /\ Claimable(outbox[j])
  BY <1>2, Types DEF CInv, Inv, QueueInv, ClaimCandidates
<1>4. workers'[w].job = j /\ workers'[w].task = target[j]
  BY <1>2, <1>3 DEF Idle
<1>5. PICK row \in Row : /\ row = ClaimRow(outbox[j], w) /\ row.key = outbox[j].key
                         /\ row.status = "processing"
  BY <1>3, ClaimRowLemma
<1>6. outbox'[j] = row /\ \A i \in Job \ {j} : outbox'[i] = outbox[i]
  BY <1>2, <1>3, <1>5
<1>7. history'.late = history.late /\ history'.crossed = history.crossed /\ Grown
  BY <1>1, MarksGrow DEF Unmarked
<1>8. ASSUME NEW t \in Task, Unharmed(t)' PROVE Unharmed(t) /\ (Due(t) => Due(t)')
  <2>1. Unharmed(t)
    BY <1>1, <1>3, <1>6, <1>7, <1>8 DEF Unharmed, Grown, Claimable
  <2>2. ASSUME Due(t) PROVE Due(t)'
    <3>1. PICK i \in OpenRows(outbox, DueKey(t)) :
            \A v \in Worker : Running(v, i) => workers[v].phase # "saved"
      BY <2>2 DEF Due
    <3>2. i \in OpenRows(outbox, DueKey(t))'
      BY <1>1, <1>5, <1>6, <3>1 DEF OpenRows, Open, DueKey
    <3>3. \A v \in Worker : Running(v, i)' => workers'[v].phase # "saved"
      BY <1>1, <3>1 DEF Running, Only
    <3> QED
      BY <3>2, <3>3 DEF Due
  <2> QED
    BY <2>1, <2>2
<1>9. \A i \in Job : outbox'[i].key = outbox[i].key
  BY <1>5, <1>6
<1>10. ASSUME NEW v \in Worker, workers'[v] # workers[v]
       PROVE  /\ workers'[v].phase = "claimed" /\ workers'[v].job \in Job
              /\ workers'[v].task = target[workers'[v].job]
  BY <1>1, <1>3, <1>4, <1>10 DEF Only
<1> QED
  BY <1>1, <1>7, <1>8, <1>9, <1>10, QueueConverges

LEMMA TickConverges ==
  ASSUME CInv, Tick
  PROVE  CInv'
<1>1. Inv' /\ UNCHANGED <<tasks, mirrors, google, target, workers, history>>
  BY TickEffect, StandStill DEF CInv, Inv, Tick
<1>2. ASSUME NEW j \in Job
      PROVE  outbox'[j].key = outbox[j].key /\ outbox'[j].status = outbox[j].status
  <2>1. outbox[j] \in Row /\ outbox'[j] = AgeRow(outbox[j])
    BY Types DEF CInv, Inv, QueueInv, Tick
  <2> QED
    BY <2>1, AgeRowLemma
<1>3. Grown
  BY <1>1 DEF Grown, Doubled
<1>4. ASSUME NEW t \in Task, Unharmed(t)' PROVE Unharmed(t) /\ (Due(t) => Due(t)')
  <2>1. Unharmed(t)
    BY <1>1, <1>2, <1>4 DEF Unharmed, Doubled
  <2>2. Due(t) => Due(t)'
    BY <1>1, <1>2 DEF Due, OpenRows, DueKey, Running
  <2> QED
    BY <2>1, <2>2
<1> QED
  BY <1>1, <1>2, <1>3, <1>4, QueueConverges

(***************************************************************************)
(* The requests of the user: a change of t inserts a row or folds into one.*)
(***************************************************************************)
LEMMA RequestConverges ==
  ASSUME CInv, Inv', NEW t \in Task, UNCHANGED <<google, workers>>,
         \A u \in Task \ {t} : tasks'[u] = tasks[u],
         \A i \in Job :
           \/ outbox[i].status = "none" /\ outbox'[i].status = "pending"
           \/ outbox'[i].key = outbox[i].key /\ outbox'[i].status = outbox[i].status,
         \A m \in Mirror :
           /\ mirrors'[m].used = mirrors[m].used /\ mirrors'[m].event = mirrors[m].event
           /\ mirrors'[m].cal = mirrors[m].cal,
         Unmarked({"late"}), history.late \subseteq history'.late,
         TargetsKept', tasks'[t].exists => tasks[t].exists,
         \A v \in Worker : workers[v].task = t => UpToDate(v)',
         \A v \in Worker : outbox[workers[v].job].key # DueKey(t) =>
           outbox[workers[v].job].key # DueKey(t)' \/ workers[v].phase = "idle",
         Unharmed(t)' => Due(t)'
  PROVE  CInv'
<1>1. \A u : Doubled(u)' <=> Doubled(u)
  BY DEF Unmarked, Doubled
<1>2. ASSUME NEW v \in Worker, workers[v].phase # "idle"
      PROVE  workers[v].job \in Job /\ outbox'[workers[v].job].key = outbox[workers[v].job].key
  <2>1. workers[v].job \in Job /\ outbox[workers[v].job].status # "none"
    BY <1>2, WorkerFacts DEF CInv, Inv, QueueInv, RowsKeyed
  <2> QED
    BY <2>1
<1>3. TasksKnown'
  BY <1>2 DEF CInv, TasksKnown
<1>4. OneMirror'
  BY DEF CInv, OneMirror
<1>5. ASSUME NEW v \in Worker PROVE TakesAll(v)'
  <2> SUFFICES ASSUME workers[v].phase = "removing", NEW m \in Mirror, mirrors[m].used,
                      outbox'[workers[v].job].key = DueKey(mirrors[m].event)'
               PROVE  m \in workers[v].rows \/ Doubled(mirrors[m].event)'
    BY DEF TakesAll
  <2>1. PICK u \in Task : u = mirrors[m].event
    BY Types DEF CInv, Inv, QueueInv, MirrorsOwned, MirrorRow
  <2>2. outbox[workers[v].job].key = DueKey(u)'
    BY <1>2, <2>1 DEF DueKey
  <2>3. outbox[workers[v].job].key = DueKey(u)
    <3>1. CASE u = t
      BY <2>2, <3>1
    <3>2. CASE u # t
      BY <2>2, <3>2 DEF DueKey
    <3> QED
      BY <3>1, <3>2
  <2>4. m \in workers[v].rows \/ Doubled(u)
    BY <2>1, <2>3 DEF CInv, TakesAll
  <2> QED
    BY <1>1, <2>1, <2>4 DEF Doubled
<1>6. ASSUME NEW v \in Worker PROVE UpToDate(v)'
  <2>1. CASE workers[v].task = t
    BY <2>1
  <2>2. CASE workers[v].task # t
    <3>1. UpToDate(v) /\ workers[v].task \in Task \cup {NoTask}
      BY WorkerFacts DEF CInv, Inv
    <3>2. workers[v].task # NoTask => Wanted(workers[v].task)' = Wanted(workers[v].task)
      BY <2>2, <3>1 DEF Wanted
    <3>3. Doubled(workers[v].task)' <=> Doubled(workers[v].task)
      BY <1>1 DEF Doubled
    <3> QED
      BY <2>2, <3>1, <3>2, <3>3 DEF UpToDate
  <2> QED
    BY <2>1, <2>2
<1>7. Carried'
  <2> SUFFICES ASSUME NEW u \in Task, u # t, Unharmed(u)' PROVE Shaped(u)' \/ Due(u)'
    BY DEF Carried
  <2>1. Unharmed(u)
    <3>1. \A i \in Job : outbox[i].status = "dead" => outbox[i].key[2] # u
      BY DEF Unharmed
    <3> QED
      BY <1>1, <3>1 DEF Unharmed
  <2>2. CASE Shaped(u)
    <3>1. \A l : Recorded(u, l)' <=> Recorded(u, l)
      BY DEF Recorded
    <3>2. Wanted(u)' = Wanted(u)
      BY DEF Wanted
    <3> QED
      BY <2>2, <3>1, <3>2 DEF Shaped
  <2>3. CASE Due(u)
    <3>1. PICK i \in OpenRows(outbox, DueKey(u)) :
            \A v \in Worker : Running(v, i) => workers[v].phase # "saved"
      BY <2>3 DEF Due
    <3>2. i \in OpenRows(outbox, DueKey(u))'
      BY <3>1 DEF OpenRows, Open, DueKey
    <3> QED
      BY <3>1, <3>2 DEF Due, Running
  <2> QED
    BY <2>1, <2>2, <2>3 DEF CInv, Carried
<1> QED
  BY <1>3, <1>4, <1>5, <1>6, <1>7 DEF CInv

LEMMA UpdateTaskConverges ==
  ASSUME CInv, NEW t \in Task, UpdateTask(t)
  PROVE  CInv'
<1> DEFINE k == <<"upsert_task", t>>
<1>1. /\ Inv' /\ UNCHANGED <<mirrors, google, workers>>
      /\ \A u \in Task : tasks'[u].exists = tasks[u].exists
      /\ \A u \in Task \ {t} : tasks'[u] = tasks[u]
      /\ Unmarked({"late"}) /\ history.late \subseteq history'.late
      /\ \A v \in Worker :
           workers[v].task = t /\ workers[v].phase \notin {"idle", "claimed"}
             => t \in history'.late \/ Doubled(t)
  BY UpdateTaskKeeps, UpdateTaskEffect DEF CInv, Inv
<1>2. tasks[t].exists /\ Enqueue(k, t) /\ outbox \in [Job -> Row] /\ tasks'[t].exists
  BY <1>1, Types DEF UpdateTask, CInv, Inv, QueueInv
<1>3. \A i \in Job :
        \/ /\ outbox[i].status = "none" /\ outbox'[i].status = "pending"
           /\ outbox'[i].key = k /\ target'[i] = t
        \/ /\ outbox'[i].key = outbox[i].key /\ outbox'[i].status = outbox[i].status
           /\ target'[i] = target[i]
  BY <1>2, EnqueueFacts DEF CInv, Inv
<1>4. TargetsKept'
  BY <1>1, <1>3, PairFacts DEF CInv, TargetsKept
<1>5. DueKey(t) = k /\ DueKey(t)' = k
  BY <1>2 DEF DueKey
<1>6. ASSUME Unharmed(t)' PROVE Due(t)'
  <2>1. t \notin history'.late /\ ~Doubled(t)
    BY <1>1, <1>2, <1>6 DEF Unharmed, Doubled, Unmarked
  <2>2. CASE OpenRows(outbox, k) = {}
    <3>1. PICK j \in Job : outbox[j].status = "none" /\ outbox' = [outbox EXCEPT ![j] = NewRow(k)]
      BY <1>2, <2>2 DEF Enqueue
    <3>2. outbox'[j].key = k /\ outbox'[j].status = "pending"
      BY <1>2, <3>1, NewRowLemma, UpsertKey
    <3>3. \A v \in Worker : ~Running(v, j)
      BY <3>1, WorkerFacts DEF Running, CInv, Inv, QueueInv, RowsKeyed
    <3> QED
      BY <1>1, <1>5, <3>2, <3>3 DEF Due, OpenRows, Open, Running
  <2>3. CASE OpenRows(outbox, k) # {}
    <3>1. PICK j \in OpenRows(outbox, k) : TRUE
      BY <2>3
    <3>2. j \in OpenRows(outbox', k)
      BY <1>3, <3>1 DEF OpenRows, Open
    <3>3. ASSUME NEW v \in Worker, Running(v, j), workers[v].phase = "saved" PROVE FALSE
      <4>1. workers[v].task = t
        BY <1>2, <3>1, <3>3 DEF CInv, TasksKnown, Running, OpenRows
      <4> QED
        BY <1>1, <2>1, <3>3, <4>1
    <3> QED
      BY <1>1, <1>5, <3>2, <3>3 DEF Due, Running
  <2> QED
    BY <2>2, <2>3
<1>7. ASSUME NEW v \in Worker, workers[v].task = t PROVE UpToDate(v)'
  <2>1. CASE workers[v].phase \in {"idle", "claimed"}
    BY <1>1, <2>1 DEF UpToDate
  <2>2. CASE workers[v].phase \notin {"idle", "claimed"}
    BY <1>1, <1>7, <2>2 DEF UpToDate, Doubled, Unmarked
  <2> QED
    BY <2>1, <2>2
<1> QED
  BY <1>1, <1>2, <1>3, <1>4, <1>5, <1>6, <1>7, RequestConverges

LEMMA DeleteTaskConverges ==
  ASSUME CInv, NEW t \in Task, DeleteTask(t)
  PROVE  CInv'
<1> DEFINE k == <<"delete_task", t>>
<1>1. /\ Inv' /\ UNCHANGED <<google, workers, history>>
      /\ ~tasks'[t].exists /\ \A u \in Task \ {t} : tasks'[u] = tasks[u]
      /\ \A m \in Mirror :
           /\ mirrors'[m].used = mirrors[m].used /\ mirrors'[m].event = mirrors[m].event
           /\ mirrors'[m].cal = mirrors[m].cal
  BY DeleteTaskKeeps, DeleteTaskEffect DEF CInv, Inv
<1>2. /\ tasks[t].exists /\ outbox \in [Job -> Row]
      /\ \A i \in Job : target'[i] = IF target[i] = t THEN NoTask ELSE target[i]
  BY Types DEF DeleteTask, CInv, Inv, QueueInv
<1>3. PICK j \in Job : outbox[j].status = "none" /\ outbox' = [outbox EXCEPT ![j] = NewRow(k)]
  BY DEF DeleteTask
<1>4. /\ outbox'[j].key = k /\ outbox'[j].status = "pending"
      /\ \A i \in Job \ {j} : outbox'[i] = outbox[i]
  BY <1>2, <1>3, NewRowLemma, UpsertKey
<1>5. TargetsKept'
  <2> SUFFICES ASSUME NEW u \in Task, NEW i \in Job, tasks'[u].exists
               PROVE  /\ outbox'[i].key # <<"delete_task", u>>
                      /\ outbox'[i].key = <<"upsert_task", u>> => target'[i] = u
    BY DEF TargetsKept
  <2>1. u # t /\ tasks[u].exists
    BY <1>1
  <2>2. CASE i = j
    BY <1>4, <2>1, <2>2
  <2>3. CASE i # j
    BY <1>2, <1>4, <2>1, <2>3 DEF CInv, TargetsKept
  <2> QED
    BY <2>2, <2>3
<1>6. DueKey(t)' = k
  BY <1>1 DEF DueKey
<1>7. Due(t)'
  <2>1. \A v \in Worker : ~Running(v, j)
    BY <1>3, WorkerFacts DEF Running, CInv, Inv, QueueInv, RowsKeyed
  <2> QED
    BY <1>1, <1>4, <1>6, <2>1 DEF Due, OpenRows, Open, Running
<1>8. ASSUME NEW v \in Worker, workers[v].phase # "idle" PROVE outbox[workers[v].job].key # k
  <2>1. workers[v].job \in Job
    BY <1>8, WorkerFacts DEF CInv, Inv
  <2> QED
    BY <1>2, <2>1 DEF CInv, TargetsKept
<1>9. \A v \in Worker : workers[v].task = t => UpToDate(v)'
  BY <1>1 DEF UpToDate
<1>10. Unmarked({"late"}) /\ history.late \subseteq history'.late
  BY <1>1 DEF Unmarked
<1> QED
  BY <1>1, <1>2, <1>3, <1>4, <1>5, <1>6, <1>7, <1>8, <1>9, <1>10, RequestConverges

-----------------------------------------------------------------------------
LEMMA StutterConverges ==
  ASSUME CInv, UNCHANGED vars
  PROVE  CInv'
<1>1. Inv'
  BY NextInv DEF CInv
<1>2. /\ UNCHANGED <<tasks, mirrors, google, target, outbox, workers>>
      /\ history' = history
  BY DEF vars
<1>3. Grown
  BY <1>2 DEF Grown, Doubled
<1>4. ASSUME NEW t \in Task, Unharmed(t)' PROVE Unharmed(t) /\ (Due(t) => Due(t)')
  <2>1. Unharmed(t)
    BY <1>2, <1>4 DEF Unharmed, Doubled
  <2>2. Due(t) => Due(t)'
    BY <1>2 DEF Due, OpenRows, DueKey, Running
  <2> QED
    BY <2>1, <2>2
<1> QED
  BY <1>1, <1>2, <1>3, <1>4, QueueConverges

LEMMA InitCInv == Init => CInv
<1> SUFFICES ASSUME Init PROVE CInv
  OBVIOUS
<1>1. Inv
  BY InitInv
<1>2. PICK jobOf \in [Task -> Job] :
        /\ \A s, t \in Task : s # t => jobOf[s] # jobOf[t]
        /\ outbox = [j \in Job |->
             IF \E t \in Task : jobOf[t] = j
             THEN NewRow(<<"upsert_task", CHOOSE t \in Task : jobOf[t] = j>>)
             ELSE NoRow]
        /\ target = [j \in Job |->
             IF \E t \in Task : jobOf[t] = j
             THEN CHOOSE t \in Task : jobOf[t] = j ELSE NoTask]
  BY DEF Init
<1>3. ASSUME NEW j \in Job
      PROVE  \/ outbox[j].key = NoKey
             \/ /\ target[j] \in Task /\ jobOf[target[j]] = j
                /\ outbox[j].key = <<"upsert_task", target[j]>>
                /\ outbox[j].status = "pending"
  <2>1. CASE \E t \in Task : jobOf[t] = j
    <3>1. target[j] \in Task /\ jobOf[target[j]] = j
          /\ outbox[j] = NewRow(<<"upsert_task", target[j]>>)
      BY <1>2, <2>1
    <3> QED
      BY <3>1, UpsertKey, NewRowLemma
  <2>2. CASE ~ \E t \in Task : jobOf[t] = j
    BY <1>2, <2>2 DEF NoRow
  <2> QED
    BY <2>1, <2>2
<1>4. ASSUME NEW t \in Task
      PROVE  /\ tasks[t].exists
             /\ outbox[jobOf[t]].key = <<"upsert_task", t>>
             /\ outbox[jobOf[t]].status = "pending"
  <2>1. tasks \in [Task -> [exists: {TRUE}, active: {TRUE}, list: List, version: {1}]]
    BY DEF Init
  <2>2. tasks[t].exists
    BY <2>1
  <2> DEFINE j == jobOf[t]
             s == CHOOSE u \in Task : jobOf[u] = j
  <2>3. j \in Job /\ s \in Task /\ jobOf[s] = j
    BY <1>2
  <2>4. s = t
    BY <1>2, <2>3
  <2>5. outbox[j] = NewRow(<<"upsert_task", s>>)
    BY <1>2, <2>3
  <2> QED
    BY <2>2, <2>4, <2>5, UpsertKey, NewRowLemma
<1>5. \A w \in Worker : workers[w].phase = "idle"
  BY IdleType DEF Init
<1>6. TargetsKept
  <2> SUFFICES ASSUME NEW t \in Task, NEW j \in Job
               PROVE  /\ outbox[j].key # <<"delete_task", t>>
                      /\ outbox[j].key = <<"upsert_task", t>> => target[j] = t
    BY DEF TargetsKept
  <2>1. NoKey # <<"delete_task", t>> /\ NoKey # <<"upsert_task", t>>
    BY UpsertKey, QueueAssumption
  <2>2. CASE outbox[j].key = NoKey
    BY <2>1, <2>2
  <2>3. CASE outbox[j].key = <<"upsert_task", target[j]>>
    <3>1. <<"upsert_task", target[j]>> # <<"delete_task", t>>
      OBVIOUS
    <3> QED
      BY <2>3, <3>1, PairFacts
  <2> QED
    BY <1>3, <2>2, <2>3
<1>7. TasksKnown
  BY <1>5 DEF TasksKnown
<1>8. OneMirror
  BY DEF Init, FreeRow, OneMirror
<1>9. \A w \in Worker : TakesAll(w) /\ UpToDate(w)
  BY <1>5 DEF TakesAll, UpToDate
<1>10. Carried
  <2> SUFFICES ASSUME NEW t \in Task PROVE Due(t)
    BY DEF Carried
  <2>1. jobOf[t] \in OpenRows(outbox, DueKey(t))
    BY <1>2, <1>4 DEF OpenRows, Open, DueKey
  <2>2. \A w \in Worker : ~Running(w, jobOf[t])
    BY <1>5 DEF Running
  <2> QED
    BY <2>1, <2>2 DEF Due
<1> QED
  BY <1>1, <1>6, <1>7, <1>8, <1>9, <1>10 DEF CInv

LEMMA NextCInv == CInv /\ [Next]_vars => CInv'
<1> SUFFICES ASSUME CInv, [Next]_vars PROVE CInv'
  OBVIOUS
<1>1. CASE \E t \in Task : UpdateTask(t) \/ DeleteTask(t)
  BY <1>1, UpdateTaskConverges, DeleteTaskConverges
<1>2. CASE \E w \in Worker : Fail(w) \/ Crash(w)
  BY <1>2, CutShortConverges
<1>3. CASE \E w \in Worker : WorkerStep(w)
  <2>1. PICK w \in Worker : WorkerStep(w)
    BY <1>3
  <2>2. CASE Claim(w) \/ StartDelete(w) \/ SkipUpsert(w) \/ ReadTask(w) \/ LockList(w)
    BY <2>2, ClaimConverges, StartDeleteConverges, SkipUpsertConverges, ReadTaskConverges,
       LockListConverges
  <2>3. CASE CreateCalendar(w) \/ SendEvent(w) \/ RemoveOld(w) \/ Commit(w) \/ CommitRefused(w)
    BY <2>3, CreateCalendarConverges, SendEventConverges, RemoveOldConverges, CommitConverges,
       CommitRefusedConverges
  <2>4. CASE RemoveEvent(w) \/ CommitRemoval(w) \/ Finish(w)
    BY <2>4, RemoveEventConverges, CommitRemovalConverges, FinishConverges
  <2>5. CASE workers[w].phase = "broken" /\ Fail(w)
    BY <2>5, CutShortConverges
  <2> QED
    BY <2>1, <2>2, <2>3, <2>4, <2>5 DEF WorkerStep
<1>4. CASE Tick
  BY <1>4, TickConverges
<1>5. CASE UNCHANGED vars
  BY <1>5, StutterConverges
<1> QED
  BY <1>1, <1>2, <1>3, <1>4, <1>5 DEF Next

LEMMA CInvAlways == Spec => []CInv
  BY InitCInv, NextCInv, PTL DEF Spec

(***************************************************************************)
(* When all jobs are over nothing is due, so every task whose jobs met     *)
(* none of the accidents that Healthy names is shaped as it should be, and *)
(* an event that no mirror records is one that a cut run has left.         *)
(***************************************************************************)
LEMMA QuietIsConverged == CInv => Converged
<1> SUFFICES ASSUME CInv, Quiet, NEW t \in Task, Healthy(t)
             PROVE  /\ \A l \in Wanted(t) : google[<<t, l>>] = tasks[t].version
                    /\ \A l \in Shown(t) \ Wanted(t) : <<t, l>> \in history.strays
  BY DEF Converged
<1>1. Unharmed(t)
  BY DEF Healthy, Unharmed
<1>2. ~Due(t)
  BY DEF Quiet, Due, OpenRows
<1>3. Shaped(t)
  BY <1>1, <1>2 DEF CInv, Carried
<1>4. ASSUME NEW l \in Shown(t) \ Wanted(t) PROVE <<t, l>> \in history.strays
  <2>1. l \in List /\ l \in Shown(t)
    BY DEF Shown
  <2>2. ~Recorded(t, l)
    BY <1>3, <2>1 DEF Shaped
  <2>3. ~ \E w \in Worker : workers[w].phase \in {"sent", "cleaned", "broken"}
    BY DEF Quiet
  <2> QED
    BY <2>1, <2>2, <2>3 DEF CInv, Inv, EventsTracked, Healthy
<1> QED
  BY <1>3, <1>4 DEF Shaped

(***************************************************************************)
(* Once every job is over, each task shows in the calendar it belongs to,  *)
(* in its last version, and in no other, but for events that a cut run has *)
(* left: whatever failed, crashed, moved or was deleted in between, unless *)
(* a job died or its claim outlived its lease, or a change was folded into *)
(* a run that had read the task (sync_one_task, delete_task_mirrors,       *)
(* enqueue_sync_job).                                                      *)
(***************************************************************************)
THEOREM MirrorsConverge == Spec => []Converged
  BY CInvAlways, QuietIsConverged, PTL
=============================================================================
