-------------------------- MODULE MirrorSyncProofs --------------------------
(***************************************************************************)
(* What holds of the mirrors for every number of tasks, categories, jobs   *)
(* and workers.                                                            *)
(***************************************************************************)
EXTENDS MirrorSync, OutboxQueueProofs

(***************************************************************************)
(* A row in use has a key.  Only the upsert_task rows of a task that is    *)
(* there still name it.                                                    *)
(***************************************************************************)
RowsKeyed ==
  \A j \in Job :
    /\ outbox[j].status # "none" <=> outbox[j].key \in Key
    /\ target[j] # NoTask =>
         /\ tasks[target[j]].exists
         /\ outbox[j].key = <<"upsert_task", target[j]>>

(***************************************************************************)
(* What a worker remembers fits the point its run has come to.             *)
(***************************************************************************)
Syncing == {"read", "unmapped", "found", "sent", "cleaned", "broken"}

Placed(s) ==
  /\ s.phase = "idle" => s = Idle
  /\ s.phase \in Syncing => s.task # NoTask /\ s.cal # NoList
  /\ s.phase \in Syncing \ {"broken"} => s.version > 0
  /\ s.phase = "cleaned" => s.mirror # NoMirror /\ s.old # s.cal
  /\ s.phase \in {"claimed", "read", "unmapped", "removing"} => s.mirror = NoMirror
  /\ s.mirror # NoMirror => s.old # NoList

(***************************************************************************)
(* A busy worker is at a row in use, and the task it works for is the one  *)
(* the row was about when it was claimed.                                  *)
(***************************************************************************)
RowOK(s) ==
  s.phase # "idle" =>
    /\ s.job \in Job /\ outbox[s.job].key \in Key
    /\ s.task # NoTask => outbox[s.job].key = <<"upsert_task", s.task>>

(***************************************************************************)
(* The mirror a run has found is never another task's: an id is not used   *)
(* again while a run remembers it.                                         *)
(***************************************************************************)
MirrorOK(s) ==
  s.phase \in {"found", "sent", "cleaned"} /\ s.mirror # NoMirror /\ mirrors[s.mirror].used
    => mirrors[s.mirror].event = s.task

WorkersPlaced ==
  \A w \in Worker :
    Placed(workers[w]) /\ RowOK(workers[w]) /\ MirrorOK(workers[w])

TasksVersioned == \A t \in Task : tasks[t].version > 0

(***************************************************************************)
(* A mirror belongs to the task of its event for as long as there is one.  *)
(***************************************************************************)
MirrorsOwned ==
  \A m \in Mirror :
    IF mirrors[m].used
    THEN /\ mirrors[m].event # NoTask /\ mirrors[m].cal # NoList
         /\ mirrors[m].owner = IF tasks[mirrors[m].event].exists
                               THEN mirrors[m].event ELSE NoTask
    ELSE mirrors[m] = FreeRow

(***************************************************************************)
(* One open row for each upsert_task key, run by the worker that locked    *)
(* it, as long as no claim on that key outlived its lease: two runs for    *)
(* one task make it Doubled.                                               *)
(***************************************************************************)
HolderOwns ==
  \A w \in Worker, j \in Job :
    Running(w, j) /\ outbox[j].key \notin history.overran
      => outbox[j].status = "processing" /\ outbox[j].lockedBy = w

OneOpenRow ==
  \A t \in Task : <<"upsert_task", t>> \notin history.overran =>
    \A i, j \in OpenRows(outbox, <<"upsert_task", t>>) : i = j

QueueInv ==
  /\ TypeOK /\ RowsKeyed /\ WorkersPlaced /\ TasksVersioned /\ MirrorsOwned
  /\ HolderOwns /\ OneOpenRow

(***************************************************************************)
(* The mirror a run has found stays as it was found.                       *)
(***************************************************************************)
MirrorHeld(w) ==
  workers[w].phase \in {"found", "sent", "cleaned"} /\ workers[w].mirror # NoMirror =>
    LET m == workers[w].mirror IN
    Doubled(workers[w].task) \/ (mirrors[m].used /\ mirrors[m].cal = workers[w].old)

(***************************************************************************)
(* The mirrors a removal is going to drop are its task's, or of tasks that *)
(* are gone; their events are removed or still to be removed, and nobody   *)
(* else is at work for them.                                               *)
(***************************************************************************)
RemovalHeld(w, m) ==
  LET t == mirrors[m].event
      e == <<t, mirrors[m].cal>>
  IN  /\ t = workers[w].task \/ ~tasks[t].exists
      /\ e \in workers[w].doomed \/ google[e] = NoEvent \/ Doubled(t)
      /\ \A v \in Worker \ {w} : workers[v].task = t => Doubled(t)

RowsHeld(w) ==
  workers[w].phase = "removing" =>
    \A m \in workers[w].rows : mirrors[m].used => RemovalHeld(w, m)

DoomedHeld(w) ==
  workers[w].phase = "removing" =>
    \A e \in workers[w].doomed : e[1] = workers[w].task \/ ~tasks[e[1]].exists

(***************************************************************************)
(* What a run has sent is shown until another run takes it away on         *)
(* purpose, and what it has removed stays removed.                         *)
(***************************************************************************)
SentShows(w) ==
  workers[w].phase \in {"sent", "cleaned"} =>
    LET t == workers[w].task IN
    google[<<t, workers[w].cal>>] # NoEvent \/ t \in history.hidden \/ Doubled(t)

OldGone(w) ==
  workers[w].phase = "cleaned" =>
    google[<<workers[w].task, workers[w].old>>] = NoEvent \/ Doubled(workers[w].task)

(***************************************************************************)
(* A run that has read its task goes for the category the task still has,  *)
(* or removes the events of one that is not to be shown.                   *)
(***************************************************************************)
ReadAgrees(w) ==
  LET t == workers[w].task IN
  t # NoTask /\ t \notin history.late /\ ~Doubled(t) =>
    /\ workers[w].phase \in {"read", "unmapped", "found", "sent", "cleaned"} =>
         Wanted(t) \subseteq {workers[w].cal}
    /\ workers[w].phase = "removing" => Wanted(t) = {}

HeldBy(w) ==
  /\ MirrorHeld(w) /\ RowsHeld(w) /\ DoomedHeld(w)
  /\ SentShows(w) /\ OldGone(w) /\ ReadAgrees(w)

Held == \A w \in Worker : HeldBy(w)

Inv == QueueInv /\ Held /\ EventsTracked /\ NeverDark
-----------------------------------------------------------------------------
(***************************************************************************)
(* Lemmas about the types.                                                 *)
(***************************************************************************)
State == [phase: Phase, job: Job \cup {NoJob}, task: Task \cup {NoTask}, version: Nat,
          cal: List \cup {NoList}, mirror: Mirror \cup {NoMirror},
          old: List \cup {NoList}, rows: SUBSET Mirror,
          doomed: SUBSET (Task \X List)]

MirrorRow == [used: BOOLEAN, owner: Task \cup {NoTask},
              event: Task \cup {NoTask}, cal: List \cup {NoList}]

TaskRow == [exists: BOOLEAN, active: BOOLEAN, list: List \cup {NoList}, version: Nat]

History == [late: SUBSET Task, strays: SUBSET (Task \X List),
            hidden: SUBSET Task, overran: SUBSET Key, crossed: SUBSET Task]

LEMMA Types ==
  TypeOK <=> /\ tasks \in [Task -> TaskRow] /\ mapped \subseteq List
             /\ locks \in [List -> Worker \cup {NoWorker}]
             /\ mirrors \in [Mirror -> MirrorRow] /\ google \in [Task \X List -> Nat]
             /\ outbox \in [Job -> Row] /\ target \in [Job -> Task \cup {NoTask}]
             /\ workers \in [Worker -> State]
             /\ budget \in [changes: Nat, crashes: Nat] /\ history \in History
  BY DEF TypeOK, HistoryOK, State, MirrorRow, TaskRow, History

LEMMA IdleType ==
  /\ Idle \in State /\ Idle.phase = "idle" /\ Idle.job = NoJob /\ Idle.task = NoTask
  /\ Idle.mirror = NoMirror /\ Placed(Idle) /\ RowOK(Idle) /\ MirrorOK(Idle)
<1>1. Idle \in State
  BY DEF Idle, State, Phase
<1> QED
  BY <1>1 DEF Idle, Placed, RowOK, MirrorOK, Syncing

LEMMA UpsertKey ==
  ASSUME NEW t \in Task
  PROVE  <<"upsert_task", t>> \in Key /\ <<"delete_task", t>> \in Key
  BY MirrorAssumption

(***************************************************************************)
(* Two workers at work for one task: a claim on its upsert_task job has    *)
(* outlived its lease.                                                     *)
(***************************************************************************)
DoubleRun ==
  \A v, w \in Worker :
    v # w /\ workers[v].task = workers[w].task /\ workers[w].task # NoTask
      => Doubled(workers[w].task)

LEMMA OneRun == QueueInv => DoubleRun
<1> SUFFICES ASSUME QueueInv, NEW v \in Worker, NEW w \in Worker, v # w,
                    workers[v].task = workers[w].task, workers[w].task # NoTask
             PROVE  Doubled(workers[w].task)
  BY DEF DoubleRun
<1> DEFINE t == workers[w].task
           k == <<"upsert_task", t>>
           i == workers[v].job
           j == workers[w].job
<1>1. t \in Task /\ workers[v] \in State /\ workers[w] \in State
  BY Types DEF QueueInv, State
<1>2. workers[v].phase # "idle" /\ workers[w].phase # "idle"
  BY IdleType DEF QueueInv, WorkersPlaced, Placed
<1>3. /\ i \in Job /\ j \in Job /\ outbox[i].key = k /\ outbox[j].key = k
  BY <1>2 DEF QueueInv, WorkersPlaced, RowOK
<1>4. CASE k \in history.overran
  BY <1>4 DEF Doubled
<1>5. CASE k \notin history.overran
  <2>1. /\ outbox[i].status = "processing" /\ outbox[i].lockedBy = v
        /\ outbox[j].status = "processing" /\ outbox[j].lockedBy = w
    BY <1>2, <1>3, <1>5 DEF QueueInv, HolderOwns, Running
  <2>2. i \in OpenRows(outbox, k) /\ j \in OpenRows(outbox, k)
    BY <1>3, <2>1 DEF OpenRows, Open
  <2>3. i = j
    BY <1>1, <1>5, <2>2 DEF QueueInv, OneOpenRow
  <2> QED
    BY <2>1, <2>3
<1> QED
  BY <1>4, <1>5

LEMMA OneRunNext == QueueInv' => DoubleRun'
  BY OneRun, PTL

-----------------------------------------------------------------------------
(***************************************************************************)
(* Every action preserves QueueInv.  Most steps of a run change only what  *)
(* the worker remembers, what Google shows and the locks.                  *)
(***************************************************************************)
Only(w) == \A v \in Worker \ {w} : workers'[v] = workers[v]

LEMMA StepWithin ==
  ASSUME QueueInv, NEW w \in Worker, NEW s \in State,
         workers' = [workers EXCEPT ![w] = s],
         workers[w].phase # "idle", s.phase # "idle",
         s.job = workers[w].job, s.task = workers[w].task, Placed(s), MirrorOK(s),
         mapped' \subseteq List, locks' \in [List -> Worker \cup {NoWorker}],
         google' \in [Task \X List -> Nat],
         history' \in History, history'.overran = history.overran,
         UNCHANGED <<tasks, mirrors, outbox, target, budget>>
  PROVE  QueueInv' /\ workers'[w] = s /\ Only(w)
<1>1. workers \in [Worker -> State]
  BY Types DEF QueueInv
<1>2. /\ workers' \in [Worker -> State]
      /\ workers'[w] = s /\ \A v \in Worker \ {w} : workers'[v] = workers[v]
  BY <1>1
<1>3. TypeOK'
  BY <1>2, Types DEF QueueInv, TypeOK, HistoryOK, State, History
<1>4. RowsKeyed' /\ TasksVersioned' /\ MirrorsOwned'
  BY DEF QueueInv, RowsKeyed, TasksVersioned, MirrorsOwned
<1>5. WorkersPlaced'
  <2> SUFFICES ASSUME NEW v \in Worker
               PROVE  (Placed(workers[v]) /\ RowOK(workers[v]) /\ MirrorOK(workers[v]))'
    BY DEF WorkersPlaced
  <2>1. CASE v = w
    BY <1>2, <2>1 DEF QueueInv, WorkersPlaced, Placed, RowOK, MirrorOK
  <2>2. CASE v # w
    BY <1>2, <2>2 DEF QueueInv, WorkersPlaced, Placed, RowOK, MirrorOK
  <2> QED
    BY <2>1, <2>2
<1>6. HolderOwns'
  BY <1>2 DEF QueueInv, HolderOwns, Running
<1>7. OneOpenRow'
  BY DEF QueueInv, OneOpenRow
<1> QED
  BY <1>2, <1>3, <1>4, <1>5, <1>6, <1>7 DEF QueueInv, Only

\* A step of the worker alone, and one that leaves the other fields of history.
Unmarked(fields) ==
  \A f \in {"late", "strays", "hidden", "overran", "crossed"} \ fields :
    history'[f] = history[f]

LEMMA WorkerFacts ==
  ASSUME QueueInv, NEW w \in Worker
  PROVE  /\ workers[w] \in State /\ workers[w].job \in Job \cup {NoJob}
         /\ workers[w].task \in Task \cup {NoTask} /\ workers[w].cal \in List \cup {NoList}
         /\ workers[w].old \in List \cup {NoList}
         /\ workers[w].mirror \in Mirror \cup {NoMirror}
         /\ workers[w].rows \subseteq Mirror /\ workers[w].doomed \subseteq Task \X List
         /\ workers[w].version \in Nat
         /\ Placed(workers[w]) /\ RowOK(workers[w]) /\ MirrorOK(workers[w])
         /\ workers[w].phase # "idle" =>
              /\ workers[w].job \in Job /\ outbox[workers[w].job] \in Row
              /\ outbox[workers[w].job].key \in Key
         /\ workers[w].phase \in Syncing =>
              workers[w].task \in Task /\ workers[w].cal \in List
<1>1. workers[w] \in State
  BY Types DEF QueueInv
<1>2. Placed(workers[w]) /\ RowOK(workers[w]) /\ MirrorOK(workers[w])
  BY DEF QueueInv, WorkersPlaced
<1>3. workers[w].phase # "idle" =>
        /\ workers[w].job \in Job /\ outbox[workers[w].job] \in Row
        /\ outbox[workers[w].job].key \in Key
  BY <1>2, Types DEF QueueInv, RowOK
<1> QED
  BY <1>1, <1>2, <1>3 DEF State, Placed

LEMMA RemovalFacts ==
  ASSUME QueueInv, NEW w \in Worker, workers[w].phase = "claimed", NEW t
  PROVE  /\ Removal(w, t) \in State /\ Removal(w, t).phase = "removing"
         /\ Removal(w, t).rows = OwnedBy(t)
         /\ Removal(w, t).doomed = {<<mirrors[m].event, mirrors[m].cal>> : m \in OwnedBy(t)}
         /\ Removal(w, t).job = workers[w].job /\ Removal(w, t).task = workers[w].task
         /\ Placed(Removal(w, t)) /\ MirrorOK(Removal(w, t))
<1> DEFINE rows == OwnedBy(t)
           doomed == {<<mirrors[m].event, mirrors[m].cal>> : m \in OwnedBy(t)}
<1>1. rows \subseteq Mirror
  BY DEF OwnedBy
<1>2. doomed \subseteq Task \X List
  <2> SUFFICES ASSUME NEW m \in OwnedBy(t)
               PROVE  mirrors[m].event \in Task /\ mirrors[m].cal \in List
    OBVIOUS
  <2>1. m \in Mirror /\ mirrors[m].used /\ mirrors[m] \in MirrorRow
    BY Types DEF OwnedBy, QueueInv
  <2> QED
    BY <2>1 DEF QueueInv, MirrorsOwned, MirrorRow
<1>3. workers[w] \in State /\ Placed(workers[w])
  BY WorkerFacts
<1>4. Removal(w, t) = [workers[w] EXCEPT !.phase = "removing", !.rows = rows, !.doomed = doomed]
  BY DEF Removal
<1> HIDE DEF rows, doomed
<1>5. Removal(w, t) \in State
  BY <1>1, <1>2, <1>3, <1>4, Zenon DEF State, Phase
<1>6. /\ Removal(w, t).phase = "removing" /\ Removal(w, t).rows = rows
      /\ Removal(w, t).doomed = doomed
      /\ Removal(w, t).job = workers[w].job /\ Removal(w, t).task = workers[w].task
      /\ Removal(w, t).mirror = workers[w].mirror
  BY <1>3, <1>4, Zenon DEF State
<1>7. Placed(Removal(w, t)) /\ MirrorOK(Removal(w, t))
  BY <1>3, <1>6 DEF Placed, MirrorOK, Syncing
<1> QED
  BY <1>5, <1>6, <1>7 DEF rows, doomed

\* What only the runs of one task are told apart by.
LEMMA HistoryFacts ==
  ASSUME QueueInv
  PROVE  /\ history \in History /\ history.late \subseteq Task /\ history.hidden \subseteq Task
         /\ history.strays \subseteq Task \X List /\ history.crossed \subseteq Task
         /\ history.overran \subseteq Key
<1>1. history \in History
  BY Types DEF QueueInv
<1> QED
  BY <1>1 DEF History

LEMMA StartDeleteEffect ==
  ASSUME QueueInv, NEW w \in Worker, StartDelete(w)
  PROVE  /\ QueueInv' /\ Only(w)
         /\ UNCHANGED <<tasks, mirrors, google>>
         /\ workers[w].phase = "claimed" /\ workers[w].task = NoTask
         /\ workers'[w] = Removal(w, NoTask)
         /\ Unmarked({"crossed"}) /\ history.crossed \subseteq history'.crossed
         /\ \A m \in OwnedBy(NoTask), v \in Worker \ {w} :
              workers[v].task = mirrors[m].event => mirrors[m].event \in history'.crossed
<1>1. /\ workers[w].phase = "claimed" /\ Operation(w) = "delete_task"
      /\ workers' = [workers EXCEPT ![w] = Removal(w, workers[w].task)]
      /\ UNCHANGED <<tasks, mapped, locks, mirrors, google, outbox, target, budget>>
  BY DEF StartDelete
<1>2. workers[w].task = NoTask
  BY <1>1, WorkerFacts DEF Operation, RowOK
<1> DEFINE more == {mirrors[m].event : m \in OwnedBy(workers[w].task)}
                     \cap {workers[v].task : v \in Worker \ {w}}
<1>3. more \subseteq Task
  <2> SUFFICES ASSUME NEW m \in OwnedBy(workers[w].task) PROVE mirrors[m].event \in Task
    OBVIOUS
  <2>1. m \in Mirror /\ mirrors[m].used /\ mirrors[m] \in MirrorRow
    BY Types DEF OwnedBy, QueueInv
  <2> QED
    BY <2>1 DEF QueueInv, MirrorsOwned, MirrorRow
<1>4. PICK crossed \in SUBSET Task : crossed = history.crossed \cup more
  BY <1>3, HistoryFacts
<1>5. history' = [history EXCEPT !.crossed = crossed]
  BY <1>4 DEF StartDelete
<1>6. /\ history' \in History /\ history'.crossed = crossed /\ Unmarked({"crossed"})
      /\ history'.overran = history.overran
  BY <1>5, HistoryFacts DEF History, Unmarked
<1>7. QueueInv' /\ workers'[w] = Removal(w, NoTask) /\ Only(w)
  BY <1>1, <1>2, <1>6, RemovalFacts, StepWithin, Types DEF QueueInv
<1>8. \A m \in OwnedBy(NoTask), v \in Worker \ {w} :
        workers[v].task = mirrors[m].event => mirrors[m].event \in crossed
  BY <1>2, <1>4
<1> QED
  BY <1>1, <1>2, <1>4, <1>5, <1>6, <1>7, <1>8

LEMMA SkipUpsertEffect ==
  ASSUME QueueInv, NEW w \in Worker, SkipUpsert(w)
  PROVE  /\ QueueInv' /\ Only(w)
         /\ UNCHANGED <<tasks, mirrors, google, history>>
         /\ workers'[w].phase = "saved" /\ workers'[w].task = NoTask
<1>1. /\ workers[w].phase = "claimed" /\ workers[w].task = NoTask
      /\ UNCHANGED <<tasks, mapped, locks, mirrors, google, outbox, target, budget, history>>
  BY DEF SkipUpsert
<1>2. PICK s : s = [workers[w] EXCEPT !.phase = "saved"]
  OBVIOUS
<1>3. workers[w] \in State /\ Placed(workers[w])
  BY WorkerFacts
<1>4. s \in State
  BY <1>2, <1>3, Zenon DEF State, Phase
<1>5. /\ s.phase = "saved" /\ s.job = workers[w].job /\ s.task = workers[w].task
      /\ s.mirror = workers[w].mirror
  BY <1>2, <1>3, Zenon DEF State
<1>6. Placed(s) /\ MirrorOK(s)
  BY <1>1, <1>3, <1>5 DEF Placed, MirrorOK, Syncing
<1>7. workers' = [workers EXCEPT ![w] = s]
  BY <1>2 DEF SkipUpsert
<1>8. /\ mapped' \subseteq List /\ locks' \in [List -> Worker \cup {NoWorker}]
      /\ google' \in [Task \X List -> Nat] /\ history' \in History
  BY <1>1, Types DEF QueueInv
<1> QED
  BY <1>1, <1>4, <1>5, <1>6, <1>7, <1>8, StepWithin

LEMMA ReadTaskEffect ==
  ASSUME QueueInv, NEW w \in Worker, ReadTask(w)
  PROVE  LET t == workers[w].task IN
         /\ QueueInv' /\ Only(w)
         /\ UNCHANGED <<tasks, mirrors, google>>
         /\ workers[w].phase = "claimed" /\ t \in Task /\ workers'[w].task = t
         /\ IF Wanted(t) # {}
            THEN workers'[w].phase = "read" /\ Wanted(t) = {workers'[w].cal}
            ELSE workers'[w] = Removal(w, t)
         /\ Unmarked({"late"}) /\ history'.late = history.late \ {t}
<1> DEFINE t == workers[w].task
           task == tasks[t]
<1>1. /\ workers[w].phase = "claimed" /\ t # NoTask
      /\ history' = [history EXCEPT !.late = @ \ {t}]
      /\ UNCHANGED <<tasks, mapped, locks, mirrors, google, outbox, target, budget>>
  BY DEF ReadTask
<1>2. workers[w] \in State /\ Placed(workers[w]) /\ t \in Task
  BY <1>1, WorkerFacts
<1>3. task \in TaskRow /\ task.version > 0 /\ task.list \in List \cup {NoList}
      /\ task.version \in Nat
  BY <1>2, Types DEF QueueInv, TasksVersioned, TaskRow
<1>4. PICK late \in SUBSET Task : late = history.late \ {t}
  BY HistoryFacts
<1>5. history' = [history EXCEPT !.late = late]
  BY <1>1, <1>4
<1>6. history' \in History /\ history'.late = late /\ history'.overran = history.overran
      /\ Unmarked({"late"})
  BY <1>5, HistoryFacts DEF History, Unmarked
<1>7. /\ mapped' \subseteq List /\ locks' \in [List -> Worker \cup {NoWorker}]
      /\ google' \in [Task \X List -> Nat]
  BY <1>1, Types DEF QueueInv
<1>8. CASE Wanted(t) # {}
  <2>1. PICK s : s = [workers[w] EXCEPT !.phase = "read", !.cal = task.list,
                                         !.version = task.version]
    OBVIOUS
  <2>2. Wanted(t) = {task.list} /\ task.list \in List
        /\ task.exists /\ task.active /\ task.list # NoList
    BY <1>3, <1>8 DEF Wanted
  <2>3. s \in State
    <3>1. PICK cal \in List, version \in Nat : cal = task.list /\ version = task.version
      BY <1>3, <2>2
    <3>2. s = [workers[w] EXCEPT !.phase = "read", !.cal = cal, !.version = version]
      BY <2>1, <3>1
    <3> QED
      BY <1>2, <3>2, Zenon DEF State, Phase
  <2>4. /\ s.phase = "read" /\ s.job = workers[w].job /\ s.task = t /\ s.cal = task.list
        /\ s.mirror = workers[w].mirror /\ s.version = task.version
    BY <1>2, <2>1, Zenon DEF State
  <2>5. Placed(s) /\ MirrorOK(s)
    BY <1>1, <1>2, <1>3, <2>2, <2>4, MirrorAssumption DEF Placed, MirrorOK, Syncing
  <2>6. workers' = [workers EXCEPT ![w] = s]
    BY <2>1, <2>2 DEF ReadTask
  <2>7. QueueInv' /\ workers'[w] = s /\ Only(w)
    BY <1>1, <1>6, <1>7, <2>3, <2>4, <2>5, <2>6, StepWithin
  <2> QED
    BY <1>1, <1>2, <1>4, <1>6, <1>8, <2>2, <2>4, <2>7
<1>9. CASE Wanted(t) = {}
  <2>1. workers' = [workers EXCEPT ![w] = Removal(w, t)]
    BY <1>9 DEF ReadTask, Wanted
  <2>2. PICK s : s = Removal(w, t)
    OBVIOUS
  <2>3. /\ s \in State /\ s.phase = "removing" /\ s.job = workers[w].job /\ s.task = t
        /\ Placed(s) /\ MirrorOK(s)
    BY <1>1, <2>2, RemovalFacts
  <2>4. QueueInv' /\ workers'[w] = s /\ Only(w)
    BY <1>1, <1>6, <1>7, <2>1, <2>2, <2>3, StepWithin
  <2> QED
    BY <1>1, <1>2, <1>4, <1>6, <1>9, <2>2, <2>3, <2>4
<1> QED
  BY <1>8, <1>9

LEMMA FoundFacts ==
  ASSUME QueueInv, NEW w \in Worker, workers[w].phase \in {"read", "unmapped"},
         NEW s \in FoundMirrors(w)
  PROVE  /\ s \in State /\ s.phase = "found" /\ s.job = workers[w].job
         /\ s.task = workers[w].task /\ s.cal = workers[w].cal /\ s.version = workers[w].version
         /\ s.mirror # NoMirror =>
              s.mirror \in OwnedBy(workers[w].task) /\ s.old = mirrors[s.mirror].cal
         /\ s.mirror # NoMirror => s.old # NoList
         /\ s.mirror # NoMirror /\ mirrors[s.mirror].used
              => mirrors[s.mirror].event = workers[w].task
<1> DEFINE t == workers[w].task
           found == [workers[w] EXCEPT !.phase = "found"]
<1>1. workers[w] \in State /\ Placed(workers[w]) /\ t \in Task
  BY WorkerFacts DEF Syncing
<1>2. workers[w].mirror = NoMirror
  BY <1>1 DEF Placed
<1>3. found \in State
  BY <1>1, Zenon DEF State, Phase
<1>4. /\ found.phase = "found" /\ found.job = workers[w].job /\ found.task = t
      /\ found.cal = workers[w].cal /\ found.version = workers[w].version
      /\ found.mirror = NoMirror
  BY <1>1, <1>2, Zenon DEF State
<1>5. CASE s = found
  BY <1>3, <1>4, <1>5
<1>6. CASE \E m \in OwnedBy(t) : s = [found EXCEPT !.mirror = m, !.old = mirrors[m].cal]
  <2>1. PICK m \in OwnedBy(t) : s = [found EXCEPT !.mirror = m, !.old = mirrors[m].cal]
    BY <1>6
  <2>2. /\ m \in Mirror /\ mirrors[m].used /\ mirrors[m] \in MirrorRow
        /\ mirrors[m].owner = t
    BY Types DEF OwnedBy, QueueInv
  <2>3. mirrors[m].event = t /\ mirrors[m].cal \in List /\ mirrors[m].cal # NoList
    BY <1>1, <2>2, MirrorAssumption DEF QueueInv, MirrorsOwned, MirrorRow
  <2>4. PICK old \in List : old = mirrors[m].cal
    BY <2>3
  <2> HIDE DEF found
  <2>5. s = [found EXCEPT !.mirror = m, !.old = old]
    BY <2>1, <2>4
  <2>6. s \in State
    BY <1>3, <2>2, <2>5, Zenon DEF State
  <2>7. /\ s.phase = found.phase /\ s.job = found.job /\ s.task = found.task
        /\ s.cal = found.cal /\ s.version = found.version /\ s.mirror = m /\ s.old = old
    BY <1>3, <2>5, Zenon DEF State
  <2> QED
    BY <1>4, <2>3, <2>4, <2>6, <2>7
<1>7. s = found \/ \E m \in OwnedBy(t) : s = [found EXCEPT !.mirror = m, !.old = mirrors[m].cal]
  BY DEF FoundMirrors
<1> QED
  BY <1>5, <1>6, <1>7

LEMMA LockListEffect ==
  ASSUME QueueInv, NEW w \in Worker, LockList(w)
  PROVE  LET t == workers[w].task IN
         /\ QueueInv' /\ Only(w)
         /\ UNCHANGED <<tasks, mirrors, google, history>>
         /\ workers[w].phase = "read" /\ workers'[w].phase \in {"unmapped", "found"}
         /\ workers'[w].task = t /\ workers'[w].cal = workers[w].cal
         /\ workers'[w].phase = "found" /\ workers'[w].mirror # NoMirror =>
              /\ workers'[w].mirror \in OwnedBy(t)
              /\ workers'[w].old = mirrors[workers'[w].mirror].cal
<1> DEFINE t == workers[w].task
           cal == workers[w].cal
<1>1. /\ workers[w].phase = "read"
      /\ locks' = [locks EXCEPT ![cal] = w]
      /\ UNCHANGED <<tasks, mapped, mirrors, google, outbox, target, budget, history>>
  BY DEF LockList
<1>2. workers[w] \in State /\ Placed(workers[w]) /\ t \in Task /\ cal \in List
  BY <1>1, WorkerFacts DEF Syncing
<1>3. /\ mapped' \subseteq List /\ locks' \in [List -> Worker \cup {NoWorker}]
      /\ google' \in [Task \X List -> Nat] /\ history' \in History
  BY <1>1, <1>2, Types DEF QueueInv
<1>4. PICK s : /\ workers' = [workers EXCEPT ![w] = s]
               /\ s \in IF cal \in mapped THEN FoundMirrors(w)
                        ELSE {[workers[w] EXCEPT !.phase = "unmapped"]}
  BY DEF LockList
<1>5. CASE cal \in mapped
  <2>1. /\ s \in State /\ s.phase = "found" /\ s.job = workers[w].job /\ s.task = t
        /\ s.cal = cal /\ s.version = workers[w].version
        /\ s.mirror # NoMirror => s.mirror \in OwnedBy(t) /\ s.old = mirrors[s.mirror].cal
        /\ s.mirror # NoMirror => s.old # NoList
        /\ s.mirror # NoMirror /\ mirrors[s.mirror].used => mirrors[s.mirror].event = t
    BY <1>1, <1>4, <1>5, FoundFacts
  <2>2. Placed(s) /\ MirrorOK(s)
    BY <1>1, <1>2, <2>1 DEF Placed, MirrorOK, Syncing
  <2>3. QueueInv' /\ workers'[w] = s /\ Only(w)
    BY <1>1, <1>3, <1>4, <2>1, <2>2, StepWithin
  <2> QED
    BY <1>1, <2>1, <2>3
<1>6. CASE cal \notin mapped
  <2>1. s = [workers[w] EXCEPT !.phase = "unmapped"]
    BY <1>4, <1>6
  <2>2. s \in State
    BY <1>2, <2>1, Zenon DEF State, Phase
  <2>3. /\ s.phase = "unmapped" /\ s.job = workers[w].job /\ s.task = t /\ s.cal = cal
        /\ s.mirror = workers[w].mirror /\ s.version = workers[w].version
    BY <1>2, <2>1, Zenon DEF State
  <2>4. Placed(s) /\ MirrorOK(s)
    BY <1>1, <1>2, <2>3 DEF Placed, MirrorOK, Syncing
  <2>5. QueueInv' /\ workers'[w] = s /\ Only(w)
    BY <1>1, <1>3, <1>4, <2>2, <2>3, <2>4, StepWithin
  <2> QED
    BY <1>1, <2>3, <2>5
<1> QED
  BY <1>5, <1>6

LEMMA CreateCalendarEffect ==
  ASSUME QueueInv, NEW w \in Worker, CreateCalendar(w)
  PROVE  LET t == workers[w].task IN
         /\ QueueInv' /\ Only(w)
         /\ UNCHANGED <<tasks, mirrors, google, history>>
         /\ workers[w].phase = "unmapped" /\ workers'[w].phase \in {"found", "broken"}
         /\ workers'[w].task = t /\ workers'[w].cal = workers[w].cal
         /\ workers'[w].phase = "found" /\ workers'[w].mirror # NoMirror =>
              /\ workers'[w].mirror \in OwnedBy(t)
              /\ workers'[w].old = mirrors[workers'[w].mirror].cal
<1> DEFINE t == workers[w].task
           cal == workers[w].cal
<1>1. /\ workers[w].phase = "unmapped"
      /\ mapped' = mapped \cup {cal}
      /\ locks' = [locks EXCEPT ![cal] = NoWorker]
      /\ UNCHANGED <<tasks, mirrors, google, outbox, target, budget, history>>
  BY DEF CreateCalendar
<1>2. workers[w] \in State /\ Placed(workers[w]) /\ t \in Task /\ cal \in List
  BY <1>1, WorkerFacts DEF Syncing
<1>3. /\ mapped' \subseteq List /\ locks' \in [List -> Worker \cup {NoWorker}]
      /\ google' \in [Task \X List -> Nat] /\ history' \in History
  BY <1>1, <1>2, Types DEF QueueInv
<1>4. PICK version \in Nat : version = tasks[t].version /\ version > 0
  BY <1>2, Types DEF QueueInv, TasksVersioned, TaskRow
<1>5. PICK record : /\ workers' = [workers EXCEPT ![w] = [record EXCEPT !.version = version]]
                    /\ record \in IF tasks[t].exists THEN FoundMirrors(w)
                                  ELSE {[workers[w] EXCEPT !.phase = "broken"]}
  BY <1>4 DEF CreateCalendar
<1>6. /\ record \in State /\ record.phase \in {"found", "broken"}
      /\ record.job = workers[w].job /\ record.task = t /\ record.cal = cal
      /\ record.mirror # NoMirror => /\ record.old # NoList /\ record.phase = "found"
                                     /\ record.mirror \in OwnedBy(t)
                                     /\ record.old = mirrors[record.mirror].cal
      /\ record.mirror # NoMirror /\ mirrors[record.mirror].used
           => mirrors[record.mirror].event = t
  <2>1. CASE tasks[t].exists
    <3>1. record \in FoundMirrors(w)
      BY <1>5, <2>1
    <3> QED
      BY <1>1, <3>1, FoundFacts
  <2>2. CASE ~tasks[t].exists
    <3>1. record = [workers[w] EXCEPT !.phase = "broken"]
      BY <1>5, <2>2
    <3>2. record \in State
      BY <1>2, <3>1, Zenon DEF State, Phase
    <3>3. /\ record.phase = "broken" /\ record.job = workers[w].job /\ record.task = t
          /\ record.cal = cal /\ record.mirror = workers[w].mirror
      BY <1>2, <3>1, Zenon DEF State
    <3> QED
      BY <1>1, <1>2, <3>2, <3>3 DEF Placed
  <2> QED
    BY <2>1, <2>2
<1>7. PICK s : s = [record EXCEPT !.version = version]
  OBVIOUS
<1>8. s \in State
  BY <1>6, <1>7, Zenon DEF State
<1>9. /\ s.phase = record.phase /\ s.job = record.job /\ s.task = t /\ s.cal = cal
      /\ s.mirror = record.mirror /\ s.old = record.old /\ s.version = version
  BY <1>6, <1>7, Zenon DEF State
<1>10. Placed(s) /\ MirrorOK(s)
  BY <1>1, <1>2, <1>4, <1>6, <1>9 DEF Placed, MirrorOK, Syncing
<1>11. QueueInv' /\ workers'[w] = s /\ Only(w)
  BY <1>1, <1>3, <1>5, <1>6, <1>7, <1>8, <1>9, <1>10, StepWithin
<1> QED
  BY <1>1, <1>6, <1>9, <1>11

\* The run goes on with the task, the category and the mirror it had.
Onward(w, phase) ==
  /\ workers'[w].phase = phase
  /\ workers'[w].task = workers[w].task /\ workers'[w].cal = workers[w].cal
  /\ workers'[w].mirror = workers[w].mirror /\ workers'[w].old = workers[w].old

LEMMA OnwardFacts ==
  ASSUME QueueInv, NEW w \in Worker, workers[w].phase # "idle", NEW phase \in Phase \ {"idle"},
         workers' = [workers EXCEPT ![w].phase = phase],
         phase \notin {"claimed", "read", "unmapped", "removing"},
         phase \in Syncing => workers[w].phase \in Syncing \ {"broken"},
         phase = "cleaned" => Moving(w),
         phase \in {"found", "sent", "cleaned"}
           => workers[w].phase \in {"found", "sent", "cleaned"},
         mapped' \subseteq List, locks' \in [List -> Worker \cup {NoWorker}],
         google' \in [Task \X List -> Nat],
         history' \in History, history'.overran = history.overran,
         UNCHANGED <<tasks, mirrors, outbox, target, budget>>
  PROVE  QueueInv' /\ Only(w) /\ Onward(w, phase)
<1>1. PICK s : s = [workers[w] EXCEPT !.phase = phase]
  OBVIOUS
<1>2. workers[w] \in State /\ Placed(workers[w]) /\ MirrorOK(workers[w])
  BY WorkerFacts
<1>3. s \in State
  BY <1>1, <1>2, Zenon DEF State
<1>4. /\ s.phase = phase /\ s.job = workers[w].job /\ s.task = workers[w].task
      /\ s.cal = workers[w].cal /\ s.mirror = workers[w].mirror /\ s.old = workers[w].old
      /\ s.version = workers[w].version
  BY <1>1, <1>2, Zenon DEF State
<1>5. Placed(s) /\ MirrorOK(s)
  BY <1>2, <1>4 DEF Placed, MirrorOK, Syncing, Moving
<1>6. workers' = [workers EXCEPT ![w] = s]
  BY <1>1, <1>2, Types DEF QueueInv
<1>7. QueueInv' /\ workers'[w] = s /\ Only(w)
  BY <1>3, <1>4, <1>5, <1>6, StepWithin
<1> QED
  BY <1>4, <1>7 DEF Onward

LEMMA SendEventEffect ==
  ASSUME QueueInv, NEW w \in Worker, SendEvent(w)
  PROVE  LET t == workers[w].task IN
         /\ QueueInv' /\ Only(w) /\ Onward(w, "sent")
         /\ UNCHANGED <<tasks, mirrors>>
         /\ workers[w].phase = "found" /\ t \in Task /\ workers[w].cal \in List
         /\ \E version \in Nat \ {0} :
              google' = [google EXCEPT ![<<t, workers[w].cal>>] = version]
         /\ Unmarked({"hidden"}) /\ history'.hidden = history.hidden \ {t}
<1> DEFINE t == workers[w].task
           e == <<t, workers[w].cal>>
<1>1. /\ workers[w].phase = "found"
      /\ google' = [google EXCEPT ![e] = workers[w].version]
      /\ workers' = [workers EXCEPT ![w].phase = "sent"]
      /\ history' = [history EXCEPT !.hidden = @ \ {t}]
      /\ UNCHANGED <<tasks, mapped, locks, mirrors, outbox, target, budget>>
  BY DEF SendEvent
<1>2. t \in Task /\ workers[w].cal \in List /\ workers[w].version \in Nat \ {0}
  BY <1>1, WorkerFacts DEF Placed, Syncing
<1>3. google' \in [Task \X List -> Nat]
  BY <1>1, <1>2, Types DEF QueueInv
<1>4. PICK hidden \in SUBSET Task : hidden = history.hidden \ {t}
  BY HistoryFacts
<1>5. history' = [history EXCEPT !.hidden = hidden]
  BY <1>1, <1>4
<1>6. /\ history' \in History /\ history'.hidden = hidden
      /\ history'.overran = history.overran /\ Unmarked({"hidden"})
  BY <1>5, HistoryFacts DEF History, Unmarked
<1>7. mapped' \subseteq List /\ locks' \in [List -> Worker \cup {NoWorker}]
  BY <1>1, Types DEF QueueInv
<1>8. QueueInv' /\ Only(w) /\ Onward(w, "sent")
  BY <1>1, <1>3, <1>6, <1>7, OnwardFacts DEF Phase, Syncing
<1> QED
  BY <1>1, <1>2, <1>4, <1>6, <1>8

LEMMA RemoveOldEffect ==
  ASSUME QueueInv, NEW w \in Worker, RemoveOld(w)
  PROVE  LET e == <<workers[w].task, workers[w].old>> IN
         /\ QueueInv' /\ Only(w) /\ Onward(w, "cleaned")
         /\ UNCHANGED <<tasks, mirrors>>
         /\ workers[w].phase = "sent" /\ Moving(w) /\ e \in Task \X List
         /\ google' = [google EXCEPT ![e] = NoEvent]
         /\ Unmarked({"strays"}) /\ history'.strays = history.strays \ {e}
<1> DEFINE e == <<workers[w].task, workers[w].old>>
<1>1. /\ workers[w].phase = "sent" /\ Moving(w)
      /\ google' = [google EXCEPT ![e] = NoEvent]
      /\ workers' = [workers EXCEPT ![w].phase = "cleaned"]
      /\ history' = [history EXCEPT !.strays = @ \ {e}]
      /\ UNCHANGED <<tasks, mapped, locks, mirrors, outbox, target, budget>>
  BY DEF RemoveOld
<1>2. workers[w].task \in Task /\ workers[w].old \in List
  BY <1>1, WorkerFacts DEF Placed, Syncing, Moving
<1>3. google' \in [Task \X List -> Nat]
  BY <1>1, <1>2, Types DEF QueueInv, NoEvent
<1>4. PICK strays \in SUBSET (Task \X List) : strays = history.strays \ {e}
  BY HistoryFacts
<1>5. history' = [history EXCEPT !.strays = strays]
  BY <1>1, <1>4
<1>6. /\ history' \in History /\ history'.strays = strays
      /\ history'.overran = history.overran /\ Unmarked({"strays"})
  BY <1>5, HistoryFacts DEF History, Unmarked
<1>7. mapped' \subseteq List /\ locks' \in [List -> Worker \cup {NoWorker}]
  BY <1>1, Types DEF QueueInv
<1>8. QueueInv' /\ Only(w) /\ Onward(w, "cleaned")
  BY <1>1, <1>3, <1>6, <1>7, OnwardFacts DEF Phase, Syncing
<1> QED
  BY <1>1, <1>2, <1>4, <1>6, <1>8

LEMMA CommitRefusedEffect ==
  ASSUME QueueInv, NEW w \in Worker, CommitRefused(w)
  PROVE  /\ QueueInv' /\ Only(w) /\ Onward(w, "broken")
         /\ UNCHANGED <<tasks, mirrors, google, history>>
         /\ workers[w].phase \in {"sent", "cleaned"}
<1>1. /\ workers[w].phase \in {"sent", "cleaned"}
      /\ workers' = [workers EXCEPT ![w].phase = "broken"]
      /\ UNCHANGED <<tasks, mapped, locks, mirrors, google, outbox, target, budget, history>>
  BY DEF CommitRefused, Written
<1>2. /\ mapped' \subseteq List /\ locks' \in [List -> Worker \cup {NoWorker}]
      /\ google' \in [Task \X List -> Nat] /\ history' \in History
      /\ history'.overran = history.overran
  BY <1>1, Types DEF QueueInv
<1>3. QueueInv' /\ Only(w) /\ Onward(w, "broken")
  BY <1>1, <1>2, OnwardFacts DEF Phase, Syncing
<1> QED
  BY <1>1, <1>3

LEMMA RemoveEventEffect ==
  ASSUME QueueInv, NEW w \in Worker, RemoveEvent(w)
  PROVE  /\ QueueInv' /\ Only(w) /\ UNCHANGED <<tasks, mirrors>>
         /\ workers[w].phase = "removing" /\ workers'[w].phase = "removing"
         /\ workers'[w].task = workers[w].task /\ workers'[w].rows = workers[w].rows
         /\ \E e \in workers[w].doomed :
              /\ e \in Task \X List
              /\ google' = [google EXCEPT ![e] = NoEvent]
              /\ workers'[w].doomed = workers[w].doomed \ {e}
              /\ Unmarked({"strays", "hidden"})
              /\ history'.strays = history.strays \ {e}
              /\ history'.hidden = history.hidden \cup {e[1]}
<1>1. /\ workers[w].phase = "removing"
      /\ UNCHANGED <<tasks, mapped, locks, mirrors, outbox, target, budget>>
  BY DEF RemoveEvent
<1>2. PICK e \in workers[w].doomed :
        /\ google' = [google EXCEPT ![e] = NoEvent]
        /\ workers' = [workers EXCEPT ![w].doomed = @ \ {e}]
        /\ history' = [history EXCEPT !.strays = @ \ {e}, !.hidden = @ \cup {e[1]}]
  BY DEF RemoveEvent
<1>3. workers[w] \in State /\ Placed(workers[w]) /\ workers[w].doomed \subseteq Task \X List
  BY WorkerFacts
<1>4. e \in Task \X List /\ e[1] \in Task
  BY <1>3
<1>5. google' \in [Task \X List -> Nat]
  BY <1>1, <1>2, <1>4, Types DEF QueueInv, NoEvent
<1>6. PICK strays \in SUBSET (Task \X List), hidden \in SUBSET Task :
        strays = history.strays \ {e} /\ hidden = history.hidden \cup {e[1]}
  BY <1>4, HistoryFacts
<1>7. history' = [history EXCEPT !.strays = strays, !.hidden = hidden]
  BY <1>2, <1>6
<1>8. /\ history' \in History /\ history'.strays = strays /\ history'.hidden = hidden
      /\ history'.overran = history.overran /\ Unmarked({"strays", "hidden"})
  BY <1>7, HistoryFacts DEF History, Unmarked
<1>9. mapped' \subseteq List /\ locks' \in [List -> Worker \cup {NoWorker}]
  BY <1>1, Types DEF QueueInv
<1>10. PICK doomed \in SUBSET (Task \X List) : doomed = workers[w].doomed \ {e}
  BY <1>3
<1>11. PICK s : s = [workers[w] EXCEPT !.doomed = doomed]
  OBVIOUS
<1>12. s \in State
  BY <1>3, <1>11, Zenon DEF State
<1>13. /\ s.phase = workers[w].phase /\ s.job = workers[w].job /\ s.task = workers[w].task
       /\ s.mirror = workers[w].mirror /\ s.rows = workers[w].rows /\ s.doomed = doomed
  BY <1>3, <1>11, Zenon DEF State
<1>14. Placed(s) /\ MirrorOK(s)
  BY <1>1, <1>3, <1>13 DEF Placed, MirrorOK, Syncing
<1>15. workers' = [workers EXCEPT ![w] = s]
  BY <1>2, <1>3, <1>10, <1>11, Types DEF QueueInv
<1>16. QueueInv' /\ workers'[w] = s /\ Only(w)
  BY <1>1, <1>5, <1>8, <1>9, <1>12, <1>13, <1>14, <1>15, StepWithin
<1>17. /\ e \in Task \X List /\ google' = [google EXCEPT ![e] = NoEvent]
       /\ workers'[w].doomed = workers[w].doomed \ {e}
       /\ Unmarked({"strays", "hidden"})
       /\ history'.strays = history.strays \ {e}
       /\ history'.hidden = history.hidden \cup {e[1]}
  BY <1>2, <1>4, <1>6, <1>8, <1>10, <1>13, <1>16
<1>18. /\ workers'[w].phase = "removing" /\ workers'[w].task = workers[w].task
       /\ workers'[w].rows = workers[w].rows
  BY <1>1, <1>13, <1>16
<1> QED
  BY <1>1, <1>16, <1>17, <1>18

\* The two commits that write mirrors, and take no id that a run remembers.
LEMMA StepCommits ==
  ASSUME QueueInv, NEW w \in Worker, workers[w].phase \in {"sent", "cleaned", "removing"},
         workers' = [workers EXCEPT ![w].phase = "saved"],
         mirrors' \in [Mirror -> MirrorRow], MirrorsOwned',
         \A v \in Worker, m \in Mirror :
           m = workers[v].mirror /\ mirrors'[m].used
             => mirrors[m].used /\ mirrors'[m].event = mirrors[m].event,
         locks' \in [List -> Worker \cup {NoWorker}],
         history' \in History, history'.overran = history.overran,
         UNCHANGED <<tasks, mapped, google, outbox, target, budget>>
  PROVE  QueueInv' /\ Only(w) /\ Onward(w, "saved")
<1>1. PICK s : s = [workers[w] EXCEPT !.phase = "saved"]
  OBVIOUS
<1>2. workers[w] \in State /\ Placed(workers[w]) /\ workers \in [Worker -> State]
  BY WorkerFacts, Types DEF QueueInv
<1>3. s \in State
  BY <1>1, <1>2, Zenon DEF State, Phase
<1>4. /\ s.phase = "saved" /\ s.job = workers[w].job /\ s.task = workers[w].task
      /\ s.cal = workers[w].cal /\ s.mirror = workers[w].mirror /\ s.old = workers[w].old
  BY <1>1, <1>2, Zenon DEF State
<1>5. workers' = [workers EXCEPT ![w] = s]
  BY <1>1, <1>2
<1>6. /\ workers' \in [Worker -> State]
      /\ workers'[w] = s /\ \A v \in Worker \ {w} : workers'[v] = workers[v]
  BY <1>2, <1>3, <1>5
<1>7. TypeOK'
  BY <1>6, Types DEF QueueInv, TypeOK, HistoryOK, State, History, MirrorRow
<1>8. RowsKeyed' /\ TasksVersioned'
  BY DEF QueueInv, RowsKeyed, TasksVersioned
<1>9. WorkersPlaced'
  <2> SUFFICES ASSUME NEW v \in Worker
               PROVE  (Placed(workers[v]) /\ RowOK(workers[v]) /\ MirrorOK(workers[v]))'
    BY DEF WorkersPlaced
  <2>1. CASE v = w
    <3>1. Placed(s)
      BY <1>2, <1>4 DEF Placed, Syncing
    <3>2. RowOK(s)
      BY <1>4, WorkerFacts DEF RowOK
    <3>3. workers'[v] = s /\ RowOK(s)' /\ MirrorOK(s)'
      BY <1>4, <1>6, <2>1, <3>2 DEF RowOK, MirrorOK
    <3> QED
      BY <3>1, <3>3 DEF Placed, RowOK, MirrorOK
  <2>2. CASE v # w
    <3>1. workers'[v] = workers[v] /\ workers[v].mirror \in Mirror \cup {NoMirror}
      BY <1>6, <2>2, WorkerFacts
    <3>2. Placed(workers'[v]) /\ RowOK(workers[v])'
      BY <3>1 DEF QueueInv, WorkersPlaced, RowOK
    <3>3. MirrorOK(workers[v])'
      BY <3>1 DEF QueueInv, WorkersPlaced, MirrorOK
    <3> QED
      BY <3>2, <3>3 DEF Placed
  <2> QED
    BY <2>1, <2>2
<1>10. HolderOwns'
  BY <1>2, <1>4, <1>6 DEF QueueInv, HolderOwns, Running
<1>11. OneOpenRow'
  BY DEF QueueInv, OneOpenRow
<1> QED
  BY <1>4, <1>6, <1>7, <1>8, <1>9, <1>10, <1>11 DEF QueueInv, Only, Onward

LEMMA UnlockType ==
  ASSUME QueueInv, NEW w \in Worker
  PROVE  Unlock(w) \in [List -> Worker \cup {NoWorker}]
  BY Types DEF Unlock, QueueInv

LEMMA CommitEffect ==
  ASSUME QueueInv, NEW w \in Worker, Commit(w)
  PROVE  LET t == workers[w].task
             e == <<t, workers[w].cal>> IN
         /\ QueueInv' /\ Only(w) /\ Onward(w, "saved")
         /\ UNCHANGED <<tasks, google>>
         /\ Written(w) /\ workers[w].phase \in {"sent", "cleaned"} /\ e \in Task \X List
         /\ \E m \in Mirror :
              /\ IF workers[w].mirror = NoMirror THEN m \in FreshIds
                 ELSE m = workers[w].mirror /\ mirrors[m].used /\ mirrors[m].event = t
              /\ mirrors'[m].used /\ mirrors'[m].event = t
              /\ mirrors'[m].cal = workers[w].cal
              /\ \A n \in Mirror \ {m} : mirrors'[n] = mirrors[n]
         /\ Unmarked({"strays"}) /\ history'.strays = history.strays \ {e}
<1> DEFINE t == workers[w].task
           cal == workers[w].cal
           e == <<t, cal>>
<1>1. /\ Written(w) /\ Admitted(w) /\ workers[w].phase \in {"sent", "cleaned"}
      /\ locks' = Unlock(w)
      /\ workers' = [workers EXCEPT ![w].phase = "saved"]
      /\ history' = [history EXCEPT !.strays = @ \ {e}]
      /\ UNCHANGED <<tasks, mapped, google, outbox, target, budget>>
  BY DEF Commit, Written
<1>2. /\ workers[w] \in State /\ Placed(workers[w]) /\ MirrorOK(workers[w])
      /\ t \in Task /\ cal \in List /\ workers[w].mirror \in Mirror \cup {NoMirror}
  BY <1>1, WorkerFacts DEF Syncing
<1>3. PICK m \in IF workers[w].mirror = NoMirror THEN FreshIds ELSE {workers[w].mirror} :
        mirrors' = [mirrors EXCEPT ![m] =
          [used |-> TRUE, event |-> t, cal |-> cal,
           owner |-> IF workers[w].mirror = NoMirror THEN t ELSE @.owner]]
  BY DEF Commit
<1>4. /\ m \in Mirror
      /\ IF workers[w].mirror = NoMirror THEN m \in FreshIds
         ELSE m = workers[w].mirror /\ mirrors[m].used /\ mirrors[m].event = t
  BY <1>1, <1>2, <1>3 DEF Admitted, FreshIds, MirrorOK
<1>5. mirrors \in [Mirror -> MirrorRow] /\ mirrors[m].owner \in Task \cup {NoTask}
  BY <1>4, Types DEF QueueInv, MirrorRow
<1>6. PICK owner \in Task \cup {NoTask} :
        owner = IF workers[w].mirror = NoMirror THEN t ELSE mirrors[m].owner
  BY <1>2, <1>5
<1>7. PICK row : row = [used |-> TRUE, event |-> t, cal |-> cal, owner |-> owner]
  OBVIOUS
<1>8. /\ row \in MirrorRow /\ row.used /\ row.event = t /\ row.cal = cal
      /\ row.owner = owner
  BY <1>2, <1>6, <1>7 DEF MirrorRow
<1>9. mirrors' = [mirrors EXCEPT ![m] = row]
  BY <1>3, <1>4, <1>5, <1>6, <1>7
<1>10. /\ mirrors' \in [Mirror -> MirrorRow] /\ mirrors'[m] = row
       /\ \A n \in Mirror \ {m} : mirrors'[n] = mirrors[n]
  BY <1>4, <1>5, <1>8, <1>9
<1>11. owner = IF tasks[t].exists THEN t ELSE NoTask
  <2>1. CASE workers[w].mirror = NoMirror
    BY <1>1, <1>6, <2>1 DEF Admitted
  <2>2. CASE workers[w].mirror # NoMirror
    BY <1>4, <1>6, <2>2 DEF QueueInv, MirrorsOwned
  <2> QED
    BY <2>1, <2>2
<1>12. MirrorsOwned'
  <2> SUFFICES ASSUME NEW n \in Mirror
               PROVE  IF mirrors'[n].used
                      THEN /\ mirrors'[n].event # NoTask /\ mirrors'[n].cal # NoList
                           /\ mirrors'[n].owner = IF tasks[mirrors'[n].event].exists
                                                  THEN mirrors'[n].event ELSE NoTask
                      ELSE mirrors'[n] = FreeRow
    BY <1>1 DEF MirrorsOwned
  <2>1. CASE n = m
    BY <1>2, <1>8, <1>10, <1>11, <2>1, MirrorAssumption
  <2>2. CASE n # m
    BY <1>10, <2>2 DEF QueueInv, MirrorsOwned
  <2> QED
    BY <2>1, <2>2
<1>13. \A v \in Worker, n \in Mirror :
         n = workers[v].mirror /\ mirrors'[n].used
           => mirrors[n].used /\ mirrors'[n].event = mirrors[n].event
  <2> SUFFICES ASSUME NEW v \in Worker, NEW n \in Mirror, n = workers[v].mirror, n = m,
                      mirrors'[n].used
               PROVE  mirrors[n].used /\ mirrors'[n].event = mirrors[n].event
    BY <1>10
  <2>1. m \notin FreshIds
    BY DEF FreshIds
  <2> QED
    BY <1>4, <1>8, <1>10, <2>1
<1>14. PICK strays \in SUBSET (Task \X List) : strays = history.strays \ {e}
  BY HistoryFacts
<1>15. history' = [history EXCEPT !.strays = strays]
  BY <1>1, <1>14
<1>16. /\ history' \in History /\ history'.strays = strays
       /\ history'.overran = history.overran /\ Unmarked({"strays"})
  BY <1>15, HistoryFacts DEF History, Unmarked
<1>17. QueueInv' /\ Only(w) /\ Onward(w, "saved")
  BY <1>1, <1>10, <1>12, <1>13, <1>16, UnlockType, StepCommits
<1> QED
  BY <1>1, <1>2, <1>4, <1>8, <1>10, <1>14, <1>16, <1>17

LEMMA CommitRemovalEffect ==
  ASSUME QueueInv, NEW w \in Worker, CommitRemoval(w)
  PROVE  /\ QueueInv' /\ Only(w) /\ Onward(w, "saved")
         /\ UNCHANGED <<tasks, google, history>>
         /\ workers[w].phase = "removing" /\ workers[w].doomed = {}
         /\ \A m \in Mirror : mirrors'[m] = IF m \in workers[w].rows THEN FreeRow ELSE mirrors[m]
<1>1. /\ workers[w].phase = "removing" /\ workers[w].doomed = {}
      /\ mirrors' = [m \in Mirror |-> IF m \in workers[w].rows THEN FreeRow ELSE mirrors[m]]
      /\ workers' = [workers EXCEPT ![w].phase = "saved"]
      /\ UNCHANGED <<tasks, mapped, locks, google, outbox, target, budget, history>>
  BY DEF CommitRemoval
<1>2. FreeRow \in MirrorRow /\ ~FreeRow.used
  BY DEF FreeRow, MirrorRow
<1>3. /\ mirrors' \in [Mirror -> MirrorRow]
      /\ \A m \in Mirror : mirrors'[m] \in {FreeRow, mirrors[m]}
  BY <1>1, <1>2, Types DEF QueueInv
<1>4. MirrorsOwned'
  BY <1>1, <1>2, <1>3 DEF QueueInv, MirrorsOwned
<1>5. /\ locks' \in [List -> Worker \cup {NoWorker}] /\ history' \in History
      /\ history'.overran = history.overran
  BY <1>1, Types DEF QueueInv
<1>6. \A v \in Worker, m \in Mirror :
        m = workers[v].mirror /\ mirrors'[m].used
          => mirrors[m].used /\ mirrors'[m].event = mirrors[m].event
  BY <1>2, <1>3
<1>7. QueueInv' /\ Only(w) /\ Onward(w, "saved")
  BY <1>1, <1>3, <1>4, <1>5, <1>6, StepCommits
<1> QED
  BY <1>1, <1>7

\* The statements that end a run write the row the run was about, if any.
LEMMA EndOfRun ==
  ASSUME QueueInv, NEW w \in Worker, workers[w].phase # "idle",
         workers' = [workers EXCEPT ![w] = Idle],
         NEW row \in Row, outbox' = [outbox EXCEPT ![workers[w].job] = row],
         row.key = outbox[workers[w].job].key, row.status # "none",
         locks' \in [List -> Worker \cup {NoWorker}],
         budget' \in [changes: Nat, crashes: Nat],
         history' \in History, history'.overran = history.overran,
         UNCHANGED <<tasks, mapped, mirrors, google, target>>
  PROVE  QueueInv' /\ Only(w) /\ workers'[w] = Idle
<1> DEFINE j == workers[w].job
<1>1. /\ workers \in [Worker -> State] /\ outbox \in [Job -> Row] /\ j \in Job
      /\ outbox[j].key \in Key
  BY WorkerFacts, Types DEF QueueInv
<1>2. /\ workers' \in [Worker -> State] /\ workers'[w] = Idle
      /\ \A v \in Worker \ {w} : workers'[v] = workers[v]
  BY <1>1, IdleType
<1>3. /\ outbox' \in [Job -> Row] /\ outbox'[j] = row
      /\ \A i \in Job \ {j} : outbox'[i] = outbox[i]
      /\ \A i \in Job : outbox'[i].key = outbox[i].key
  BY <1>1
<1>4. TypeOK'
  BY <1>2, <1>3, Types DEF QueueInv, TypeOK, HistoryOK, State, History
<1>5. RowsKeyed' /\ TasksVersioned' /\ MirrorsOwned'
  BY <1>1, <1>3 DEF QueueInv, RowsKeyed, TasksVersioned, MirrorsOwned
<1>6. WorkersPlaced'
  <2> SUFFICES ASSUME NEW v \in Worker
               PROVE  (Placed(workers[v]) /\ RowOK(workers[v]) /\ MirrorOK(workers[v]))'
    BY DEF WorkersPlaced
  <2>1. CASE v = w
    BY <1>2, <2>1, IdleType DEF Placed, RowOK, MirrorOK
  <2>2. CASE v # w
    <3>1. workers'[v] = workers[v]
      BY <1>2, <2>2
    <3>2. Placed(workers'[v]) /\ MirrorOK(workers[v])'
      BY <3>1 DEF QueueInv, WorkersPlaced, MirrorOK
    <3>3. RowOK(workers[v])'
      BY <1>3, <3>1 DEF QueueInv, WorkersPlaced, RowOK
    <3> QED
      BY <3>2, <3>3 DEF Placed
  <2> QED
    BY <2>1, <2>2
<1>7. outbox[j].key \notin history.overran
        => outbox[j].status = "processing" /\ outbox[j].lockedBy = w
  BY <1>1 DEF QueueInv, HolderOwns, Running
<1>8. HolderOwns'
  <2> SUFFICES ASSUME NEW v \in Worker, NEW i \in Job, Running(v, i)',
                      outbox'[i].key \notin history'.overran
               PROVE  outbox'[i].status = "processing" /\ outbox'[i].lockedBy = v
    BY DEF HolderOwns
  <2>1. v # w /\ workers'[v] = workers[v]
    BY <1>2, IdleType DEF Running
  <2>2. outbox[i].status = "processing" /\ outbox[i].lockedBy = v
    BY <1>3, <2>1 DEF QueueInv, HolderOwns, Running
  <2>3. i # j
    BY <1>3, <1>7, <2>1, <2>2
  <2> QED
    BY <1>3, <2>2, <2>3
<1>9. OneOpenRow'
  <2> SUFFICES ASSUME NEW t \in Task, <<"upsert_task", t>> \notin history.overran,
                      NEW a \in OpenRows(outbox', <<"upsert_task", t>>),
                      NEW b \in OpenRows(outbox', <<"upsert_task", t>>)
               PROVE  a = b
    BY DEF OneOpenRow
  <2>1. /\ a \in OpenRows(outbox, <<"upsert_task", t>>)
        /\ b \in OpenRows(outbox, <<"upsert_task", t>>)
    BY <1>3, <1>7 DEF OpenRows, Open
  <2> QED
    BY <2>1 DEF QueueInv, OneOpenRow
<1> QED
  BY <1>2, <1>4, <1>5, <1>6, <1>8, <1>9 DEF QueueInv, Only

LEMMA FinishEffect ==
  ASSUME QueueInv, NEW w \in Worker, Finish(w)
  PROVE  /\ QueueInv' /\ Only(w) /\ workers'[w] = Idle
         /\ UNCHANGED <<tasks, mirrors, google, history>> /\ workers[w].phase = "saved"
<1> DEFINE j == workers[w].job
<1>1. /\ workers[w].phase = "saved"
      /\ outbox' = [outbox EXCEPT ![j] = DoneRow(@)]
      /\ workers' = [workers EXCEPT ![w] = Idle]
      /\ UNCHANGED <<tasks, mapped, locks, mirrors, google, target, budget, history>>
  BY DEF Finish
<1>2. j \in Job /\ outbox[j] \in Row /\ outbox \in [Job -> Row]
  BY <1>1, WorkerFacts, Types DEF QueueInv
<1>3. PICK row \in Row : /\ row = DoneRow(outbox[j]) /\ row.key = outbox[j].key
                         /\ row.status = "done"
  BY <1>2, DoneRowLemma
<1>4. outbox' = [outbox EXCEPT ![j] = row]
  BY <1>1, <1>2, <1>3
<1>5. /\ locks' \in [List -> Worker \cup {NoWorker}] /\ history' \in History
      /\ budget' \in [changes: Nat, crashes: Nat] /\ history'.overran = history.overran
  BY <1>1, Types DEF QueueInv
<1>6. QueueInv' /\ Only(w) /\ workers'[w] = Idle
  BY <1>1, <1>3, <1>4, <1>5, EndOfRun
<1> QED
  BY <1>1, <1>6

LEMMA CutShortEffect ==
  ASSUME QueueInv, NEW w \in Worker, Fail(w) \/ Crash(w)
  PROVE  LET e == <<workers[w].task, workers[w].cal>> IN
         /\ QueueInv' /\ Only(w) /\ workers'[w] = Idle
         /\ UNCHANGED <<tasks, mirrors, google>>
         /\ Unmarked({"strays"}) /\ history.strays \subseteq history'.strays
         /\ workers[w].phase \in {"sent", "cleaned", "broken"} /\ google[e] # NoEvent
              => Recorded(workers[w].task, workers[w].cal) \/ e \in history'.strays
<1> DEFINE j == workers[w].job
           e == <<workers[w].task, workers[w].cal>>
           left == /\ workers[w].phase \in {"sent", "cleaned", "broken"}
                   /\ google[e] # NoEvent
                   /\ \A m \in Mirror : <<mirrors[m].event, mirrors[m].cal>> # e
<1>1. /\ workers[w].phase # "idle"
      /\ workers' = [workers EXCEPT ![w] = Idle]
      /\ locks' = Unlock(w)
      /\ history' = [history EXCEPT !.strays = IF left THEN @ \cup {e} ELSE @]
      /\ UNCHANGED <<tasks, mapped, mirrors, google, target>>
  BY DEF Fail, Crash, CutShort
<1>2. j \in Job /\ outbox[j] \in Row /\ outbox[j].key \in Key /\ outbox \in [Job -> Row]
  BY <1>1, WorkerFacts, Types DEF QueueInv
<1>3. left => e \in Task \X List
  BY WorkerFacts DEF Syncing
<1>4. PICK strays \in SUBSET (Task \X List) :
        strays = IF left THEN history.strays \cup {e} ELSE history.strays
  BY <1>3, HistoryFacts
<1>5. history' = [history EXCEPT !.strays = strays]
  BY <1>1, <1>4
<1>6. /\ history' \in History /\ history'.strays = strays
      /\ history'.overran = history.overran /\ Unmarked({"strays"})
  BY <1>5, HistoryFacts DEF History, Unmarked
<1>7. left \/ ~ (/\ workers[w].phase \in {"sent", "cleaned", "broken"}
                 /\ google[e] # NoEvent) \/ Recorded(workers[w].task, workers[w].cal)
  BY DEF Recorded
<1>8. budget' \in [changes: Nat, crashes: Nat]
  <2>1. budget \in [changes: Nat, crashes: Nat]
    BY Types DEF QueueInv
  <2>2. CASE budget' = budget
    BY <2>1, <2>2
  <2>3. CASE budget.crashes > 0 /\ budget' = [budget EXCEPT !.crashes = @ - 1]
    BY <2>1, <2>3
  <2> QED
    BY <2>2, <2>3 DEF Fail, Crash
<1>9. PICK row \in Row : /\ outbox' = [outbox EXCEPT ![j] = row]
                         /\ row.key = outbox[j].key /\ row.status # "none"
  <2>1. CASE Fail(w)
    <3>1. PICK retryable \in BOOLEAN :
            outbox' = [outbox EXCEPT ![j] = FailedRow(@, retryable)]
      BY <2>1 DEF Fail
    <3>2. PICK row \in Row : /\ row = FailedRow(outbox[j], retryable)
                             /\ row.key = outbox[j].key /\ row.status \in {"failed", "dead"}
      BY <1>2, FailedRowLemma
    <3>3. outbox' = [outbox EXCEPT ![j] = row]
      BY <1>2, <3>1, <3>2
    <3> QED
      BY <3>2, <3>3
  <2>2. CASE Crash(w)
    <3>1. outbox[j].status # "none"
      BY <1>2 DEF QueueInv, RowsKeyed
    <3>2. outbox' = [outbox EXCEPT ![j] = outbox[j]]
      BY <1>2, <2>2 DEF Crash
    <3> QED
      BY <1>2, <3>1, <3>2
  <2> QED
    BY <2>1, <2>2
<1>10. QueueInv' /\ Only(w) /\ workers'[w] = Idle
  BY <1>1, <1>6, <1>8, <1>9, UnlockType, EndOfRun
<1> QED
  BY <1>1, <1>4, <1>6, <1>7, <1>10

LEMMA ClaimEffect ==
  ASSUME QueueInv, NEW w \in Worker, Claim(w)
  PROVE  /\ QueueInv' /\ Only(w) /\ UNCHANGED <<tasks, mirrors, google>>
         /\ workers[w].phase = "idle" /\ workers'[w].phase = "claimed"
         /\ workers'[w].task # NoTask => tasks[workers'[w].task].exists
         /\ Unmarked({"overran"}) /\ history.overran \subseteq history'.overran
<1>1. /\ workers[w].phase = "idle"
      /\ UNCHANGED <<tasks, mapped, locks, mirrors, google, target, budget>>
  BY DEF Claim
<1>2. PICK j \in ClaimCandidates(outbox) :
        /\ outbox' = [outbox EXCEPT ![j] = ClaimRow(@, w)]
        /\ workers' = [workers EXCEPT ![w] =
             [Idle EXCEPT !.phase = "claimed", !.job = j, !.task = target[j]]]
        /\ history' = [history EXCEPT !.overran =
             IF outbox[j].lockAge = Lease /\ \E v \in Worker : Running(v, j)
             THEN @ \cup {outbox[j].key} ELSE @]
  BY DEF Claim
<1>3. /\ workers \in [Worker -> State] /\ outbox \in [Job -> Row]
      /\ j \in Job /\ outbox[j] \in Row /\ target[j] \in Task \cup {NoTask}
      /\ Claimable(outbox[j])
  BY <1>2, Types DEF QueueInv, ClaimCandidates
<1>4. outbox[j].status \in Open /\ outbox[j].key \in Key
  BY <1>3 DEF Claimable, Open, QueueInv, RowsKeyed
<1>5. PICK row \in Row : /\ row = ClaimRow(outbox[j], w) /\ row.key = outbox[j].key
                         /\ row.status = "processing" /\ row.lockedBy = w
  BY <1>3, ClaimRowLemma
<1>6. /\ outbox' \in [Job -> Row] /\ outbox'[j] = row
      /\ \A i \in Job \ {j} : outbox'[i] = outbox[i]
      /\ \A i \in Job : outbox'[i].key = outbox[i].key
  BY <1>2, <1>3, <1>5
<1>7. PICK s : s = [Idle EXCEPT !.phase = "claimed", !.job = j, !.task = target[j]]
  OBVIOUS
<1>8. s \in State
  <2>1. PICK idle \in State, task \in Task \cup {NoTask} : idle = Idle /\ task = target[j]
    BY <1>3, IdleType
  <2>2. s = [idle EXCEPT !.phase = "claimed", !.job = j, !.task = task]
    BY <1>7, <2>1
  <2> QED
    BY <1>3, <2>2, Zenon DEF State, Phase
<1>9. s.phase = "claimed" /\ s.job = j /\ s.task = target[j] /\ s.mirror = NoMirror
  BY <1>7, IdleType DEF Idle
<1>10. /\ workers' \in [Worker -> State] /\ workers'[w] = s
       /\ \A v \in Worker \ {w} : workers'[v] = workers[v]
  BY <1>2, <1>3, <1>7, <1>8
<1>11. PICK overran \in SUBSET Key :
         overran = IF outbox[j].lockAge = Lease /\ \E v \in Worker : Running(v, j)
                   THEN history.overran \cup {outbox[j].key} ELSE history.overran
  BY <1>4, HistoryFacts
<1>12. history' = [history EXCEPT !.overran = overran]
  BY <1>2, <1>11
<1>13. /\ history' \in History /\ history'.overran = overran /\ Unmarked({"overran"})
       /\ history.overran \subseteq overran
  BY <1>11, <1>12, HistoryFacts DEF History, Unmarked
<1>14. TypeOK'
  BY <1>1, <1>6, <1>10, <1>13, Types DEF QueueInv, TypeOK, HistoryOK, State, History
<1>15. RowsKeyed' /\ TasksVersioned' /\ MirrorsOwned'
  BY <1>1, <1>4, <1>5, <1>6 DEF QueueInv, RowsKeyed, TasksVersioned, MirrorsOwned, Open
<1>16. s.task # NoTask => /\ tasks[s.task].exists
                          /\ outbox[j].key = <<"upsert_task", s.task>>
  BY <1>3, <1>9 DEF QueueInv, RowsKeyed
<1>17. WorkersPlaced'
  <2> SUFFICES ASSUME NEW v \in Worker
               PROVE  (Placed(workers[v]) /\ RowOK(workers[v]) /\ MirrorOK(workers[v]))'
    BY DEF WorkersPlaced
  <2>1. CASE v = w
    <3>1. Placed(s)
      BY <1>9 DEF Placed, Syncing
    <3>2. workers'[v] = s /\ MirrorOK(s)' /\ RowOK(s)'
      BY <1>3, <1>4, <1>6, <1>9, <1>10, <1>16, <2>1 DEF MirrorOK, RowOK
    <3> QED
      BY <3>1, <3>2 DEF Placed, MirrorOK, RowOK
  <2>2. CASE v # w
    <3>1. workers'[v] = workers[v]
      BY <1>10, <2>2
    <3>2. Placed(workers'[v]) /\ MirrorOK(workers[v])'
      BY <1>1, <3>1 DEF QueueInv, WorkersPlaced, MirrorOK
    <3>3. RowOK(workers[v])'
      BY <1>6, <3>1 DEF QueueInv, WorkersPlaced, RowOK
    <3> QED
      BY <3>2, <3>3 DEF Placed
  <2> QED
    BY <2>1, <2>2
<1>18. ASSUME NEW v \in Worker, Running(v, j) PROVE outbox[j].key \in overran
  <2>1. CASE outbox[j].key \in history.overran
    BY <1>13, <2>1
  <2>2. CASE outbox[j].key \notin history.overran
    <3>1. outbox[j].status = "processing"
      BY <1>3, <1>18, <2>2 DEF QueueInv, HolderOwns
    <3>2. outbox[j].lockAge = Lease
      BY <1>3, <3>1 DEF Claimable
    <3> QED
      BY <1>11, <1>18, <3>2
  <2> QED
    BY <2>1, <2>2
<1>19. HolderOwns'
  <2> SUFFICES ASSUME NEW v \in Worker, NEW i \in Job, Running(v, i)',
                      outbox'[i].key \notin history'.overran
               PROVE  outbox'[i].status = "processing" /\ outbox'[i].lockedBy = v
    BY DEF HolderOwns
  <2>1. CASE v = w
    BY <1>5, <1>6, <1>9, <1>10, <2>1 DEF Running
  <2>2. CASE v # w
    <3>1. Running(v, i) /\ outbox[i].key \notin overran
      BY <1>6, <1>10, <1>13, <2>2 DEF Running
    <3>2. i # j
      BY <1>18, <3>1
    <3> QED
      BY <1>6, <1>13, <3>1, <3>2 DEF QueueInv, HolderOwns
  <2> QED
    BY <2>1, <2>2
<1>20. OneOpenRow'
  <2> SUFFICES ASSUME NEW t \in Task, <<"upsert_task", t>> \notin overran,
                      NEW a \in OpenRows(outbox', <<"upsert_task", t>>),
                      NEW b \in OpenRows(outbox', <<"upsert_task", t>>)
               PROVE  a = b
    BY <1>13 DEF OneOpenRow
  <2>1. /\ a \in OpenRows(outbox, <<"upsert_task", t>>)
        /\ b \in OpenRows(outbox, <<"upsert_task", t>>)
    BY <1>4, <1>6 DEF OpenRows
  <2> QED
    BY <1>13, <2>1 DEF QueueInv, OneOpenRow
<1>21. QueueInv'
  BY <1>14, <1>15, <1>17, <1>19, <1>20 DEF QueueInv
<1> QED
  BY <1>1, <1>9, <1>10, <1>13, <1>16, <1>21 DEF Only

LEMMA TickEffect ==
  ASSUME QueueInv, Tick
  PROVE  QueueInv' /\ UNCHANGED <<tasks, mirrors, google, workers, history>>
<1>1. /\ outbox' = [j \in Job |-> AgeRow(outbox[j])]
      /\ UNCHANGED <<tasks, mapped, locks, mirrors, google, target, workers, budget, history>>
  BY DEF Tick
<1>2. /\ outbox' \in [Job -> Row]
      /\ \A i \in Job :
           /\ outbox'[i].key = outbox[i].key /\ outbox'[i].status = outbox[i].status
           /\ outbox'[i].lockedBy = outbox[i].lockedBy
  BY <1>1, AgeRowLemma, Types DEF QueueInv
<1>3. TypeOK'
  BY <1>1, <1>2, Types DEF QueueInv, TypeOK, HistoryOK
<1>4. RowsKeyed' /\ TasksVersioned' /\ MirrorsOwned'
  BY <1>1, <1>2 DEF QueueInv, RowsKeyed, TasksVersioned, MirrorsOwned
<1>5. WorkersPlaced'
  <2> SUFFICES ASSUME NEW v \in Worker
               PROVE  (Placed(workers[v]) /\ RowOK(workers[v]) /\ MirrorOK(workers[v]))'
    BY DEF WorkersPlaced
  <2> QED
    BY <1>1, <1>2 DEF QueueInv, WorkersPlaced, Placed, RowOK, MirrorOK
<1>6. HolderOwns'
  BY <1>1, <1>2 DEF QueueInv, HolderOwns, Running
<1>7. \A k : OpenRows(outbox', k) = OpenRows(outbox, k)
  BY <1>2 DEF OpenRows
<1>8. OneOpenRow'
  BY <1>1, <1>7 DEF QueueInv, OneOpenRow
<1> QED
  BY <1>1, <1>3, <1>4, <1>5, <1>6, <1>8 DEF QueueInv

(***************************************************************************)
(* A change of a task finds the open row of its job, if there is one: a    *)
(* run that has read the task already is then late.                        *)
(***************************************************************************)
LEMMA EnqueueFacts ==
  ASSUME QueueInv, NEW t \in Task, tasks[t].exists, Enqueue(<<"upsert_task", t>>, t)
  PROVE  LET k == <<"upsert_task", t>> IN
         /\ outbox' \in [Job -> Row] /\ target' \in [Job -> Task \cup {NoTask}]
         /\ \A i \in Job :
              \/ /\ outbox[i].status = "none" /\ outbox'[i].status = "pending"
                 /\ outbox'[i].key = k /\ target'[i] = t /\ OpenRows(outbox, k) = {}
              \/ /\ outbox'[i].key = outbox[i].key /\ outbox'[i].status = outbox[i].status
                 /\ outbox'[i].lockedBy = outbox[i].lockedBy /\ target'[i] = target[i]
         /\ \A i, j \in Job : outbox[i].status = "none" /\ outbox'[i].status # "none"
              /\ outbox[j].status = "none" /\ outbox'[j].status # "none" => i = j
         /\ history' \in History /\ Unmarked({"late"}) /\ history.late \subseteq history'.late
         /\ \A v \in Worker :
              workers[v].task = t /\ workers[v].phase \notin {"idle", "claimed"}
                => t \in history'.late \/ Doubled(t)
<1> DEFINE k == <<"upsert_task", t>>
<1>1. /\ outbox \in [Job -> Row] /\ target \in [Job -> Task \cup {NoTask}]
      /\ history \in History /\ k \in Key
  BY Types, UpsertKey DEF QueueInv
<1>2. CASE OpenRows(outbox, k) = {}
  <2>1. PICK j \in Job : /\ outbox[j].status = "none"
                         /\ outbox' = [outbox EXCEPT ![j] = NewRow(k)]
                         /\ target' = [target EXCEPT ![j] = t]
                         /\ UNCHANGED history
    BY <1>2 DEF Enqueue
  <2>2. PICK row \in Row : row = NewRow(k) /\ row.key = k /\ row.status = "pending"
    BY <1>1, NewRowLemma
  <2>3. /\ outbox' \in [Job -> Row] /\ outbox'[j] = row
        /\ \A i \in Job \ {j} : outbox'[i] = outbox[i] /\ target'[i] = target[i]
        /\ target' \in [Job -> Task \cup {NoTask}] /\ target'[j] = t
    BY <1>1, <2>1, <2>2
  <2>4. ASSUME NEW v \in Worker, workers[v].task = t,
               workers[v].phase \notin {"idle", "claimed"}
        PROVE  Doubled(t)
    <3> DEFINE i == workers[v].job
    <3>1. i \in Job /\ outbox[i].key = k
      BY <2>4, WorkerFacts, MirrorAssumption DEF RowOK
    <3>2. outbox[i].status # "processing"
      BY <1>2, <3>1 DEF OpenRows, Open
    <3>3. k \in history.overran
      BY <2>4, <3>1, <3>2 DEF QueueInv, HolderOwns, Running
    <3> QED
      BY <3>3 DEF Doubled
  <2> QED
    BY <1>1, <1>2, <2>1, <2>2, <2>3, <2>4 DEF Unmarked
<1>3. CASE OpenRows(outbox, k) # {}
  <2>1. PICK j \in OpenRows(outbox, k) :
          /\ outbox' = [outbox EXCEPT ![j] = FoldRow(@, outbox[j].waitTime > 0)]
          /\ history' = [history EXCEPT !.late =
               IF \E w \in Worker : Running(w, j) /\ workers[w].phase # "claimed"
               THEN @ \cup {t} ELSE @]
          /\ UNCHANGED target
    BY <1>3 DEF Enqueue
  <2>2. j \in Job /\ outbox[j] \in Row /\ outbox[j].key = k
    BY <1>1 DEF OpenRows
  <2>3. (outbox[j].waitTime > 0) \in BOOLEAN
    BY <2>2 DEF Row
  <2>4. PICK row \in Row : /\ row = FoldRow(outbox[j], outbox[j].waitTime > 0)
                           /\ row.key = outbox[j].key
                           /\ row.status = outbox[j].status
                           /\ row.lockedBy = outbox[j].lockedBy
    BY <2>2, <2>3, FoldRowLemma
  <2>5. outbox' = [outbox EXCEPT ![j] = row]
    BY <1>1, <2>1, <2>2, <2>3, <2>4
  <2>6. /\ outbox' \in [Job -> Row]
        /\ \A i \in Job : /\ outbox'[i].key = outbox[i].key
                          /\ outbox'[i].status = outbox[i].status
                          /\ outbox'[i].lockedBy = outbox[i].lockedBy
    BY <1>1, <2>2, <2>4, <2>5
  <2>7. PICK late \in SUBSET Task :
          late = IF \E w \in Worker : Running(w, j) /\ workers[w].phase # "claimed"
                 THEN history.late \cup {t} ELSE history.late
    BY HistoryFacts
  <2>8. history' = [history EXCEPT !.late = late]
    BY <2>1, <2>7
  <2>9. /\ history' \in History /\ history'.late = late /\ Unmarked({"late"})
        /\ history.late \subseteq late
    BY <1>1, <2>7, <2>8, HistoryFacts DEF History, Unmarked
  <2>10. ASSUME NEW v \in Worker, workers[v].task = t,
                workers[v].phase \notin {"idle", "claimed"}
         PROVE  t \in late \/ Doubled(t)
    <3> DEFINE i == workers[v].job
    <3>1. i \in Job /\ outbox[i].key = k
      BY <2>10, WorkerFacts, MirrorAssumption DEF RowOK
    <3>2. CASE k \in history.overran
      BY <3>2 DEF Doubled
    <3>3. CASE k \notin history.overran
      <4>1. outbox[i].status = "processing"
        BY <2>10, <3>1, <3>3 DEF QueueInv, HolderOwns, Running
      <4>2. i = j
        BY <3>1, <3>3, <4>1 DEF OpenRows, Open, QueueInv, OneOpenRow
      <4> QED
        BY <2>7, <2>10, <4>2 DEF Running
    <3> QED
      BY <3>2, <3>3
  <2> QED
    BY <1>1, <2>1, <2>6, <2>9, <2>10
<1> QED
  BY <1>2, <1>3

LEMMA UpdateTaskEffect ==
  ASSUME QueueInv, NEW t \in Task, UpdateTask(t)
  PROVE  /\ QueueInv' /\ UNCHANGED <<mirrors, google, workers>>
         /\ \A u \in Task : tasks'[u].exists = tasks[u].exists
         /\ \A u \in Task \ {t} : tasks'[u] = tasks[u]
         /\ Unmarked({"late"}) /\ history.late \subseteq history'.late
         /\ \A v \in Worker :
              workers[v].task = t /\ workers[v].phase \notin {"idle", "claimed"}
                => t \in history'.late \/ Doubled(t)
<1> DEFINE k == <<"upsert_task", t>>
<1>1. /\ tasks[t].exists /\ budget.changes > 0
      /\ budget' = [budget EXCEPT !.changes = @ - 1]
      /\ Enqueue(k, t)
      /\ UNCHANGED <<mapped, locks, mirrors, google, workers>>
  BY DEF UpdateTask
<1>2. PICK l \in List \cup {NoList}, active \in BOOLEAN :
        tasks' = [tasks EXCEPT ![t].list = l, ![t].active = active, ![t].version = @ + 1]
  BY DEF UpdateTask
<1>3. tasks \in [Task -> TaskRow] /\ tasks[t] \in TaskRow /\ tasks[t].version \in Nat
      /\ budget \in [changes: Nat, crashes: Nat]
  BY Types DEF QueueInv, TaskRow
<1>4. PICK version \in Nat \ {0} : version = tasks[t].version + 1
  BY <1>3
<1>5. PICK row : row = [tasks[t] EXCEPT !.list = l, !.active = active, !.version = version]
  OBVIOUS
<1>6. row \in TaskRow /\ row.exists = tasks[t].exists /\ row.version = version
  BY <1>3, <1>5, Zenon DEF TaskRow
<1>7. tasks' = [tasks EXCEPT ![t] = row]
  BY <1>2, <1>3, <1>4, <1>5
<1>8. /\ tasks' \in [Task -> TaskRow] /\ tasks'[t] = row
      /\ \A u \in Task \ {t} : tasks'[u] = tasks[u]
      /\ \A u \in Task : tasks'[u].exists = tasks[u].exists
  BY <1>3, <1>6, <1>7
<1>9. /\ outbox' \in [Job -> Row] /\ target' \in [Job -> Task \cup {NoTask}]
      /\ \A i \in Job :
           \/ /\ outbox[i].status = "none" /\ outbox'[i].status = "pending"
              /\ outbox'[i].key = k /\ target'[i] = t /\ OpenRows(outbox, k) = {}
           \/ /\ outbox'[i].key = outbox[i].key /\ outbox'[i].status = outbox[i].status
              /\ outbox'[i].lockedBy = outbox[i].lockedBy /\ target'[i] = target[i]
      /\ \A i, j \in Job : outbox[i].status = "none" /\ outbox'[i].status # "none"
           /\ outbox[j].status = "none" /\ outbox'[j].status # "none" => i = j
      /\ history' \in History /\ Unmarked({"late"}) /\ history.late \subseteq history'.late
      /\ \A v \in Worker :
           workers[v].task = t /\ workers[v].phase \notin {"idle", "claimed"}
             => t \in history'.late \/ Doubled(t)
  BY <1>1, EnqueueFacts
<1>10. budget' \in [changes: Nat, crashes: Nat]
  BY <1>1, <1>3
<1>11. TypeOK'
  BY <1>1, <1>8, <1>9, <1>10, Types DEF QueueInv, TypeOK, HistoryOK, TaskRow, History
<1>12. RowsKeyed'
  <2> SUFFICES ASSUME NEW i \in Job
               PROVE  /\ outbox'[i].status # "none" <=> outbox'[i].key \in Key
                      /\ target'[i] # NoTask =>
                           /\ tasks'[target'[i]].exists
                           /\ outbox'[i].key = <<"upsert_task", target'[i]>>
    BY DEF RowsKeyed
  <2>1. CASE outbox[i].status = "none" /\ outbox'[i].status = "pending"
             /\ outbox'[i].key = k /\ target'[i] = t
    BY <1>1, <1>8, <2>1, UpsertKey
  <2>2. CASE outbox'[i].key = outbox[i].key /\ outbox'[i].status = outbox[i].status
             /\ target'[i] = target[i]
    <3>1. target[i] \in Task \cup {NoTask}
      BY Types DEF QueueInv
    <3> QED
      BY <1>8, <2>2, <3>1 DEF QueueInv, RowsKeyed
  <2> QED
    BY <1>9, <2>1, <2>2
<1>13. TasksVersioned'
  BY <1>6, <1>8 DEF QueueInv, TasksVersioned
<1>14. MirrorsOwned'
  <2>1. \A m \in Mirror : mirrors[m].event \in Task \cup {NoTask}
    BY Types DEF QueueInv, MirrorRow
  <2> QED
    BY <1>1, <1>8, <2>1 DEF QueueInv, MirrorsOwned
<1>15. \A i \in Job : outbox[i].key \in Key =>
         /\ outbox'[i].key = outbox[i].key /\ outbox'[i].status = outbox[i].status
         /\ outbox'[i].lockedBy = outbox[i].lockedBy
  BY <1>9 DEF QueueInv, RowsKeyed
<1>16. WorkersPlaced'
  <2> SUFFICES ASSUME NEW v \in Worker
               PROVE  (Placed(workers[v]) /\ RowOK(workers[v]) /\ MirrorOK(workers[v]))'
    BY DEF WorkersPlaced
  <2> QED
    BY <1>1, <1>15 DEF QueueInv, WorkersPlaced, Placed, RowOK, MirrorOK
<1>17. HolderOwns'
  <2> SUFFICES ASSUME NEW v \in Worker, NEW i \in Job, Running(v, i)',
                      outbox'[i].key \notin history'.overran
               PROVE  outbox'[i].status = "processing" /\ outbox'[i].lockedBy = v
    BY DEF HolderOwns
  <2>1. Running(v, i) /\ outbox[i].key \in Key
    BY <1>1, WorkerFacts DEF Running
  <2> QED
    BY <1>9, <1>15, <2>1 DEF QueueInv, HolderOwns, Unmarked
<1>18. OneOpenRow'
  <2> SUFFICES ASSUME NEW u \in Task, <<"upsert_task", u>> \notin history'.overran,
                      NEW a \in OpenRows(outbox', <<"upsert_task", u>>),
                      NEW b \in OpenRows(outbox', <<"upsert_task", u>>)
               PROVE  a = b
    BY DEF OneOpenRow
  <2>1. /\ a \in Job /\ b \in Job
        /\ outbox'[a].key = <<"upsert_task", u>> /\ outbox'[a].status \in Open
        /\ outbox'[b].key = <<"upsert_task", u>> /\ outbox'[b].status \in Open
    BY DEF OpenRows
  <2>2. CASE outbox[a].status = "none" /\ outbox[b].status = "none"
    BY <1>9, <2>1, <2>2 DEF Open
  <2>3. CASE outbox[a].status # "none" /\ outbox[b].status # "none"
    <3>1. /\ a \in OpenRows(outbox, <<"upsert_task", u>>)
          /\ b \in OpenRows(outbox, <<"upsert_task", u>>)
      BY <1>9, <2>1, <2>3 DEF OpenRows
    <3> QED
      BY <1>9, <3>1 DEF QueueInv, OneOpenRow, Unmarked
  <2>4. ASSUME NEW x \in {a, b}, NEW y \in {a, b},
               outbox[x].status = "none", outbox[y].status # "none"
        PROVE  FALSE
    <3>1. /\ outbox'[x].key = k /\ OpenRows(outbox, k) = {}
          /\ outbox[y].key = outbox'[y].key /\ outbox[y].status = outbox'[y].status
      BY <1>9, <2>1, <2>4 DEF Open
    <3>2. y \in OpenRows(outbox, k)
      BY <2>1, <3>1 DEF OpenRows
    <3> QED
      BY <3>1, <3>2
  <2> QED
    BY <2>2, <2>3, <2>4
<1>19. QueueInv'
  BY <1>11, <1>12, <1>13, <1>14, <1>16, <1>17, <1>18 DEF QueueInv
<1> QED
  BY <1>1, <1>8, <1>9, <1>19

LEMMA DeleteTaskEffect ==
  ASSUME QueueInv, NEW t \in Task, DeleteTask(t)
  PROVE  /\ QueueInv' /\ UNCHANGED <<google, workers, history>>
         /\ ~tasks'[t].exists /\ \A u \in Task \ {t} : tasks'[u] = tasks[u]
         /\ \A m \in Mirror :
              /\ mirrors'[m].used = mirrors[m].used /\ mirrors'[m].event = mirrors[m].event
              /\ mirrors'[m].cal = mirrors[m].cal
              /\ mirrors'[m].owner \in {mirrors[m].owner, NoTask}
<1> DEFINE k == <<"delete_task", t>>
<1>1. /\ tasks[t].exists /\ budget.changes > 0
      /\ tasks' = [tasks EXCEPT ![t].exists = FALSE]
      /\ target' = [j \in Job |-> IF target[j] = t THEN NoTask ELSE target[j]]
      /\ mirrors' = [m \in Mirror |-> IF m \in OwnedBy(t)
                                      THEN [mirrors[m] EXCEPT !.owner = NoTask]
                                      ELSE mirrors[m]]
      /\ budget' = [budget EXCEPT !.changes = @ - 1]
      /\ UNCHANGED <<mapped, locks, google, workers, history>>
  BY DEF DeleteTask
<1>2. PICK j \in Job : /\ outbox[j].status = "none"
                       /\ outbox' = [outbox EXCEPT ![j] = NewRow(k)]
  BY DEF DeleteTask
<1>3. /\ tasks \in [Task -> TaskRow] /\ outbox \in [Job -> Row]
      /\ target \in [Job -> Task \cup {NoTask}] /\ mirrors \in [Mirror -> MirrorRow]
      /\ budget \in [changes: Nat, crashes: Nat] /\ k \in Key
  BY Types, UpsertKey DEF QueueInv
<1>4. /\ tasks' \in [Task -> TaskRow] /\ ~tasks'[t].exists
      /\ tasks'[t].version = tasks[t].version
      /\ \A u \in Task \ {t} : tasks'[u] = tasks[u]
  <2>1. PICK row : row = [tasks[t] EXCEPT !.exists = FALSE]
    OBVIOUS
  <2>2. row \in TaskRow /\ ~row.exists /\ row.version = tasks[t].version
    BY <1>3, <2>1, Zenon DEF TaskRow
  <2>3. tasks' = [tasks EXCEPT ![t] = row]
    BY <1>1, <1>3, <2>1
  <2> QED
    BY <1>3, <2>2, <2>3
<1>5. PICK row \in Row : row = NewRow(k) /\ row.key = k /\ row.status = "pending"
  BY <1>3, NewRowLemma
<1>6. /\ outbox' \in [Job -> Row] /\ outbox'[j] = row
      /\ \A i \in Job \ {j} : outbox'[i] = outbox[i]
  BY <1>2, <1>3, <1>5
<1>7. /\ target' \in [Job -> Task \cup {NoTask}]
      /\ \A i \in Job : target'[i] = IF target[i] = t THEN NoTask ELSE target[i]
  BY <1>1, <1>3
<1>8. ASSUME NEW m \in Mirror
      PROVE  /\ mirrors'[m] \in MirrorRow
             /\ mirrors'[m].used = mirrors[m].used /\ mirrors'[m].event = mirrors[m].event
             /\ mirrors'[m].cal = mirrors[m].cal
             /\ mirrors'[m].owner = IF m \in OwnedBy(t) THEN NoTask ELSE mirrors[m].owner
             /\ m \notin OwnedBy(t) => mirrors'[m] = mirrors[m]
  <2>1. mirrors[m] \in MirrorRow
    BY <1>3
  <2>2. CASE m \in OwnedBy(t)
    <3>1. mirrors'[m] = [mirrors[m] EXCEPT !.owner = NoTask]
      BY <1>1, <2>2
    <3> QED
      BY <2>1, <2>2, <3>1, Zenon DEF MirrorRow
  <2>3. CASE m \notin OwnedBy(t)
    BY <1>1, <2>1, <2>3
  <2> QED
    BY <2>2, <2>3
<1>9. mirrors' \in [Mirror -> MirrorRow]
  BY <1>1, <1>8
<1>10. budget' \in [changes: Nat, crashes: Nat]
  BY <1>1, <1>3
<1>11. TypeOK'
  BY <1>1, <1>4, <1>6, <1>7, <1>9, <1>10, Types
  DEF QueueInv, TypeOK, HistoryOK, TaskRow, MirrorRow
<1>12. RowsKeyed'
  <2> SUFFICES ASSUME NEW i \in Job
               PROVE  /\ outbox'[i].status # "none" <=> outbox'[i].key \in Key
                      /\ target'[i] # NoTask =>
                           /\ tasks'[target'[i]].exists
                           /\ outbox'[i].key = <<"upsert_task", target'[i]>>
    BY DEF RowsKeyed
  <2>1. target[j] = NoTask
    BY <1>2, <1>3, UpsertKey DEF QueueInv, RowsKeyed
  <2>2. CASE i = j
    BY <1>3, <1>5, <1>6, <1>7, <2>1, <2>2
  <2>3. CASE i # j
    BY <1>3, <1>4, <1>6, <1>7, <2>3 DEF QueueInv, RowsKeyed
  <2> QED
    BY <2>2, <2>3
<1>13. TasksVersioned'
  BY <1>4 DEF QueueInv, TasksVersioned
<1>14. MirrorsOwned'
  <2> SUFFICES ASSUME NEW m \in Mirror
               PROVE  IF mirrors'[m].used
                      THEN /\ mirrors'[m].event # NoTask /\ mirrors'[m].cal # NoList
                           /\ mirrors'[m].owner = IF tasks'[mirrors'[m].event].exists
                                                  THEN mirrors'[m].event ELSE NoTask
                      ELSE mirrors'[m] = FreeRow
    BY DEF MirrorsOwned
  <2>1. IF mirrors[m].used
        THEN /\ mirrors[m].event # NoTask /\ mirrors[m].cal # NoList
             /\ mirrors[m].owner = IF tasks[mirrors[m].event].exists
                                   THEN mirrors[m].event ELSE NoTask
        ELSE mirrors[m] = FreeRow
    BY DEF QueueInv, MirrorsOwned
  <2>2. CASE ~mirrors[m].used
    BY <1>8, <2>1, <2>2 DEF OwnedBy
  <2>3. CASE mirrors[m].used
    <3>1. mirrors[m].event \in Task
      BY <1>3, <2>1, <2>3 DEF MirrorRow
    <3>2. m \in OwnedBy(t) <=> mirrors[m].event = t
      BY <1>1, <2>1, <2>3, <3>1, MirrorAssumption DEF OwnedBy
    <3> QED
      BY <1>4, <1>8, <2>1, <2>3, <3>1, <3>2
  <2> QED
    BY <2>2, <2>3
<1>15. \A i \in Job : outbox[i].key \in Key => outbox'[i] = outbox[i]
  BY <1>2, <1>6 DEF QueueInv, RowsKeyed
<1>16. WorkersPlaced'
  <2> SUFFICES ASSUME NEW v \in Worker
               PROVE  (Placed(workers[v]) /\ RowOK(workers[v]) /\ MirrorOK(workers[v]))'
    BY DEF WorkersPlaced
  <2>1. /\ workers[v].mirror \in Mirror \cup {NoMirror} /\ Placed(workers[v])
        /\ RowOK(workers[v]) /\ MirrorOK(workers[v]) /\ workers'[v] = workers[v]
    BY <1>1, WorkerFacts
  <2>2. Placed(workers'[v])
    BY <2>1
  <2>3. RowOK(workers[v])'
    BY <1>15, <2>1 DEF RowOK
  <2>4. MirrorOK(workers[v])'
    BY <1>8, <2>1 DEF MirrorOK
  <2> QED
    BY <2>2, <2>3, <2>4 DEF Placed
<1>17. HolderOwns'
  <2> SUFFICES ASSUME NEW v \in Worker, NEW i \in Job, Running(v, i)',
                      outbox'[i].key \notin history'.overran
               PROVE  outbox'[i].status = "processing" /\ outbox'[i].lockedBy = v
    BY DEF HolderOwns
  <2>1. Running(v, i) /\ outbox[i].key \in Key
    BY <1>1, WorkerFacts DEF Running
  <2> QED
    BY <1>1, <1>15, <2>1 DEF QueueInv, HolderOwns
<1>18. OneOpenRow'
  <2>1. \A u \in Task : OpenRows(outbox', <<"upsert_task", u>>)
                          \subseteq OpenRows(outbox, <<"upsert_task", u>>)
    BY <1>5, <1>6 DEF OpenRows
  <2> QED
    BY <1>1, <2>1 DEF QueueInv, OneOpenRow
<1>19. QueueInv'
  BY <1>11, <1>12, <1>13, <1>14, <1>16, <1>17, <1>18 DEF QueueInv
<1> QED
  BY <1>1, <1>4, <1>8, <1>19

LEMMA InitQueue == Init => QueueInv
<1> SUFFICES ASSUME Init PROVE QueueInv
  OBVIOUS
<1>1. PICK jobOf \in [Task -> Job] :
        /\ \A s, t \in Task : s # t => jobOf[s] # jobOf[t]
        /\ outbox = [j \in Job |->
             IF \E t \in Task : jobOf[t] = j
             THEN NewRow(<<"upsert_task", CHOOSE t \in Task : jobOf[t] = j>>)
             ELSE NoRow]
        /\ target = [j \in Job |->
             IF \E t \in Task : jobOf[t] = j
             THEN CHOOSE t \in Task : jobOf[t] = j ELSE NoTask]
  BY DEF Init
<1>2. NoRow \in Row /\ NoRow.key = NoKey /\ NoRow.status = "none"
  BY ZeroInLease DEF NoRow, Row
<1>3. ASSUME NEW j \in Job
      PROVE  /\ outbox[j] \in Row /\ target[j] \in Task \cup {NoTask}
             /\ \/ outbox[j].key = NoKey /\ outbox[j].status = "none" /\ target[j] = NoTask
                \/ /\ target[j] \in Task /\ jobOf[target[j]] = j
                   /\ outbox[j].key = <<"upsert_task", target[j]>>
                   /\ outbox[j].status = "pending"
  <2>1. CASE \E t \in Task : jobOf[t] = j
    <3>1. target[j] \in Task /\ jobOf[target[j]] = j
          /\ outbox[j] = NewRow(<<"upsert_task", target[j]>>)
      BY <1>1, <2>1
    <3> QED
      BY <3>1, UpsertKey, NewRowLemma
  <2>2. CASE ~ \E t \in Task : jobOf[t] = j
    BY <1>1, <1>2, <2>2
  <2> QED
    BY <2>1, <2>2
<1>4. TypeOK
  <2>1. /\ outbox \in [Job -> Row] /\ target \in [Job -> Task \cup {NoTask}]
    BY <1>1, <1>3
  <2>2. workers \in [Worker -> State]
    BY IdleType DEF Init
  <2>3. mirrors \in [Mirror -> MirrorRow]
    BY DEF Init, FreeRow, MirrorRow
  <2>4. tasks \in [Task -> TaskRow]
    <3>1. tasks \in [Task -> [exists: {TRUE}, active: {TRUE}, list: List, version: {1}]]
      BY DEF Init
    <3>2. {TRUE} \subseteq BOOLEAN /\ {1} \subseteq Nat
      OBVIOUS
    <3>3. ASSUME NEW exists \in SUBSET BOOLEAN, NEW version \in SUBSET Nat
          PROVE  [exists: exists, active: exists, list: List, version: version]
                   \subseteq TaskRow
      BY DEF TaskRow
    <3>4. [exists: {TRUE}, active: {TRUE}, list: List, version: {1}] \subseteq TaskRow
      BY <3>2, <3>3
    <3> QED
      BY <3>1, <3>4
  <2>5. /\ mapped \subseteq List /\ locks \in [List -> Worker \cup {NoWorker}]
        /\ google \in [Task \X List -> Nat]
        /\ budget \in [changes: Nat, crashes: Nat] /\ history \in History
    BY MirrorAssumption DEF Init, NoEvent, History
  <2> QED
    BY <2>1, <2>2, <2>3, <2>4, <2>5, Types
<1>5. \A t \in Task : tasks[t].exists /\ tasks[t].version = 1
  BY DEF Init
<1>6. RowsKeyed
  <2> SUFFICES ASSUME NEW j \in Job
               PROVE  /\ outbox[j].status # "none" <=> outbox[j].key \in Key
                      /\ target[j] # NoTask =>
                           /\ tasks[target[j]].exists
                           /\ outbox[j].key = <<"upsert_task", target[j]>>
    BY DEF RowsKeyed
  <2>1. CASE outbox[j].key = NoKey /\ outbox[j].status = "none" /\ target[j] = NoTask
    BY <2>1, QueueAssumption
  <2>2. CASE /\ target[j] \in Task /\ outbox[j].key = <<"upsert_task", target[j]>>
             /\ outbox[j].status = "pending"
    BY <1>5, <2>2, UpsertKey
  <2> QED
    BY <1>3, <2>1, <2>2
<1>7. \A w \in Worker : workers[w] = Idle
  BY DEF Init
<1>8. WorkersPlaced
  BY <1>7, IdleType DEF WorkersPlaced, Placed, RowOK, MirrorOK
<1>9. TasksVersioned /\ MirrorsOwned
  BY <1>5 DEF Init, TasksVersioned, MirrorsOwned, FreeRow
<1>10. HolderOwns
  BY <1>7, IdleType DEF HolderOwns, Running
<1>11. OneOpenRow
  <2> SUFFICES ASSUME NEW t \in Task, NEW a \in OpenRows(outbox, <<"upsert_task", t>>),
                      NEW b \in OpenRows(outbox, <<"upsert_task", t>>)
               PROVE  a = b
    BY DEF OneOpenRow
  <2>1. a \in Job /\ b \in Job /\ target[a] = t /\ target[b] = t
    BY <1>3 DEF OpenRows, Open
  <2> QED
    BY <1>3, <2>1, MirrorAssumption
<1> QED
  BY <1>4, <1>6, <1>8, <1>9, <1>10, <1>11 DEF QueueInv

-----------------------------------------------------------------------------
(***************************************************************************)
(* Every action preserves what the runs hold.                              *)
(***************************************************************************)
Grown == \A t \in Task : Doubled(t) => Doubled(t)'

LEMMA MarksGrow ==
  ASSUME history.overran \subseteq history'.overran, history.crossed \subseteq history'.crossed
  PROVE  Grown
  BY DEF Grown, Doubled

(***************************************************************************)
(* What the other runs hold survives a step of one run, when it changes    *)
(* the events of its own task only, or takes them away on purpose.         *)
(***************************************************************************)
LEMMA OthersHeld ==
  ASSUME QueueInv, QueueInv', Held, NEW w \in Worker, Only(w), Grown,
         workers'[w].task \notin {workers[w].task, NoTask} => tasks[workers'[w].task].exists,
         UNCHANGED tasks,
         \A v \in Worker \ {w} :
           workers[v].phase \in {"found", "sent", "cleaned"} /\ workers[v].mirror # NoMirror =>
             \/ mirrors'[workers[v].mirror] = mirrors[workers[v].mirror]
             \/ Doubled(workers[v].task)',
         \A v \in Worker \ {w}, m \in Mirror :
           workers[v].phase = "removing" /\ m \in workers[v].rows /\ mirrors'[m].used =>
             \/ mirrors'[m] = mirrors[m]
             \/ /\ mirrors[m].used /\ mirrors'[m].event = mirrors[m].event
                /\ Doubled(mirrors[m].event)',
         \A t \in Task, l \in List : google'[<<t, l>>] # google[<<t, l>>] =>
           t = workers[w].task \/ (google'[<<t, l>>] = NoEvent /\ t \in history'.hidden),
         \A t \in Task : t \in history.hidden => t \in history'.hidden \cup {workers[w].task},
         \A t \in Task : t \in history.late => t \in history'.late \cup {workers[w].task}
  PROVE  \A v \in Worker \ {w} : HeldBy(v)'
<1> SUFFICES ASSUME NEW v \in Worker, v # w PROVE HeldBy(v)'
  OBVIOUS
<1> DEFINE t == workers[v].task
<1>1. workers'[v] = workers[v] /\ HeldBy(v)
  BY DEF Only, Held
<1>2. /\ workers[v] \in State /\ t \in Task \cup {NoTask} /\ Placed(workers[v])
      /\ MirrorOK(workers[v]) /\ workers[v].rows \subseteq Mirror
      /\ workers[v].doomed \subseteq Task \X List
      /\ workers[v].cal \in List \cup {NoList} /\ workers[v].old \in List \cup {NoList}
      /\ workers[v].mirror \in Mirror \cup {NoMirror}
  BY WorkerFacts
<1>3. t \in Task /\ t = workers[w].task => Doubled(t)'
  <2> SUFFICES ASSUME t \in Task, t = workers[w].task PROVE Doubled(t)'
    OBVIOUS
  <2>1. Doubled(t)
    BY OneRun, MirrorAssumption DEF DoubleRun
  <2> QED
    BY <1>1, <2>1 DEF Grown, Doubled
<1>4. workers[v].phase \in Syncing => t \in Task /\ workers[v].cal \in List
  BY WorkerFacts
<1>5. MirrorHeld(v)'
  <2> SUFFICES ASSUME workers[v].phase \in {"found", "sent", "cleaned"},
                      workers[v].mirror # NoMirror, ~Doubled(t)'
               PROVE  /\ mirrors'[workers[v].mirror].used
                      /\ mirrors'[workers[v].mirror].cal = workers[v].old
    BY <1>1 DEF MirrorHeld
  <2>1. t \in Task
    BY <1>4 DEF Syncing
  <2> QED
    BY <1>1, <2>1 DEF HeldBy, MirrorHeld, Grown
<1>6. RowsHeld(v)'
  <2> SUFFICES ASSUME workers[v].phase = "removing", NEW m \in workers[v].rows,
                      mirrors'[m].used
               PROVE  RemovalHeld(v, m)'
    BY <1>1 DEF RowsHeld
  <2> DEFINE x == mirrors[m].event
             l == mirrors[m].cal
  <2>1. m \in Mirror /\ mirrors[m].used
    BY <1>2
  <2>2. mirrors'[m].event = x
    BY <2>1
  <2>3. mirrors[m] \in MirrorRow /\ x \in Task /\ l \in List
    BY <2>1, Types DEF QueueInv, MirrorsOwned, MirrorRow
  <2>4. RemovalHeld(v, m)
    BY <1>1, <2>1 DEF HeldBy, RowsHeld
  <2>5. x = workers[v].task \/ ~tasks'[x].exists
    BY <2>4 DEF RemovalHeld
  <2>6. \A u \in Worker \ {v} : workers'[u].task = x => Doubled(x)'
    <3> SUFFICES ASSUME NEW u \in Worker \ {v}, workers'[u].task = x PROVE Doubled(x)'
      OBVIOUS
    <3>1. CASE workers[u].task = x
      <4>1. Doubled(x)
        BY <2>4, <3>1 DEF RemovalHeld
      <4> QED
        BY <2>2, <2>3, <4>1 DEF Grown, Doubled
    <3>2. CASE workers[u].task # x
      <4>1. u = w /\ tasks[x].exists
        BY <2>3, <3>2, MirrorAssumption DEF Only
      <4>2. workers'[v].task = x /\ x # NoTask
        BY <1>1, <2>3, <2>4, <4>1, MirrorAssumption DEF RemovalHeld
      <4>3. DoubleRun'
        BY OneRunNext
      <4> QED
        BY <1>1, <2>2, <4>1, <4>2, <4>3 DEF DoubleRun, Doubled
    <3> QED
      BY <3>1, <3>2
  <2>7. CASE Doubled(x)'
    BY <1>1, <2>2, <2>5, <2>7 DEF RemovalHeld
  <2>8. CASE ~Doubled(x)'
    <3>1. mirrors'[m] = mirrors[m] /\ ~Doubled(x)
      BY <2>1, <2>3, <2>8 DEF Grown
    <3>2. <<x, l>> \in workers[v].doomed \/ google[<<x, l>>] = NoEvent
      BY <2>4, <3>1 DEF RemovalHeld
    <3>3. x # workers[w].task
      BY <2>3, <2>4, <3>1 DEF RemovalHeld
    <3>4. google[<<x, l>>] = NoEvent => google'[<<x, l>>] = NoEvent
      BY <2>3, <3>3
    <3> QED
      BY <1>1, <2>2, <2>5, <2>6, <3>1, <3>2, <3>4 DEF RemovalHeld
  <2> QED
    BY <2>7, <2>8
<1>7. DoomedHeld(v)'
  BY <1>1 DEF HeldBy, DoomedHeld
<1>8. SentShows(v)'
  <2> SUFFICES ASSUME workers[v].phase \in {"sent", "cleaned"}, ~Doubled(t)',
                      t \notin history'.hidden
               PROVE  google'[<<t, workers[v].cal>>] # NoEvent
    BY <1>1 DEF SentShows
  <2>1. t \in Task /\ workers[v].cal \in List /\ t # workers[w].task
    BY <1>3, <1>4 DEF Syncing
  <2> QED
    BY <1>1, <2>1 DEF HeldBy, SentShows, Grown
<1>9. OldGone(v)'
  <2> SUFFICES ASSUME workers[v].phase = "cleaned", ~Doubled(t)'
               PROVE  google'[<<t, workers[v].old>>] = NoEvent
    BY <1>1 DEF OldGone
  <2>1. t \in Task /\ workers[v].old \in List /\ t # workers[w].task
    BY <1>2, <1>3, <1>4 DEF Syncing, Placed
  <2> QED
    BY <1>1, <2>1 DEF HeldBy, OldGone, Grown
<1>10. ReadAgrees(v)'
  <2> SUFFICES ASSUME t # NoTask, t \notin history'.late, ~Doubled(t)'
               PROVE  /\ workers[v].phase \in {"read", "unmapped", "found", "sent", "cleaned"} =>
                           Wanted(t) \subseteq {workers[v].cal}
                      /\ workers[v].phase = "removing" => Wanted(t) = {}
    BY <1>1 DEF ReadAgrees, Wanted
  <2>1. t \in Task /\ t # workers[w].task
    BY <1>2, <1>3
  <2>2. t \notin history.late
    BY <2>1
  <2>3. ~Doubled(t)
    BY <1>1, <2>1 DEF Grown, Doubled
  <2> QED
    BY <1>1, <2>1, <2>2, <2>3 DEF HeldBy, ReadAgrees
<1> QED
  BY <1>5, <1>6, <1>7, <1>8, <1>9, <1>10 DEF HeldBy

(***************************************************************************)
(* What EventsTracked and NeverDark say of one event and of one task.      *)
(***************************************************************************)
InFlight(w, t, l) ==
  /\ workers[w].phase \in {"sent", "cleaned", "broken"}
  /\ workers[w].task = t /\ workers[w].cal = l

Tracked(t, l) ==
  \/ Recorded(t, l) \/ <<t, l>> \in history.strays \/ Doubled(t)
  \/ \E w \in Worker : InFlight(w, t, l)

Lit(t) ==
  OwnedBy(t) # {} /\ t \notin history.hidden /\ ~Doubled(t) => Shown(t) # {}

LEMMA ByEvent ==
  /\ EventsTracked <=> \A t \in Task, l \in List :
                         google[<<t, l>>] # NoEvent => Tracked(t, l)
  /\ NeverDark <=> \A t \in Task : Lit(t)
<1>1. EventsTracked <=> \A t \in Task, l \in List :
                          google[<<t, l>>] # NoEvent => Tracked(t, l)
  BY DEF EventsTracked, Shown, Tracked, InFlight
<1>2. NeverDark <=> \A t \in Task : Lit(t)
  BY DEF NeverDark, Lit
<1> QED
  BY <1>1, <1>2

LEMMA ByEventNext ==
  /\ EventsTracked' <=> \A t \in Task, l \in List :
                          google'[<<t, l>>] # NoEvent => Tracked(t, l)'
  /\ NeverDark' <=> \A t \in Task : Lit(t)'
<1>1. EventsTracked' <=> \A t \in Task, l \in List :
                           google'[<<t, l>>] # NoEvent => Tracked(t, l)'
  BY DEF EventsTracked, Shown, Tracked, InFlight, NoEvent
<1>2. NeverDark' <=> \A t \in Task : Lit(t)'
  BY DEF NeverDark, Lit
<1> QED
  BY <1>1, <1>2

(***************************************************************************)
(* An event stays tracked unless the step took away what tracked it.       *)
(***************************************************************************)
LEMMA StillTracked ==
  ASSUME NEW w \in Worker, Only(w), Grown, NEW t \in Task, NEW l \in List, Tracked(t, l),
         Recorded(t, l) => Tracked(t, l)',
         <<t, l>> \in history.strays => Tracked(t, l)',
         InFlight(w, t, l) => Tracked(t, l)'
  PROVE  Tracked(t, l)'
<1>1. CASE Doubled(t)
  BY <1>1 DEF Grown, Tracked
<1>2. CASE \E v \in Worker \ {w} : InFlight(v, t, l)
  BY <1>2 DEF Only, InFlight, Tracked
<1> QED
  BY <1>1, <1>2 DEF Tracked

LEMMA StillLit ==
  ASSUME Grown, NEW t \in Task, Lit(t),
         OwnedBy(t)' # {} => OwnedBy(t) # {} \/ Shown(t)' # {},
         t \in history.hidden => t \in history'.hidden \/ Shown(t)' # {},
         Shown(t) # {} => Shown(t)' # {} \/ t \in history'.hidden \/ Doubled(t)'
  PROVE  Lit(t)'
  BY DEF Grown, Lit

(***************************************************************************)
(* A step of one run that changes neither a task, nor a mirror, nor what   *)
(* Google shows.                                                           *)
(***************************************************************************)
LEMMA CalmStep ==
  ASSUME Inv, QueueInv', NEW w \in Worker, Only(w), HeldBy(w)',
         UNCHANGED <<tasks, mirrors, google>>,
         workers'[w].task \notin {workers[w].task, NoTask} => tasks[workers'[w].task].exists,
         history.overran \subseteq history'.overran, history.crossed \subseteq history'.crossed,
         history.strays \subseteq history'.strays, history'.hidden = history.hidden,
         \A t \in Task : t \in history.late => t \in history'.late \cup {workers[w].task},
         \A t \in Task, l \in List :
           google[<<t, l>>] # NoEvent /\ InFlight(w, t, l) => Tracked(t, l)'
  PROVE  Inv'
<1>1. Grown
  BY MarksGrow
<1>2. \A v \in Worker \ {w} : HeldBy(v)'
  BY <1>1, OthersHeld DEF Inv
<1>3. \A t \in Task, l \in List : Recorded(t, l) => Recorded(t, l)'
  BY DEF Recorded
<1>4. EventsTracked'
  <2> SUFFICES ASSUME NEW t \in Task, NEW l \in List, google'[<<t, l>>] # NoEvent
               PROVE  Tracked(t, l)'
    BY ByEventNext
  <2>1. Tracked(t, l)
    BY ByEvent DEF Inv
  <2>2. Recorded(t, l) => Tracked(t, l)'
    BY <1>3 DEF Tracked
  <2>3. <<t, l>> \in history.strays => Tracked(t, l)'
    BY DEF Tracked
  <2> QED
    BY <1>1, <2>1, <2>2, <2>3, StillTracked
<1>5. NeverDark'
  <2> SUFFICES ASSUME NEW t \in Task PROVE Lit(t)'
    BY ByEventNext
  <2>1. Lit(t)
    BY ByEvent DEF Inv
  <2>2. (OwnedBy(t)' # {} => OwnedBy(t) # {}) /\ (Shown(t) # {} => Shown(t)' # {})
    BY DEF OwnedBy, Shown
  <2> QED
    BY <1>1, <2>1, <2>2, StillLit
<1> QED
  BY <1>2, <1>4, <1>5 DEF Inv, Held

LEMMA NothingHeld ==
  ASSUME NEW w \in Worker, workers[w].phase \in {"idle", "claimed", "broken", "saved"}
  PROVE  HeldBy(w)
  BY DEF HeldBy, MirrorHeld, RowsHeld, DoomedHeld, SentShows, OldGone, ReadAgrees

LEMMA NothingHeldNext ==
  ASSUME NEW w \in Worker, workers'[w].phase \in {"idle", "claimed", "broken", "saved"}
  PROVE  HeldBy(w)'
  BY DEF HeldBy, MirrorHeld, RowsHeld, DoomedHeld, SentShows, OldGone, ReadAgrees

(***************************************************************************)
(* The rows of one task, and the rows of no task.                          *)
(***************************************************************************)
LEMMA OwnedRows ==
  ASSUME QueueInv, NEW t \in Task \cup {NoTask}, NEW m \in OwnedBy(t)
  PROVE  /\ m \in Mirror /\ mirrors[m].used
         /\ mirrors[m].event \in Task /\ mirrors[m].cal \in List
         /\ IF t = NoTask THEN ~tasks[mirrors[m].event].exists
            ELSE mirrors[m].event = t /\ tasks[t].exists
<1>1. m \in Mirror /\ mirrors[m].used /\ mirrors[m].owner = t /\ mirrors[m] \in MirrorRow
  BY Types DEF OwnedBy, QueueInv
<1>2. mirrors[m].event \in Task /\ mirrors[m].cal \in List
  BY <1>1 DEF QueueInv, MirrorsOwned, MirrorRow
<1> QED
  BY <1>1, <1>2, MirrorAssumption DEF QueueInv, MirrorsOwned

LEMMA StartRemoval ==
  ASSUME QueueInv, NEW w \in Worker, NEW t \in Task \cup {NoTask},
         workers[w].phase = "claimed", workers[w].task = t,
         workers'[w] = Removal(w, t), UNCHANGED <<tasks, mirrors>>,
         \A m \in OwnedBy(t), v \in Worker \ {w} :
           workers'[v].task = mirrors[m].event => Doubled(mirrors[m].event)',
         t # NoTask => Wanted(t) = {}
  PROVE  HeldBy(w)'
<1>1. /\ workers'[w].phase = "removing" /\ workers'[w].task = t
      /\ workers'[w].rows = OwnedBy(t)
      /\ workers'[w].doomed = {<<mirrors[m].event, mirrors[m].cal>> : m \in OwnedBy(t)}
  BY RemovalFacts
<1>2. RowsHeld(w)'
  <2> SUFFICES ASSUME NEW m \in OwnedBy(t) PROVE RemovalHeld(w, m)'
    BY <1>1 DEF RowsHeld
  <2>1. mirrors[m].event = t \/ ~tasks[mirrors[m].event].exists
    BY OwnedRows
  <2>2. <<mirrors[m].event, mirrors[m].cal>> \in workers'[w].doomed
    BY <1>1
  <2>3. \A v \in Worker \ {w} :
           workers'[v].task = mirrors'[m].event => Doubled(mirrors[m].event)'
    OBVIOUS
  <2> QED
    BY <1>1, <2>1, <2>2, <2>3 DEF RemovalHeld
<1>3. DoomedHeld(w)'
  <2> SUFFICES ASSUME NEW e \in workers'[w].doomed
               PROVE  e[1] = workers'[w].task \/ ~tasks'[e[1]].exists
    BY DEF DoomedHeld
  <2>1. PICK m \in OwnedBy(t) : e = <<mirrors[m].event, mirrors[m].cal>>
    BY <1>1
  <2> QED
    BY <1>1, <2>1, OwnedRows
<1>4. ReadAgrees(w)'
  BY <1>1 DEF ReadAgrees, Wanted
<1> QED
  BY <1>1, <1>2, <1>3, <1>4 DEF HeldBy, MirrorHeld, SentShows, OldGone

LEMMA StartDeleteKeeps ==
  ASSUME Inv, NEW w \in Worker, StartDelete(w)
  PROVE  Inv'
<1>1. /\ QueueInv' /\ Only(w) /\ UNCHANGED <<tasks, mirrors, google>>
      /\ workers[w].phase = "claimed" /\ workers[w].task = NoTask
      /\ workers'[w] = Removal(w, NoTask)
      /\ Unmarked({"crossed"}) /\ history.crossed \subseteq history'.crossed
      /\ \A m \in OwnedBy(NoTask), v \in Worker \ {w} :
           workers[v].task = mirrors[m].event => mirrors[m].event \in history'.crossed
  BY StartDeleteEffect DEF Inv
<1>2. workers'[w].task = NoTask
  BY <1>1, RemovalFacts DEF Inv
<1>3. \A m \in OwnedBy(NoTask), v \in Worker \ {w} :
        workers'[v].task = mirrors[m].event => Doubled(mirrors[m].event)'
  BY <1>1 DEF Only, Doubled
<1>4. HeldBy(w)'
  BY <1>1, <1>3, StartRemoval DEF Inv
<1>5. /\ history'.overran = history.overran /\ history'.strays = history.strays
      /\ history'.hidden = history.hidden /\ history'.late = history.late
  BY <1>1 DEF Unmarked
<1> QED
  BY <1>1, <1>2, <1>4, <1>5, CalmStep DEF InFlight

LEMMA SkipUpsertKeeps ==
  ASSUME Inv, NEW w \in Worker, SkipUpsert(w)
  PROVE  Inv'
<1>1. /\ QueueInv' /\ Only(w) /\ UNCHANGED <<tasks, mirrors, google, history>>
      /\ workers'[w].phase = "saved" /\ workers'[w].task = NoTask
      /\ workers[w].phase = "claimed"
  BY SkipUpsertEffect DEF Inv, SkipUpsert
<1>2. HeldBy(w)'
  BY <1>1, NothingHeldNext
<1> QED
  BY <1>1, <1>2, CalmStep DEF InFlight

LEMMA ReadTaskKeeps ==
  ASSUME Inv, NEW w \in Worker, ReadTask(w)
  PROVE  Inv'
<1> DEFINE t == workers[w].task
<1>1. /\ QueueInv' /\ Only(w) /\ UNCHANGED <<tasks, mirrors, google>>
      /\ workers[w].phase = "claimed" /\ t \in Task /\ workers'[w].task = t
      /\ IF Wanted(t) # {}
         THEN workers'[w].phase = "read" /\ Wanted(t) = {workers'[w].cal}
         ELSE workers'[w] = Removal(w, t)
      /\ Unmarked({"late"}) /\ history'.late = history.late \ {t}
  BY ReadTaskEffect DEF Inv
<1>2. /\ history'.overran = history.overran /\ history'.strays = history.strays
      /\ history'.hidden = history.hidden /\ history'.crossed = history.crossed
  BY <1>1 DEF Unmarked
<1>3. HeldBy(w)'
  <2>1. CASE Wanted(t) # {}
    <3>1. ReadAgrees(w)'
      BY <1>1, <2>1 DEF ReadAgrees, Wanted
    <3> QED
      BY <1>1, <2>1, <3>1 DEF HeldBy, MirrorHeld, RowsHeld, DoomedHeld, SentShows, OldGone
  <2>2. CASE Wanted(t) = {}
    <3>1. \A m \in OwnedBy(t), v \in Worker \ {w} :
            workers'[v].task = mirrors[m].event => Doubled(mirrors[m].event)'
      <4> SUFFICES ASSUME NEW m \in OwnedBy(t), NEW v \in Worker \ {w},
                          workers'[v].task = mirrors[m].event
                   PROVE  Doubled(mirrors[m].event)'
        OBVIOUS
      <4>1. mirrors[m].event = t /\ t # NoTask
        BY <1>1, OwnedRows, MirrorAssumption DEF Inv
      <4>2. Doubled(t)
        BY <1>1, <4>1, OneRun DEF Only, DoubleRun, Inv
      <4> QED
        BY <1>1, <1>2, <4>1, <4>2 DEF Doubled
    <3> QED
      BY <1>1, <2>2, <3>1, StartRemoval DEF Inv
  <2> QED
    BY <2>1, <2>2
<1> QED
  BY <1>1, <1>2, <1>3, CalmStep DEF InFlight

(***************************************************************************)
(* A run that has found its mirror, or has to create a calendar first.     *)
(***************************************************************************)
LEMMA FoundHeld ==
  ASSUME QueueInv, NEW w \in Worker, HeldBy(w), workers[w].phase \in {"read", "unmapped"},
         workers'[w].phase \in {"unmapped", "found", "broken"},
         workers'[w].task = workers[w].task, workers'[w].cal = workers[w].cal,
         workers'[w].phase = "found" /\ workers'[w].mirror # NoMirror =>
           /\ workers'[w].mirror \in OwnedBy(workers[w].task)
           /\ workers'[w].old = mirrors[workers'[w].mirror].cal,
         UNCHANGED <<tasks, mirrors, google, history>>
  PROVE  HeldBy(w)'
<1>1. MirrorHeld(w)'
  BY DEF MirrorHeld, OwnedBy
<1>2. ReadAgrees(w)'
  BY DEF HeldBy, ReadAgrees, Wanted, Doubled
<1> QED
  BY <1>1, <1>2 DEF HeldBy, RowsHeld, DoomedHeld, SentShows, OldGone

LEMMA LockListKeeps ==
  ASSUME Inv, NEW w \in Worker, LockList(w)
  PROVE  Inv'
<1>1. /\ QueueInv' /\ Only(w) /\ UNCHANGED <<tasks, mirrors, google, history>>
      /\ workers[w].phase = "read" /\ workers'[w].phase \in {"unmapped", "found"}
      /\ workers'[w].task = workers[w].task /\ workers'[w].cal = workers[w].cal
      /\ workers'[w].phase = "found" /\ workers'[w].mirror # NoMirror =>
           /\ workers'[w].mirror \in OwnedBy(workers[w].task)
           /\ workers'[w].old = mirrors[workers'[w].mirror].cal
  BY LockListEffect DEF Inv
<1>2. HeldBy(w)'
  BY <1>1, FoundHeld DEF Inv, Held
<1> QED
  BY <1>1, <1>2, CalmStep DEF InFlight

LEMMA CreateCalendarKeeps ==
  ASSUME Inv, NEW w \in Worker, CreateCalendar(w)
  PROVE  Inv'
<1>1. /\ QueueInv' /\ Only(w) /\ UNCHANGED <<tasks, mirrors, google, history>>
      /\ workers[w].phase = "unmapped" /\ workers'[w].phase \in {"found", "broken"}
      /\ workers'[w].task = workers[w].task /\ workers'[w].cal = workers[w].cal
      /\ workers'[w].phase = "found" /\ workers'[w].mirror # NoMirror =>
           /\ workers'[w].mirror \in OwnedBy(workers[w].task)
           /\ workers'[w].old = mirrors[workers'[w].mirror].cal
  BY CreateCalendarEffect DEF Inv
<1>2. HeldBy(w)'
  BY <1>1, FoundHeld DEF Inv, Held
<1> QED
  BY <1>1, <1>2, CalmStep DEF InFlight

LEMMA CommitRefusedKeeps ==
  ASSUME Inv, NEW w \in Worker, CommitRefused(w)
  PROVE  Inv'
<1>1. /\ QueueInv' /\ Only(w) /\ Onward(w, "broken")
      /\ UNCHANGED <<tasks, mirrors, google, history>>
  BY CommitRefusedEffect DEF Inv
<1>2. HeldBy(w)'
  BY <1>1, NothingHeldNext DEF Onward
<1>3. \A t \in Task, l \in List : InFlight(w, t, l) => Tracked(t, l)'
  BY <1>1 DEF Onward, InFlight, Tracked
<1> QED
  BY <1>1, <1>2, <1>3, CalmStep DEF Onward

LEMMA FinishKeeps ==
  ASSUME Inv, NEW w \in Worker, Finish(w)
  PROVE  Inv'
<1>1. /\ QueueInv' /\ Only(w) /\ workers'[w] = Idle
      /\ UNCHANGED <<tasks, mirrors, google, history>> /\ workers[w].phase = "saved"
  BY FinishEffect DEF Inv
<1>2. HeldBy(w)' /\ workers'[w].task = NoTask
  BY <1>1, IdleType, NothingHeldNext
<1> QED
  BY <1>1, <1>2, CalmStep DEF InFlight

LEMMA CutShortKeeps ==
  ASSUME Inv, NEW w \in Worker, Fail(w) \/ Crash(w)
  PROVE  Inv'
<1> DEFINE t == workers[w].task
           l == workers[w].cal
<1>1. /\ QueueInv' /\ Only(w) /\ workers'[w] = Idle
      /\ UNCHANGED <<tasks, mirrors, google>>
      /\ Unmarked({"strays"}) /\ history.strays \subseteq history'.strays
      /\ workers[w].phase \in {"sent", "cleaned", "broken"} /\ google[<<t, l>>] # NoEvent
           => Recorded(t, l) \/ <<t, l>> \in history'.strays
  BY CutShortEffect DEF Inv
<1>2. HeldBy(w)' /\ workers'[w].task = NoTask
  BY <1>1, IdleType, NothingHeldNext
<1>3. /\ history'.overran = history.overran /\ history'.crossed = history.crossed
      /\ history'.hidden = history.hidden /\ history'.late = history.late
  BY <1>1 DEF Unmarked
<1>4. \A u \in Task, c \in List :
        google[<<u, c>>] # NoEvent /\ InFlight(w, u, c) => Tracked(u, c)'
  BY <1>1 DEF InFlight, Tracked, Recorded
<1> QED
  BY <1>1, <1>2, <1>3, <1>4, CalmStep

LEMMA ClaimKeeps ==
  ASSUME Inv, NEW w \in Worker, Claim(w)
  PROVE  Inv'
<1>1. /\ QueueInv' /\ Only(w) /\ UNCHANGED <<tasks, mirrors, google>>
      /\ workers[w].phase = "idle" /\ workers'[w].phase = "claimed"
      /\ workers'[w].task # NoTask => tasks[workers'[w].task].exists
      /\ Unmarked({"overran"}) /\ history.overran \subseteq history'.overran
  BY ClaimEffect DEF Inv
<1>2. HeldBy(w)'
  BY <1>1, NothingHeldNext
<1>3. /\ history'.strays = history.strays /\ history'.crossed = history.crossed
      /\ history'.hidden = history.hidden /\ history'.late = history.late
  BY <1>1 DEF Unmarked
<1> QED
  BY <1>1, <1>2, <1>3, CalmStep DEF InFlight

(***************************************************************************)
(* The event of a run is sent: it is shown, and the run is about to commit *)
(* its mirror.                                                             *)
(***************************************************************************)
LEMMA SendEventKeeps ==
  ASSUME Inv, NEW w \in Worker, SendEvent(w)
  PROVE  Inv'
<1> DEFINE t == workers[w].task
           l == workers[w].cal
<1>1. /\ QueueInv' /\ Only(w) /\ Onward(w, "sent") /\ UNCHANGED <<tasks, mirrors>>
      /\ workers[w].phase = "found" /\ t \in Task /\ l \in List
      /\ \E version \in Nat \ {0} : google' = [google EXCEPT ![<<t, l>>] = version]
      /\ Unmarked({"hidden"}) /\ history'.hidden = history.hidden \ {t}
  BY SendEventEffect DEF Inv
<1>2. /\ history'.overran = history.overran /\ history'.crossed = history.crossed
      /\ history'.strays = history.strays /\ history'.late = history.late
  BY <1>1 DEF Unmarked
<1>3. google'[<<t, l>>] # NoEvent
      /\ \A u \in Task, c \in List : <<u, c>> # <<t, l>> => google'[<<u, c>>] = google[<<u, c>>]
  <2>1. google \in [Task \X List -> Nat] /\ <<t, l>> \in Task \X List
    BY <1>1, Types DEF Inv, QueueInv
  <2> QED
    BY <1>1, <2>1 DEF NoEvent
<1>4. Grown /\ HeldBy(w)
  BY <1>2, MarksGrow DEF Inv, Held
<1>5. HeldBy(w)'
  <2>1. MirrorHeld(w)'
    BY <1>1, <1>2, <1>4 DEF HeldBy, MirrorHeld, Onward, Doubled
  <2>2. SentShows(w)'
    BY <1>1, <1>3 DEF SentShows, Onward
  <2>3. ReadAgrees(w)'
    BY <1>1, <1>2, <1>4 DEF HeldBy, ReadAgrees, Onward, Wanted, Doubled
  <2> QED
    BY <1>1, <2>1, <2>2, <2>3 DEF HeldBy, RowsHeld, DoomedHeld, OldGone, Onward
<1>6. \A v \in Worker \ {w} : HeldBy(v)'
  BY <1>1, <1>2, <1>3, <1>4, OthersHeld DEF Inv, Onward
<1>7. EventsTracked'
  <2> SUFFICES ASSUME NEW u \in Task, NEW c \in List, google'[<<u, c>>] # NoEvent
               PROVE  Tracked(u, c)'
    BY ByEventNext
  <2>1. CASE <<u, c>> = <<t, l>>
    BY <1>1, <2>1 DEF Tracked, InFlight, Onward
  <2>2. CASE <<u, c>> # <<t, l>>
    <3>1. Tracked(u, c)
      BY <1>3, <2>2, ByEvent DEF Inv
    <3>2. Recorded(u, c) => Tracked(u, c)'
      BY <1>1 DEF Tracked, Recorded
    <3>3. <<u, c>> \in history.strays => Tracked(u, c)'
      BY <1>2 DEF Tracked
    <3>4. ~InFlight(w, u, c)
      BY <1>1 DEF InFlight
    <3> QED
      BY <1>1, <1>4, <3>1, <3>2, <3>3, <3>4, StillTracked
  <2> QED
    BY <2>1, <2>2
<1>8. NeverDark'
  <2> SUFFICES ASSUME NEW u \in Task PROVE Lit(u)'
    BY ByEventNext
  <2>1. Lit(u)
    BY ByEvent DEF Inv
  <2>2. u = t => Shown(u)' # {}
    BY <1>1, <1>3 DEF Shown
  <2>3. Shown(u) # {} => Shown(u)' # {}
    BY <1>3, <2>2 DEF Shown
  <2>4. OwnedBy(u)' # {} => OwnedBy(u) # {}
    BY <1>1 DEF OwnedBy
  <2>5. u \in history.hidden => u \in history'.hidden \/ Shown(u)' # {}
    BY <1>1, <2>2
  <2> QED
    BY <1>4, <2>1, <2>3, <2>4, <2>5, StillLit
<1> QED
  BY <1>1, <1>5, <1>6, <1>7, <1>8 DEF Inv, Held

(***************************************************************************)
(* An event is taken away.  Only the run that takes it, or nobody, misses  *)
(* it: its own run has another one shown, and a removal marks the task.    *)
(***************************************************************************)
LEMMA GoneTracked ==
  ASSUME Inv, NEW w \in Worker, Only(w), Grown, NEW t \in Task, NEW l \in List,
         google' = [google EXCEPT ![<<t, l>>] = NoEvent], UNCHANGED mirrors,
         history'.strays = history.strays \ {<<t, l>>},
         \A u \in Task, c \in List : InFlight(w, u, c) => InFlight(w, u, c)'
  PROVE  EventsTracked'
<1> SUFFICES ASSUME NEW u \in Task, NEW c \in List, google'[<<u, c>>] # NoEvent
             PROVE  Tracked(u, c)'
  BY ByEventNext
<1>1. google[<<u, c>>] # NoEvent /\ <<u, c>> # <<t, l>>
  <2>1. google \in [Task \X List -> Nat]
    BY Types DEF Inv, QueueInv
  <2> QED
    BY <2>1 DEF NoEvent
<1>2. Tracked(u, c)
  BY <1>1, ByEvent DEF Inv
<1>3. Recorded(u, c) => Tracked(u, c)'
  BY DEF Tracked, Recorded
<1>4. <<u, c>> \in history.strays => Tracked(u, c)'
  BY <1>1 DEF Tracked
<1>5. InFlight(w, u, c) => Tracked(u, c)'
  BY DEF Tracked
<1> QED
  BY <1>2, <1>3, <1>4, <1>5, StillTracked

LEMMA RemoveOldKeeps ==
  ASSUME Inv, NEW w \in Worker, RemoveOld(w)
  PROVE  Inv'
<1> DEFINE t == workers[w].task
           l == workers[w].cal
           e == <<t, workers[w].old>>
<1>1. /\ QueueInv' /\ Only(w) /\ Onward(w, "cleaned") /\ UNCHANGED <<tasks, mirrors>>
      /\ workers[w].phase = "sent" /\ Moving(w) /\ e \in Task \X List
      /\ google' = [google EXCEPT ![e] = NoEvent]
      /\ Unmarked({"strays"}) /\ history'.strays = history.strays \ {e}
  BY RemoveOldEffect DEF Inv
<1>2. /\ history'.overran = history.overran /\ history'.crossed = history.crossed
      /\ history'.hidden = history.hidden /\ history'.late = history.late
  BY <1>1 DEF Unmarked
<1>3. /\ workers[w].old \in List /\ google'[e] = NoEvent
      /\ \A u \in Task, c \in List : google'[<<u, c>>] # google[<<u, c>>] =>
           u = t /\ c = workers[w].old /\ google'[<<u, c>>] = NoEvent
  <2>1. google \in [Task \X List -> Nat] /\ workers[w].old \in List
    BY <1>1, Types DEF Inv, QueueInv
  <2> QED
    BY <1>1, <2>1 DEF NoEvent
<1>4. Grown /\ HeldBy(w) /\ t \in Task /\ l \in List
  BY <1>1, <1>2, MarksGrow, WorkerFacts DEF Inv, Held, Syncing
<1>5. google'[<<t, l>>] = google[<<t, l>>]
  BY <1>1, <1>3, <1>4 DEF Moving
<1>6. HeldBy(w)'
  <2>1. MirrorHeld(w)'
    BY <1>1, <1>2, <1>4 DEF HeldBy, MirrorHeld, Onward, Doubled
  <2>2. SentShows(w)'
    BY <1>1, <1>2, <1>4, <1>5 DEF HeldBy, SentShows, Onward, Doubled
  <2>3. OldGone(w)'
    BY <1>1, <1>3 DEF OldGone, Onward
  <2>4. ReadAgrees(w)'
    BY <1>1, <1>2, <1>4 DEF HeldBy, ReadAgrees, Onward, Wanted, Doubled
  <2> QED
    BY <1>1, <2>1, <2>2, <2>3, <2>4 DEF HeldBy, RowsHeld, DoomedHeld, Onward
<1>7. \A v \in Worker \ {w} : HeldBy(v)'
  BY <1>1, <1>2, <1>3, <1>4, OthersHeld DEF Inv, Onward
<1>8. EventsTracked'
  <2>1. \A u \in Task, c \in List : InFlight(w, u, c) => InFlight(w, u, c)'
    BY <1>1 DEF InFlight, Onward
  <2> QED
    BY <1>1, <1>4, <2>1, GoneTracked
<1>9. NeverDark'
  <2> SUFFICES ASSUME NEW u \in Task PROVE Lit(u)'
    BY ByEventNext
  <2>1. Lit(u)
    BY ByEvent DEF Inv
  <2>2. u # t => (Shown(u) # {} => Shown(u)' # {})
    BY <1>3 DEF Shown
  <2>3. u = t => Shown(u)' # {} \/ u \in history'.hidden \/ Doubled(u)'
    BY <1>1, <1>2, <1>4, <1>5 DEF HeldBy, SentShows, Shown, Grown
  <2>4. OwnedBy(u)' # {} => OwnedBy(u) # {}
    BY <1>1 DEF OwnedBy
  <2> QED
    BY <1>2, <1>4, <2>1, <2>2, <2>3, <2>4, StillLit
<1> QED
  BY <1>1, <1>6, <1>7, <1>8, <1>9 DEF Inv, Held

LEMMA RemoveEventKeeps ==
  ASSUME Inv, NEW w \in Worker, RemoveEvent(w)
  PROVE  Inv'
<1>1. /\ QueueInv' /\ Only(w) /\ UNCHANGED <<tasks, mirrors>>
      /\ workers[w].phase = "removing" /\ workers'[w].phase = "removing"
      /\ workers'[w].task = workers[w].task /\ workers'[w].rows = workers[w].rows
  BY RemoveEventEffect DEF Inv
<1>2. PICK e \in workers[w].doomed :
        /\ e \in Task \X List /\ google' = [google EXCEPT ![e] = NoEvent]
        /\ workers'[w].doomed = workers[w].doomed \ {e}
        /\ Unmarked({"strays", "hidden"})
        /\ history'.strays = history.strays \ {e}
        /\ history'.hidden = history.hidden \cup {e[1]}
  BY RemoveEventEffect DEF Inv
<1>3. PICK t \in Task, l \in List : e = <<t, l>>
  BY <1>2
<1>4. /\ history'.overran = history.overran /\ history'.crossed = history.crossed
      /\ history'.late = history.late /\ history'.hidden = history.hidden \cup {t}
  BY <1>2, <1>3 DEF Unmarked
<1>5. /\ google'[<<t, l>>] = NoEvent
      /\ \A u \in Task, c \in List : google'[<<u, c>>] # google[<<u, c>>] =>
           u = t /\ c = l /\ google'[<<u, c>>] = NoEvent
  <2>1. google \in [Task \X List -> Nat] /\ google' = [google EXCEPT ![<<t, l>>] = NoEvent]
    BY <1>2, <1>3, Types DEF Inv, QueueInv
  <2> QED
    BY <2>1 DEF NoEvent
<1>6. Grown /\ HeldBy(w) /\ workers[w].rows \subseteq Mirror
  BY <1>4, MarksGrow, WorkerFacts DEF Inv, Held
<1>7. HeldBy(w)'
  <2>1. RowsHeld(w)'
    <3> SUFFICES ASSUME NEW m \in workers[w].rows, mirrors[m].used
                 PROVE  RemovalHeld(w, m)'
      BY <1>1 DEF RowsHeld
    <3> DEFINE x == mirrors[m].event
               c == mirrors[m].cal
    <3>1. RemovalHeld(w, m)
      BY <1>1, <1>6 DEF HeldBy, RowsHeld
    <3>2. m \in Mirror /\ x \in Task /\ c \in List
      BY <1>6, Types DEF Inv, QueueInv, MirrorsOwned, MirrorRow
    <3>3. Doubled(x) => Doubled(x)'
      BY <1>1, <1>4 DEF Doubled
    <3>4. <<x, c>> \in workers'[w].doomed \/ google'[<<x, c>>] = NoEvent \/ Doubled(x)'
      BY <1>2, <1>3, <1>5, <3>1, <3>2, <3>3 DEF RemovalHeld
    <3>5. \A v \in Worker \ {w} : workers'[v].task = x => Doubled(x)'
      BY <1>1, <3>1, <3>3 DEF RemovalHeld, Only
    <3>6. x = workers'[w].task \/ ~tasks'[x].exists
      BY <1>1, <3>1 DEF RemovalHeld
    <3> QED
      BY <1>1, <3>4, <3>5, <3>6 DEF RemovalHeld
  <2>2. DoomedHeld(w)'
    BY <1>1, <1>2, <1>6 DEF HeldBy, DoomedHeld
  <2>3. ReadAgrees(w)'
    BY <1>1, <1>4, <1>6 DEF HeldBy, ReadAgrees, Wanted, Doubled
  <2> QED
    BY <1>1, <2>1, <2>2, <2>3 DEF HeldBy, MirrorHeld, SentShows, OldGone
<1>8. \A v \in Worker \ {w} : HeldBy(v)'
  BY <1>1, <1>4, <1>5, <1>6, OthersHeld DEF Inv
<1>9. EventsTracked'
  <2>1. \A u \in Task, c \in List : InFlight(w, u, c) => InFlight(w, u, c)'
    BY <1>1 DEF InFlight
  <2> QED
    BY <1>1, <1>2, <1>3, <1>6, <2>1, GoneTracked
<1>10. NeverDark'
  <2> SUFFICES ASSUME NEW u \in Task PROVE Lit(u)'
    BY ByEventNext
  <2>1. Lit(u)
    BY ByEvent DEF Inv
  <2>2. Shown(u) # {} => Shown(u)' # {} \/ u \in history'.hidden
    BY <1>4, <1>5 DEF Shown
  <2>3. OwnedBy(u)' # {} => OwnedBy(u) # {}
    BY <1>1 DEF OwnedBy
  <2> QED
    BY <1>4, <1>6, <2>1, <2>2, <2>3, StillLit
<1> QED
  BY <1>1, <1>7, <1>8, <1>9, <1>10 DEF Inv, Held

(***************************************************************************)
(* The mirror is committed: it records the event that was sent, and if it  *)
(* recorded another one before, that one is gone.                          *)
(***************************************************************************)
LEMMA CommitKeeps ==
  ASSUME Inv, NEW w \in Worker, Commit(w)
  PROVE  Inv'
<1>0. PICK t \in Task, l \in List : t = workers[w].task /\ l = workers[w].cal
  BY CommitEffect DEF Inv
<1>1. /\ QueueInv' /\ Only(w) /\ Onward(w, "saved") /\ UNCHANGED <<tasks, google>>
      /\ Written(w) /\ workers[w].phase \in {"sent", "cleaned"}
      /\ Unmarked({"strays"}) /\ history'.strays = history.strays \ {<<t, l>>}
  BY <1>0, CommitEffect DEF Inv
<1>2. PICK m \in Mirror :
        /\ IF workers[w].mirror = NoMirror THEN m \in FreshIds
           ELSE m = workers[w].mirror /\ mirrors[m].used /\ mirrors[m].event = t
        /\ mirrors'[m].used /\ mirrors'[m].event = t /\ mirrors'[m].cal = l
        /\ \A n \in Mirror \ {m} : mirrors'[n] = mirrors[n]
  BY <1>0, CommitEffect DEF Inv
<1>3. /\ history'.overran = history.overran /\ history'.crossed = history.crossed
      /\ history'.late = history.late /\ history'.hidden = history.hidden
  BY <1>1 DEF Unmarked
<1>4. Grown /\ HeldBy(w) /\ HeldBy(w)'
  BY <1>1, <1>3, MarksGrow, NothingHeldNext DEF Inv, Held, Onward
<1>5. \A v \in Worker \ {w} :
        workers[v].phase \in {"found", "sent", "cleaned"} /\ workers[v].mirror # NoMirror =>
          \/ mirrors'[workers[v].mirror] = mirrors[workers[v].mirror]
          \/ Doubled(workers[v].task)'
  <2> SUFFICES ASSUME NEW v \in Worker \ {w}, workers[v].mirror = m,
                      workers[v].phase \in {"found", "sent", "cleaned"}
               PROVE  Doubled(workers[v].task)'
    BY <1>2, WorkerFacts DEF Inv
  <2>1. mirrors[m].used /\ mirrors[m].event = t
    BY <1>2 DEF FreshIds
  <2>2. workers[v].task = t
    BY <2>1, MirrorAssumption DEF Inv, QueueInv, WorkersPlaced, MirrorOK
  <2>3. Doubled(t)
    BY <1>0, <1>1, <2>2, OneRun, MirrorAssumption DEF Inv, DoubleRun
  <2> QED
    BY <1>1, <1>3, <2>2, <2>3 DEF Doubled, Only
<1>6. \A v \in Worker \ {w}, n \in Mirror :
        workers[v].phase = "removing" /\ n \in workers[v].rows /\ mirrors'[n].used =>
          \/ mirrors'[n] = mirrors[n]
          \/ /\ mirrors[n].used /\ mirrors'[n].event = mirrors[n].event
             /\ Doubled(mirrors[n].event)'
  <2> SUFFICES ASSUME NEW v \in Worker \ {w}, workers[v].phase = "removing",
                      m \in workers[v].rows
               PROVE  /\ mirrors[m].used /\ mirrors'[m].event = mirrors[m].event
                      /\ Doubled(mirrors[m].event)'
    BY <1>2
  <2>1. mirrors[m].used /\ mirrors[m].event = t
    BY <1>2 DEF FreshIds
  <2>2. RemovalHeld(v, m)
    BY <2>1 DEF Inv, Held, HeldBy, RowsHeld
  <2>3. Doubled(t)
    BY <1>0, <2>1, <2>2 DEF RemovalHeld
  <2> QED
    BY <1>2, <1>3, <2>1, <2>3 DEF Doubled
<1>7. \A v \in Worker \ {w} : HeldBy(v)'
  BY <1>1, <1>3, <1>4, <1>5, <1>6, OthersHeld DEF Inv, Onward
<1>8. EventsTracked'
  <2> SUFFICES ASSUME NEW u \in Task, NEW c \in List, google[<<u, c>>] # NoEvent
               PROVE  Tracked(u, c)'
    BY <1>1, ByEventNext
  <2>1. Tracked(u, c)
    BY ByEvent DEF Inv
  <2>2. Recorded(t, l)'
    BY <1>2 DEF Recorded
  <2>3. Recorded(u, c) => Tracked(u, c)'
    <3> SUFFICES ASSUME NEW n \in Mirror, mirrors[n].event = u, mirrors[n].cal = c
                 PROVE  Tracked(u, c)'
      BY DEF Recorded
    <3>1. CASE n # m
      BY <1>2, <3>1 DEF Recorded, Tracked
    <3>2. CASE n = m /\ workers[w].mirror = NoMirror
      <4>1. mirrors[m] = FreeRow
        BY <1>2, <3>2 DEF FreshIds, Inv, QueueInv, MirrorsOwned
      <4> QED
        BY <3>2, <4>1, MirrorAssumption DEF FreeRow
    <3>3. CASE n = m /\ workers[w].mirror # NoMirror /\ c = l
      BY <1>2, <2>2, <3>3 DEF Tracked
    <3>4. CASE n = m /\ workers[w].mirror # NoMirror /\ c # l
      <4>1. u = t /\ m = workers[w].mirror
        BY <1>2, <3>4
      <4>2. Doubled(t) \/ c = workers[w].old
        BY <1>0, <1>1, <1>4, <3>4, <4>1 DEF HeldBy, MirrorHeld
      <4>3. c = workers[w].old => workers[w].phase = "cleaned"
        BY <1>0, <1>1, <3>4 DEF Written, Moving
      <4>4. Doubled(u)
        BY <1>0, <1>4, <4>1, <4>2, <4>3 DEF HeldBy, OldGone
      <4> QED
        BY <1>4, <4>4 DEF Grown, Tracked
    <3> QED
      BY <3>1, <3>2, <3>3, <3>4
  <2>4. <<u, c>> \in history.strays => Tracked(u, c)'
    BY <1>1, <2>2 DEF Tracked
  <2>5. InFlight(w, u, c) => Tracked(u, c)'
    BY <1>0, <2>2 DEF Tracked, InFlight
  <2> QED
    BY <1>1, <1>4, <2>1, <2>3, <2>4, <2>5, StillTracked
<1>9. NeverDark'
  <2> SUFFICES ASSUME NEW u \in Task PROVE Lit(u)'
    BY ByEventNext
  <2>1. Lit(u)
    BY ByEvent DEF Inv
  <2>2. CASE u = t
    <3>1. google[<<t, l>>] # NoEvent \/ t \in history.hidden \/ Doubled(t)
      BY <1>0, <1>1, <1>4 DEF HeldBy, SentShows
    <3> QED
      BY <1>1, <1>3, <1>4, <2>2, <3>1 DEF Lit, Shown, Grown
  <2>3. CASE u # t
    <3>1. OwnedBy(u)' # {} => OwnedBy(u) # {}
      <4> SUFFICES ASSUME NEW n \in OwnedBy(u)' PROVE n \in OwnedBy(u)
        OBVIOUS
      <4>1. n \in Mirror /\ mirrors'[n].used /\ mirrors'[n].owner = u
        BY DEF OwnedBy
      <4>2. mirrors'[n].event = u
        BY <1>1, <4>1, MirrorAssumption DEF QueueInv, MirrorsOwned
      <4> QED
        BY <1>2, <2>3, <4>1, <4>2 DEF OwnedBy
    <3>2. Shown(u)' = Shown(u)
      BY <1>1 DEF Shown
    <3> QED
      BY <1>3, <1>4, <2>1, <3>1, <3>2, StillLit
  <2> QED
    BY <2>2, <2>3
<1> QED
  BY <1>1, <1>4, <1>7, <1>8, <1>9 DEF Inv, Held

(***************************************************************************)
(* The rows of a removal are dropped, and none of their events is left.    *)
(***************************************************************************)
LEMMA CommitRemovalKeeps ==
  ASSUME Inv, NEW w \in Worker, CommitRemoval(w)
  PROVE  Inv'
<1>1. /\ QueueInv' /\ Only(w) /\ Onward(w, "saved") /\ UNCHANGED <<tasks, google, history>>
      /\ workers[w].phase = "removing" /\ workers[w].doomed = {}
      /\ \A m \in Mirror : mirrors'[m] = IF m \in workers[w].rows THEN FreeRow ELSE mirrors[m]
  BY CommitRemovalEffect DEF Inv
<1>2. Grown /\ HeldBy(w) /\ HeldBy(w)'
  BY <1>1, MarksGrow, NothingHeldNext DEF Inv, Held, Onward
<1>3. \A m \in workers[w].rows : mirrors[m].used => RemovalHeld(w, m)
  BY <1>1, <1>2 DEF HeldBy, RowsHeld
<1>4. \A v \in Worker \ {w} :
        workers[v].phase \in {"found", "sent", "cleaned"} /\ workers[v].mirror # NoMirror =>
          \/ mirrors'[workers[v].mirror] = mirrors[workers[v].mirror]
          \/ Doubled(workers[v].task)'
  <2> SUFFICES ASSUME NEW v \in Worker \ {w}, workers[v].mirror # NoMirror,
                      workers[v].phase \in {"found", "sent", "cleaned"},
                      workers[v].mirror \in workers[w].rows
               PROVE  \/ mirrors'[workers[v].mirror] = mirrors[workers[v].mirror]
                      \/ Doubled(workers[v].task)'
    BY <1>1, WorkerFacts DEF Inv
  <2> DEFINE m == workers[v].mirror
  <2>1. m \in Mirror
    BY WorkerFacts DEF Inv
  <2>2. CASE ~mirrors[m].used
    BY <1>1, <2>1, <2>2 DEF Inv, QueueInv, MirrorsOwned
  <2>3. CASE mirrors[m].used
    <3>1. mirrors[m].event = workers[v].task
      BY <2>3 DEF Inv, QueueInv, WorkersPlaced, MirrorOK
    <3>2. Doubled(workers[v].task)
      BY <1>3, <2>3, <3>1 DEF RemovalHeld
    <3> QED
      BY <1>1, <3>2 DEF Doubled, Only
  <2> QED
    BY <2>2, <2>3
<1>5. \A v \in Worker \ {w}, n \in Mirror :
        workers[v].phase = "removing" /\ n \in workers[v].rows /\ mirrors'[n].used =>
          mirrors'[n] = mirrors[n]
  BY <1>1 DEF FreeRow
<1>6. \A v \in Worker \ {w} : HeldBy(v)'
  BY <1>1, <1>2, <1>4, <1>5, OthersHeld DEF Inv, Onward
<1>7. EventsTracked'
  <2> SUFFICES ASSUME NEW u \in Task, NEW c \in List, google[<<u, c>>] # NoEvent
               PROVE  Tracked(u, c)'
    BY <1>1, ByEventNext
  <2>1. Tracked(u, c)
    BY ByEvent DEF Inv
  <2>2. Recorded(u, c) => Tracked(u, c)'
    <3> SUFFICES ASSUME NEW m \in Mirror, mirrors[m].event = u, mirrors[m].cal = c
                 PROVE  Tracked(u, c)'
      BY DEF Recorded
    <3>1. CASE m \notin workers[w].rows
      BY <1>1, <3>1 DEF Recorded, Tracked
    <3>2. CASE m \in workers[w].rows
      <4>1. mirrors[m].used
        BY MirrorAssumption DEF Inv, QueueInv, MirrorsOwned, FreeRow
      <4>2. Doubled(u)
        BY <1>1, <1>3, <3>2, <4>1 DEF RemovalHeld
      <4> QED
        BY <1>2, <4>2 DEF Grown, Tracked
    <3> QED
      BY <3>1, <3>2
  <2>3. <<u, c>> \in history.strays => Tracked(u, c)'
    BY <1>1 DEF Tracked
  <2>4. ~InFlight(w, u, c)
    BY <1>1 DEF InFlight
  <2> QED
    BY <1>1, <1>2, <2>1, <2>2, <2>3, <2>4, StillTracked
<1>8. NeverDark'
  <2> SUFFICES ASSUME NEW u \in Task PROVE Lit(u)'
    BY ByEventNext
  <2>1. Lit(u)
    BY ByEvent DEF Inv
  <2>2. OwnedBy(u)' # {} => OwnedBy(u) # {}
    BY <1>1 DEF OwnedBy, FreeRow
  <2>3. Shown(u)' = Shown(u)
    BY <1>1 DEF Shown
  <2> QED
    BY <1>1, <1>2, <2>1, <2>2, <2>3, StillLit
<1> QED
  BY <1>1, <1>2, <1>6, <1>7, <1>8 DEF Inv, Held

(***************************************************************************)
(* The requests of the user leave the runs and Google alone.               *)
(***************************************************************************)
LEMMA RequestKeeps ==
  ASSUME Inv, QueueInv', UNCHANGED <<google, workers>>,
         \A u \in Task : tasks'[u].exists => tasks[u].exists,
         \A m \in Mirror :
           /\ mirrors'[m].used = mirrors[m].used /\ mirrors'[m].event = mirrors[m].event
           /\ mirrors'[m].cal = mirrors[m].cal
           /\ mirrors'[m].owner \in {mirrors[m].owner, NoTask},
         Unmarked({"late"}), history.late \subseteq history'.late,
         \A v \in Worker : ReadAgrees(v)'
  PROVE  Inv'
<1>1. /\ history'.overran = history.overran /\ history'.crossed = history.crossed
      /\ history'.strays = history.strays /\ history'.hidden = history.hidden
  BY DEF Unmarked
<1>2. \A u : Doubled(u) <=> Doubled(u)'
  BY <1>1 DEF Doubled
<1>3. ASSUME NEW v \in Worker PROVE HeldBy(v)'
  <2>1. /\ HeldBy(v) /\ workers[v].mirror \in Mirror \cup {NoMirror}
        /\ workers[v].rows \subseteq Mirror /\ workers[v].doomed \subseteq Task \X List
    BY WorkerFacts DEF Inv, Held
  <2>2. MirrorHeld(v)'
    BY <1>1, <2>1 DEF HeldBy, MirrorHeld, Doubled
  <2>3. RowsHeld(v)'
    <3> SUFFICES ASSUME workers[v].phase = "removing", NEW m \in workers[v].rows,
                        mirrors[m].used
                 PROVE  RemovalHeld(v, m)'
      BY <2>1 DEF RowsHeld
    <3>1. RemovalHeld(v, m) /\ m \in Mirror /\ mirrors[m].event \in Task
      BY <2>1, Types DEF HeldBy, RowsHeld, Inv, QueueInv, MirrorsOwned, MirrorRow
    <3> QED
      BY <1>1, <3>1 DEF RemovalHeld, Doubled
  <2>4. DoomedHeld(v)'
    BY <2>1 DEF HeldBy, DoomedHeld
  <2>5. SentShows(v)'
    BY <1>1, <2>1 DEF HeldBy, SentShows, Doubled
  <2>6. OldGone(v)'
    BY <1>1, <2>1 DEF HeldBy, OldGone, Doubled
  <2> QED
    BY <2>2, <2>3, <2>4, <2>5, <2>6 DEF HeldBy
<1>4. EventsTracked'
  <2> SUFFICES ASSUME NEW u \in Task, NEW c \in List, google[<<u, c>>] # NoEvent
               PROVE  Tracked(u, c)'
    BY ByEventNext
  <2>1. Tracked(u, c)
    BY ByEvent DEF Inv
  <2>2. Recorded(u, c) => Recorded(u, c)'
    BY DEF Recorded
  <2>3. (\E v \in Worker : InFlight(v, u, c)) => (\E v \in Worker : InFlight(v, u, c))'
    BY DEF InFlight
  <2> QED
    BY <1>1, <2>1, <2>2, <2>3 DEF Tracked, Doubled
<1>5. NeverDark'
  <2> SUFFICES ASSUME NEW u \in Task PROVE Lit(u)'
    BY ByEventNext
  <2>1. Lit(u)
    BY ByEvent DEF Inv
  <2>2. OwnedBy(u)' \subseteq OwnedBy(u) /\ Shown(u)' = Shown(u)
    BY MirrorAssumption DEF OwnedBy, Shown
  <2> QED
    BY <1>1, <2>1, <2>2 DEF Lit, Doubled
<1> QED
  BY <1>3, <1>4, <1>5 DEF Inv, Held

LEMMA UpdateTaskKeeps ==
  ASSUME Inv, NEW t \in Task, UpdateTask(t)
  PROVE  Inv'
<1>1. /\ QueueInv' /\ UNCHANGED <<mirrors, google, workers>>
      /\ \A u \in Task : tasks'[u].exists = tasks[u].exists
      /\ \A u \in Task \ {t} : tasks'[u] = tasks[u]
      /\ Unmarked({"late"}) /\ history.late \subseteq history'.late
      /\ \A v \in Worker :
           workers[v].task = t /\ workers[v].phase \notin {"idle", "claimed"}
             => t \in history'.late \/ Doubled(t)
  BY UpdateTaskEffect DEF Inv
<1>2. history'.overran = history.overran /\ history'.crossed = history.crossed
  BY <1>1 DEF Unmarked
<1>3. ASSUME NEW v \in Worker PROVE ReadAgrees(v)'
  <2>1. CASE workers[v].task = t
    BY <1>1, <1>2, <2>1 DEF ReadAgrees, Doubled
  <2>2. CASE workers[v].task # t
    <3>1. ReadAgrees(v) /\ workers[v].task \in Task \cup {NoTask}
      BY WorkerFacts DEF Inv, Held, HeldBy
    <3>2. workers[v].task # NoTask => Wanted(workers[v].task)' = Wanted(workers[v].task)
      BY <1>1, <2>2, <3>1 DEF Wanted
    <3> QED
      BY <1>1, <1>2, <2>2, <3>1, <3>2 DEF ReadAgrees, Doubled
  <2> QED
    BY <2>1, <2>2
<1> QED
  BY <1>1, <1>3, RequestKeeps

LEMMA DeleteTaskKeeps ==
  ASSUME Inv, NEW t \in Task, DeleteTask(t)
  PROVE  Inv'
<1>1. /\ QueueInv' /\ UNCHANGED <<google, workers, history>>
      /\ ~tasks'[t].exists /\ \A u \in Task \ {t} : tasks'[u] = tasks[u]
      /\ \A m \in Mirror :
           /\ mirrors'[m].used = mirrors[m].used /\ mirrors'[m].event = mirrors[m].event
           /\ mirrors'[m].cal = mirrors[m].cal
           /\ mirrors'[m].owner \in {mirrors[m].owner, NoTask}
  BY DeleteTaskEffect DEF Inv
<1>2. ASSUME NEW v \in Worker PROVE ReadAgrees(v)'
  <2>1. ReadAgrees(v) /\ workers[v].task \in Task \cup {NoTask}
    BY WorkerFacts DEF Inv, Held, HeldBy
  <2>2. workers[v].task # NoTask => Wanted(workers[v].task)' \subseteq Wanted(workers[v].task)
    BY <1>1, <2>1 DEF Wanted
  <2> QED
    BY <1>1, <2>1, <2>2 DEF ReadAgrees, Doubled
<1>3. Unmarked({"late"})
  BY <1>1 DEF Unmarked
<1> QED
  BY <1>1, <1>2, <1>3, RequestKeeps

LEMMA StandStill ==
  ASSUME Inv, QueueInv', UNCHANGED <<tasks, mirrors, google, workers, history>>
  PROVE  Inv'
<1>1. Unmarked({"late"}) /\ history.late \subseteq history'.late
  BY DEF Unmarked
<1>2. \A v \in Worker : ReadAgrees(v)'
  BY DEF Inv, Held, HeldBy, ReadAgrees, Wanted, Doubled
<1> QED
  BY <1>1, <1>2, RequestKeeps

LEMMA InitInv == Init => Inv
<1> SUFFICES ASSUME Init PROVE Inv
  OBVIOUS
<1>1. QueueInv
  BY InitQueue
<1>2. \A w \in Worker : workers[w].phase = "idle"
  BY IdleType DEF Init
<1>3. Held
  BY <1>2, NothingHeld DEF Held
<1>4. google = [e \in Task \X List |-> NoEvent] /\ mirrors = [m \in Mirror |-> FreeRow]
  BY DEF Init
<1>5. EventsTracked
  BY <1>4, ByEvent
<1>6. NeverDark
  BY <1>4 DEF NeverDark, OwnedBy, FreeRow
<1> QED
  BY <1>1, <1>3, <1>5, <1>6 DEF Inv

LEMMA NextInv == Inv /\ [Next]_vars => Inv'
<1> SUFFICES ASSUME Inv, [Next]_vars PROVE Inv'
  OBVIOUS
<1>1. CASE \E t \in Task : UpdateTask(t) \/ DeleteTask(t)
  BY <1>1, UpdateTaskKeeps, DeleteTaskKeeps
<1>2. CASE \E w \in Worker : Fail(w) \/ Crash(w)
  BY <1>2, CutShortKeeps
<1>3. CASE \E w \in Worker : WorkerStep(w)
  <2>1. PICK w \in Worker : WorkerStep(w)
    BY <1>3
  <2>2. CASE Claim(w) \/ StartDelete(w) \/ SkipUpsert(w) \/ ReadTask(w) \/ LockList(w)
    BY <2>2, ClaimKeeps, StartDeleteKeeps, SkipUpsertKeeps, ReadTaskKeeps, LockListKeeps
  <2>3. CASE CreateCalendar(w) \/ SendEvent(w) \/ RemoveOld(w) \/ Commit(w) \/ CommitRefused(w)
    BY <2>3, CreateCalendarKeeps, SendEventKeeps, RemoveOldKeeps, CommitKeeps,
       CommitRefusedKeeps
  <2>4. CASE RemoveEvent(w) \/ CommitRemoval(w) \/ Finish(w)
    BY <2>4, RemoveEventKeeps, CommitRemovalKeeps, FinishKeeps
  <2>5. CASE workers[w].phase = "broken" /\ Fail(w)
    BY <2>5, CutShortKeeps
  <2> QED
    BY <2>1, <2>2, <2>3, <2>4, <2>5 DEF WorkerStep
<1>4. CASE Tick
  <2>1. QueueInv' /\ UNCHANGED <<tasks, mirrors, google, workers, history>>
    BY <1>4, TickEffect DEF Inv
  <2> QED
    BY <2>1, StandStill
<1>5. CASE UNCHANGED vars
  <2>1. QueueInv'
    BY <1>5 DEF vars, Inv, QueueInv, TypeOK, HistoryOK, RowsKeyed, WorkersPlaced, Placed,
       RowOK, MirrorOK, TasksVersioned, MirrorsOwned, HolderOwns, Running, OneOpenRow
  <2> QED
    BY <1>5, <2>1, StandStill DEF vars
<1> QED
  BY <1>1, <1>2, <1>3, <1>4, <1>5 DEF Next

LEMMA InvAlways == Spec => []Inv
  BY InitInv, NextInv, PTL DEF Spec

(***************************************************************************)
(* The tables, the locks and what each worker remembers stay well-formed   *)
(* (models.py, outbox.py, sync_service.py).                                *)
(***************************************************************************)
THEOREM MirrorTypes == Spec => []TypeOK
<1>1. Inv => TypeOK
  BY DEF Inv, QueueInv
<1> QED
  BY <1>1, InvAlways, PTL

(***************************************************************************)
(* Every event that Google shows has its mirror, or a run that is about to *)
(* commit one, or is what a run that was cut short has left, unless two    *)
(* runs were at work for its task (sync_one_task, delete_task_mirrors).    *)
(***************************************************************************)
THEOREM EventsStayTracked == Spec => []EventsTracked
<1>1. Inv => EventsTracked
  BY DEF Inv
<1> QED
  BY <1>1, InvAlways, PTL

(***************************************************************************)
(* A mirrored task is never dark: a move creates the new event before it   *)
(* deletes the old one, whatever fails in between (sync_one_task).         *)
(***************************************************************************)
THEOREM AlwaysLit == Spec => []NeverDark
<1>1. Inv => NeverDark
  BY DEF Inv
<1> QED
  BY <1>1, InvAlways, PTL

(***************************************************************************)
(* What takes an event away: the clean-up of a move and the removal of the *)
(* events of a task.  A run that has read the task as it is does neither   *)
(* to an event that is wanted.                                             *)
(***************************************************************************)
LEMMA WantedStep ==
  ASSUME Inv, [Next]_vars, NEW t \in Task, NEW l \in Wanted(t),
         google[<<t, l>>] # NoEvent, google'[<<t, l>>] = NoEvent,
         t \notin history.late
  PROVE  Doubled(t)
<1>1. l \in List /\ tasks[t].exists /\ google \in [Task \X List -> Nat]
  BY Types DEF Wanted, Inv, QueueInv, TaskRow
<1>2. ASSUME NEW w \in Worker, SendEvent(w) PROVE FALSE
  <2>1. PICK u \in Task, c \in List, version \in Nat \ {0} :
          google' = [google EXCEPT ![<<u, c>>] = version]
    BY <1>2, SendEventEffect DEF Inv
  <2> QED
    BY <1>1, <2>1 DEF NoEvent
<1>3. ASSUME NEW w \in Worker, RemoveOld(w) PROVE Doubled(t)
  <2>1. /\ workers[w].phase = "sent" /\ workers[w].old # workers[w].cal
        /\ google' = [google EXCEPT ![<<workers[w].task, workers[w].old>>] = NoEvent]
        /\ <<workers[w].task, workers[w].old>> \in Task \X List
    BY <1>3, RemoveOldEffect DEF Inv, Moving
  <2>2. t = workers[w].task /\ l = workers[w].old
    BY <1>1, <2>1
  <2>3. ReadAgrees(w)
    BY DEF Inv, Held, HeldBy
  <2> QED
    BY <2>1, <2>2, <2>3, MirrorAssumption DEF ReadAgrees
<1>4. ASSUME NEW w \in Worker, RemoveEvent(w) PROVE Doubled(t)
  <2>1. /\ workers[w].phase = "removing"
        /\ \E e \in workers[w].doomed :
             e \in Task \X List /\ google' = [google EXCEPT ![e] = NoEvent]
    BY <1>4, RemoveEventEffect DEF Inv
  <2>2. <<t, l>> \in workers[w].doomed
    BY <1>1, <2>1
  <2>3. workers[w].task = t
    BY <1>1, <2>1, <2>2 DEF Inv, Held, HeldBy, DoomedHeld
  <2> QED
    BY <2>1, <2>3, MirrorAssumption DEF Inv, Held, HeldBy, ReadAgrees
<1>5. CASE UNCHANGED google
  BY <1>5
<1>6. CASE \E w \in Worker : WorkerStep(w) \/ Fail(w) \/ Crash(w)
  <2>1. PICK w \in Worker : WorkerStep(w) \/ Fail(w) \/ Crash(w)
    BY <1>6
  <2>2. SendEvent(w) \/ RemoveOld(w) \/ RemoveEvent(w) \/ UNCHANGED google
    BY <2>1 DEF WorkerStep, Claim, StartDelete, SkipUpsert, ReadTask, LockList,
       CreateCalendar, Commit, CommitRefused, CommitRemoval, Finish, Fail, Crash, CutShort
  <2> QED
    BY <1>2, <1>3, <1>4, <1>5, <2>2
<1> QED
  BY <1>5, <1>6 DEF Next, UpdateTask, DeleteTask, Tick, vars

(***************************************************************************)
(* No step deletes an event that is wanted where it is, unless the task    *)
(* changed after the run had read it or two runs were at work for it       *)
(* (the clean-up of a move, and delete_mirror_event).                      *)
(***************************************************************************)
THEOREM WantedKept == Spec => WantedStays
<1>1. Inv /\ [Next]_vars => [\A t \in Task : \A l \in Wanted(t) :
         google[<<t, l>>] # NoEvent /\ google'[<<t, l>>] = NoEvent
           => t \in history.late \/ Doubled(t)]_vars
  BY WantedStep
<1> QED
  BY <1>1, InvAlways, PTL DEF Spec, WantedStays
=============================================================================
