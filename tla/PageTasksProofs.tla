---------------------------- MODULE PageTasksProofs ----------------------------
(***************************************************************************)
(* What holds of the page's copy of the tasks for every set of tasks and   *)
(* every number of requests under way at once, and of the saving of their  *)
(* order.                                                                  *)
(***************************************************************************)
EXTENDS TaskStore, UnscheduledOrder, FiniteSetTheorems, TLAPS

-----------------------------------------------------------------------------
(***************************************************************************)
(* Lemmas about the records of the page and of its requests.               *)
(***************************************************************************)
LEMMA NothingListed == Nothing \in Versions
  BY DEF Nothing, Versions, Absent

LEMMA NoLoadIsLoad == NoLoad \in Loads
  BY NothingListed DEF NoLoad, Loads

LEMMA NoCallIsCall == NoCall \in Calls
  BY DEF NoCall, Calls, Then

LEMMA NoUndoIsUndo == NoUndo \in Undos
  BY DEF NoUndo, Undos

LEMMA UndoOfRequest ==
  ASSUME NEW c \in Call, call[c] \in Calls, taskUndo \in Undos,
         NEW kind \in {"update", "delete"}, Offer(c, kind)
  PROVE  taskUndo' \in Undos
  BY DEF Offer, Undos, Calls

LEMMA ListingSentType ==
  ASSUME load \in [Load -> Loads], NEW l \in Load, NEW silent \in BOOLEAN,
         NEW token \in Nat, SendListing(l, silent, token)
  PROVE  load' \in [Load -> Loads]
<1>1. [NoLoad EXCEPT !.at = "sent", !.silent = silent, !.session = token] \in Loads
  BY NothingListed DEF NoLoad, Loads
<1> QED
  BY <1>1 DEF SendListing

LEMMA ReloadType ==
  ASSUME StoreTypeOK, NEW l \in Load, NEW tasks \in Versions, Reload(l, tasks)
  PROVE  /\ load' \in [Load -> Loads]
         /\ taskState' \in TaskStates
         /\ taskState'.tasks = tasks
<1>1. (IF authToken THEN session ELSE 0) \in Nat
  BY DEF StoreTypeOK
<1>2. load' \in [Load -> Loads]
  BY <1>1, ListingSentType DEF Reload, StoreTypeOK
<1>3. taskState' = [status |-> RefreshingStatus(tasks), tasks |-> tasks]
  BY DEF Reload
<1> QED
  BY <1>2, <1>3 DEF RefreshingStatus, TaskStates

LEMMA EchoType ==
  ASSUME StoreTypeOK, NEW c \in Call
  PROVE  /\ Echoed(c) \in Versions
         /\ [locallyUpdated EXCEPT ![call[c].task] = call[c].version] \in Versions
<1>1. call[c].version \in Nat
  BY DEF StoreTypeOK, Calls
<1>2. taskState.tasks \in Versions /\ locallyUpdated \in Versions
  BY DEF StoreTypeOK, TaskStates
<1> QED
  BY <1>1, <1>2 DEF Echoed, Versions

(***************************************************************************)
(* mergeLocallyUpdatedTasks: what it lists is never older than an echo,    *)
(* and an echo that it keeps is what it lists.                             *)
(***************************************************************************)
LEMMA MergeLemma ==
  ASSUME NEW loaded \in Versions, NEW local \in Versions
  PROVE  /\ Merged(loaded, local) \in Versions
         /\ EchoesAfter(loaded, local) \in Versions
         /\ \A t \in Task : Merged(loaded, local)[t] >= local[t]
         /\ \A t \in Task : EchoesAfter(loaded, local)[t] # Absent =>
              Merged(loaded, local)[t] = EchoesAfter(loaded, local)[t]
  BY DEF Merged, EchoesAfter, isTaskAtLeastAsFresh, Absent, Versions

-----------------------------------------------------------------------------
(***************************************************************************)
(* Every step keeps the types.                                             *)
(***************************************************************************)
LEMMA EventType ==
  ASSUME StoreTypeOK, Event
  PROVE  spent' \in 0 .. MaxEvents
  BY StoreAssumption DEF StoreTypeOK, Event

LEMMA ResetType ==
  ASSUME ResetAppData
  PROVE  taskState' \in TaskStates /\ locallyUpdated' \in Versions /\ taskUndo' \in Undos
<1>1. [status |-> "loading", tasks |-> Nothing] \in TaskStates
  BY NothingListed DEF TaskStates
<1> QED
  BY <1>1, NothingListed, NoUndoIsUndo DEF ResetAppData

LEMMA SendType ==
  ASSUME StoreTypeOK, NEW c \in Call, NEW then \in Then, NEW t \in Task \cup {None},
         NEW undoable \in BOOLEAN, Send(c, then, t, undoable)
  PROVE  call' \in [Call -> Calls]
<1>1. session \in Nat
  BY DEF StoreTypeOK
<1>2. [NoCall EXCEPT !.at = "sent", !.then = then, !.task = t,
                     !.undoable = undoable, !.session = session] \in Calls
  BY <1>1, NoCallIsCall DEF Calls
<1> QED
  BY <1>2 DEF Send, StoreTypeOK

LEMMA ChangeType ==
  ASSUME StoreTypeOK, NEW c \in Call, NEW then \in Then, NEW t \in Task \cup {None},
         NEW undoable \in BOOLEAN, Change(c, then, t, undoable),
         taskUndo' = taskUndo \/ ClearUndoState
  PROVE  StoreTypeOK'
<1>1. call' \in [Call -> Calls]
  BY SendType DEF Change
<1>2. spent' \in 0 .. MaxEvents
  BY EventType DEF Change
<1>3. taskUndo' \in Undos
  BY NoUndoIsUndo DEF ClearUndoState, StoreTypeOK
<1> QED
  BY <1>1, <1>2, <1>3 DEF Change, Send, serverVars, StoreTypeOK

LEMMA StartsType ==
  ASSUME StoreTypeOK, NEW c \in Call, Starts(c)
  PROVE  StoreTypeOK'
<1>1. ASSUME NEW t \in Task, NEW undoable \in BOOLEAN, HandleEventChange(c, t, undoable)
      PROVE  StoreTypeOK'
  BY <1>1, ChangeType DEF HandleEventChange, Then
<1>2. ASSUME NEW t \in Task, NEW undoable \in BOOLEAN, NEW source \in {"form", "calendar"},
             RunTaskUpdate(c, t, source, undoable)
      PROVE  StoreTypeOK'
  <2>1. CASE source = "calendar"
    BY <1>2, <2>1, ChangeType DEF RunTaskUpdate, Then
  <2>2. CASE source # "calendar"
    BY <1>2, <2>2, ChangeType DEF RunTaskUpdate, Then
  <2> QED
    BY <2>1, <2>2
<1>3. ASSUME NEW t \in Task, NEW undoable \in BOOLEAN,
             HandleExternalTaskDrop(c, t, undoable)
      PROVE  StoreTypeOK'
  BY <1>3, ChangeType DEF HandleExternalTaskDrop, KeepUndo, Then
<1>4. ASSUME NEW t \in Task, NEW undoable \in BOOLEAN, RunTaskDelete(c, t, undoable)
      PROVE  StoreTypeOK'
  BY <1>4, ChangeType DEF RunTaskDelete, Then, Deleting
<1>5. ASSUME NEW t \in Task, HandleCheckboxChange(c, t) \/ PersistUnscheduledOrder(c, t)
      PROVE  StoreTypeOK'
  BY <1>5, ChangeType DEF HandleCheckboxChange, PersistUnscheduledOrder, Then
<1>6. CASE HandleSubmit(c)
  BY <1>6, ChangeType DEF HandleSubmit, Then, Creating
<1>7. CASE HandleDuplicateFromMenu(c)
  BY <1>7, ChangeType DEF HandleDuplicateFromMenu, Then, Creating
<1>8. CASE HandleUndoTaskChange(c)
  <2> DEFINE then == IF taskUndo.kind = "delete" THEN "restored" ELSE "undone"
  <2>1. then \in Then
    BY DEF Then, Creating, Undoing
  <2>2. taskUndo.task \in Task \cup {None}
    BY DEF StoreTypeOK, Undos
  <2>3. Send(c, then, taskUndo.task, FALSE)
    BY <1>8 DEF HandleUndoTaskChange
  <2>4. call' \in [Call -> Calls]
    BY <2>1, <2>2, <2>3, SendType
  <2>5. UNCHANGED <<serverVars, taskState, locallyUpdated, taskUndo, authToken, session,
                    load, spent>>
    BY <1>8, <2>3 DEF HandleUndoTaskChange, Send
  <2> QED
    BY <2>4, <2>5 DEF serverVars, StoreTypeOK
<1>9. CASE HandleDeleteEditingTaskList(c)
  BY <1>9, ChangeType DEF HandleDeleteEditingTaskList, KeepUndo, Then, Deleting
<1>10. CASE HandleConfirmBackupImport(c)
  BY <1>10, ChangeType DEF HandleConfirmBackupImport, KeepUndo, Then
<1> QED
  BY <1>1, <1>2, <1>3, <1>4, <1>5, <1>6, <1>7, <1>8, <1>9, <1>10 DEF Starts

LEMMA ReplyType ==
  ASSUME StoreTypeOK, NEW c \in Call, NEW t \in Task \cup {None}, clock' \in Nat,
         Reply(c, t)
  PROVE  call' \in [Call -> Calls] /\ spent' \in 0 .. MaxEvents
<1> USE DEF StoreTypeOK
<1>1. call[c] \in Calls
  OBVIOUS
<1>2. /\ [call[c] EXCEPT !.at = "served", !.task = t, !.version = clock'] \in Calls
      /\ [call[c] EXCEPT !.at = "failed"] \in Calls
  BY <1>1 DEF Calls
<1>3. CASE /\ call' = [call EXCEPT ![c].at = "served", ![c].task = t,
                                   ![c].version = clock']
           /\ UNCHANGED spent
  <2>1. call' = [call EXCEPT ![c] = [call[c] EXCEPT !.at = "served", !.task = t,
                                                    !.version = clock']]
    BY <1>3
  <2> QED
    BY <1>2, <1>3, <2>1
<1>4. CASE Event /\ call' = [call EXCEPT ![c].at = "failed"]
  <2>1. call' = [call EXCEPT ![c] = [call[c] EXCEPT !.at = "failed"]]
    BY <1>4
  <2> QED
    BY <1>2, <1>4, <2>1, EventType
<1> QED
  BY <1>3, <1>4 DEF Reply

LEMMA AcceptedType ==
  ASSUME StoreTypeOK, NEW c \in Call, NEW t \in Task \cup {None}, NEW kinds,
         Accepted(c, kinds), Reply(c, t), server' \in Versions, born' \subseteq Task
  PROVE  StoreTypeOK'
<1>1. clock' \in Nat
  BY DEF Accepted, StoreTypeOK
<1> QED
  BY <1>1, ReplyType DEF Accepted, pageVars, StoreTypeOK

LEMMA ServedType ==
  ASSUME StoreTypeOK, NEW c \in Call, Served(c)
  PROVE  StoreTypeOK'
<1>c. call[c].task \in Task \cup {None} /\ server \in Versions /\ born \subseteq Task
      /\ clock \in Nat
  BY DEF StoreTypeOK, Calls
<1>a. ASSUME NEW v \in Nat, NEW t \in Task \cup {None}
      PROVE  [server EXCEPT ![t] = v] \in Versions
  BY <1>c DEF Versions
<1>1. CASE ServerUpdates(c)
  <2>1. clock' \in Nat
    BY <1>1, <1>c DEF ServerUpdates, Accepted
  <2>2. server' \in Versions /\ born' \subseteq Task
    BY <1>1, <2>1, <1>a, <1>c DEF ServerUpdates
  <2> QED
    BY <1>1, <2>2, <1>c, AcceptedType DEF ServerUpdates
<1>2. CASE ServerDeletes(c)
  BY <1>2, <1>a, <1>c, AcceptedType DEF ServerDeletes, Absent
<1>3. CASE ServerCreates(c)
  <2>1. PICK t \in Task \ born : /\ server' = [server EXCEPT ![t] = clock']
                                 /\ born' = born \cup {t}
                                 /\ Reply(c, t)
    BY <1>3 DEF ServerCreates
  <2>2. clock' \in Nat
    BY <1>3, <1>c DEF ServerCreates, Accepted
  <2> QED
    BY <1>3, <2>1, <2>2, <1>a, <1>c, AcceptedType DEF ServerCreates
<1>4. CASE ServerRegroups(c)
  <2>1. clock' \in Nat
    BY <1>4, <1>c DEF ServerRegroups, Accepted
  <2>2. server' \in Versions
    BY <1>4, <2>1, <1>c DEF ServerRegroups, Versions
  <2> QED
    BY <1>4, <2>2, <1>c, AcceptedType DEF ServerRegroups
<1>5. CASE ServerImports(c)
  <2>1. server' \in Versions /\ born' \subseteq Task
    BY <1>5, <1>c DEF ServerImports, Versions, Absent
  <2> QED
    BY <1>5, <2>1, AcceptedType DEF ServerImports
<1>d. ASSUME NEW at \in {"failed", "refused"}, call' = [call EXCEPT ![c].at = at]
      PROVE  call' \in [Call -> Calls]
  <2>1. call[c] \in Calls
    BY DEF StoreTypeOK
  <2>2. [call[c] EXCEPT !.at = at] \in Calls
    BY <2>1 DEF Calls
  <2>3. call' = [call EXCEPT ![c] = [call[c] EXCEPT !.at = at]]
    BY <1>d
  <2> QED
    BY <2>2, <2>3 DEF StoreTypeOK
<1>6. CASE CallLost(c)
  <2>1. call' \in [Call -> Calls]
    BY <1>6, <1>d DEF CallLost
  <2>2. spent' \in 0 .. MaxEvents
    BY <1>6, EventType DEF CallLost, StoreTypeOK
  <2> QED
    BY <1>6, <2>1, <2>2 DEF CallLost, serverVars, pageVars, StoreTypeOK
<1>7. CASE CallUnauthorized(c)
  <2>1. call' \in [Call -> Calls]
    BY <1>7, <1>d DEF CallUnauthorized
  <2> QED
    BY <1>7, <2>1 DEF CallUnauthorized, serverVars, pageVars, StoreTypeOK
<1> QED
  BY <1>1, <1>2, <1>3, <1>4, <1>5, <1>6, <1>7 DEF Served

\* An answer is continued: its request is forgotten, the rest follows.
LEMMA AnsweredType ==
  ASSUME StoreTypeOK, NEW c \in Call, NEW then, Answered(c, then),
         taskState' \in TaskStates, locallyUpdated' \in Versions,
         taskUndo' \in Undos, load' \in [Load -> Loads]
  PROVE  StoreTypeOK'
  BY NoCallIsCall DEF Answered, serverVars, StoreTypeOK

LEMMA ContinuesType ==
  ASSUME StoreTypeOK, NEW c \in Call, Continues(c)
  PROVE  StoreTypeOK'
<1>a. /\ call[c] \in Calls /\ taskState \in TaskStates /\ taskState.tasks \in Versions
      /\ locallyUpdated \in Versions /\ taskUndo \in Undos /\ load \in [Load -> Loads]
  BY DEF StoreTypeOK, TaskStates
<1>b. /\ Echoed(c) \in Versions
      /\ [locallyUpdated EXCEPT ![call[c].task] = call[c].version] \in Versions
  BY EchoType
<1>c. [taskState EXCEPT !.tasks = Echoed(c)] \in TaskStates
  BY <1>a, <1>b DEF TaskStates
<1>d. ClearUndoState => taskUndo' \in Undos
  BY NoUndoIsUndo DEF ClearUndoState
<1>1. ASSUME NEW l \in Load, MovedAnswered(c, l) PROVE StoreTypeOK'
  BY <1>1, <1>a, UndoOfRequest, ReloadType, AnsweredType DEF MovedAnswered
<1>2. ASSUME NEW l \in Load, PlacedAnswered(c, l) PROVE StoreTypeOK'
  BY <1>2, <1>a, <1>b, UndoOfRequest, ReloadType, AnsweredType
     DEF PlacedAnswered, ReplaceTaskInState
<1>3. ASSUME NEW l \in Load, RemovedAnswered(c, l) PROVE StoreTypeOK'
  <2>1. locallyUpdated' \in Versions
    BY <1>3, <1>a DEF RemovedAnswered, Versions, Absent
  <2> QED
    BY <1>3, <2>1, <1>a, UndoOfRequest, ReloadType, AnsweredType DEF RemovedAnswered
<1>4. ASSUME NEW l \in Load, ReloadAnswered(c, l) PROVE StoreTypeOK'
  BY <1>4, <1>a, ReloadType, AnsweredType DEF ReloadAnswered
<1>5. ASSUME NEW l \in Load, DuplicateAnswered(c, l) PROVE StoreTypeOK'
  BY <1>5, <1>a, <1>b, ReloadType, AnsweredType DEF DuplicateAnswered, ReplaceTaskInState
<1>6. ASSUME NEW l \in Load, ImportAnswered(c, l) PROVE StoreTypeOK'
  BY <1>6, <1>a, NothingListed, ReloadType, AnsweredType DEF ImportAnswered
<1>7. ASSUME NEW l \in Load, UndoneAnswered(c, l) PROVE StoreTypeOK'
  BY <1>7, <1>b, <1>d, ReloadType, AnsweredType DEF UndoneAnswered, ReplaceTaskInState
<1>8. ASSUME NEW l \in Load, CallFailed(c, l) PROVE StoreTypeOK'
  <2>1. taskState' \in TaskStates /\ load' \in [Load -> Loads]
    BY <1>8, <1>a, ReloadType DEF CallFailed
  <2> QED
    BY <1>8, <2>1, NoCallIsCall DEF CallFailed, serverVars, StoreTypeOK
<1>9. ASSUME NEW l \in Load, CallRefused(c, l) PROVE StoreTypeOK'
  <2>1. load' \in [Load -> Loads]
    BY <1>9, <1>a, ListingSentType DEF CallRefused
  <2> QED
    BY <1>9, <2>1, ResetType, NoCallIsCall
    DEF CallRefused, HandleAuthExpired, serverVars, StoreTypeOK
<1>10. CASE OrderAnswered(c)
  BY <1>10, <1>a, <1>b, <1>c, AnsweredType DEF OrderAnswered, ReplaceTaskInState
<1>11. CASE RestoredAnswered(c)
  BY <1>11, <1>a, <1>b, <1>c, <1>d, AnsweredType DEF RestoredAnswered, ReplaceTaskInState
<1> QED
  BY <1>1, <1>2, <1>3, <1>4, <1>5, <1>6, <1>7, <1>8, <1>9, <1>10, <1>11 DEF Continues

LEMMA ListingServedType ==
  ASSUME StoreTypeOK, NEW l \in Load, ListingServed(l)
  PROVE  StoreTypeOK'
<1>a. load[l] \in Loads /\ server \in Versions
  BY DEF StoreTypeOK
<1>b. /\ [load[l] EXCEPT !.at = "served", !.tasks = server] \in Loads
      /\ \A at \in {"refused", "failed"} : [load[l] EXCEPT !.at = at] \in Loads
  BY <1>a DEF Loads
<1>1. CASE /\ load' = [load EXCEPT ![l].at = "served", ![l].tasks = server]
           /\ UNCHANGED spent
  <2>1. load' = [load EXCEPT ![l] = [load[l] EXCEPT !.at = "served", !.tasks = server]]
    BY <1>1
  <2>2. load' \in [Load -> Loads]
    BY <2>1, <1>b DEF StoreTypeOK
  <2> QED
    BY <1>1, <2>2 DEF ListingServed, serverVars, pageVars, StoreTypeOK
<1>2. CASE load' = [load EXCEPT ![l].at = "refused"] /\ UNCHANGED spent
  <2>1. load' = [load EXCEPT ![l] = [load[l] EXCEPT !.at = "refused"]]
    BY <1>2
  <2>2. load' \in [Load -> Loads]
    BY <2>1, <1>b DEF StoreTypeOK
  <2> QED
    BY <1>2, <2>2 DEF ListingServed, serverVars, pageVars, StoreTypeOK
<1>3. CASE Event /\ load' = [load EXCEPT ![l].at = "failed"]
  <2>1. load' = [load EXCEPT ![l] = [load[l] EXCEPT !.at = "failed"]]
    BY <1>3
  <2>2. load' \in [Load -> Loads]
    BY <2>1, <1>b DEF StoreTypeOK
  <2> QED
    BY <1>3, <2>2, EventType DEF ListingServed, serverVars, pageVars, StoreTypeOK
<1> QED
  BY <1>1, <1>2, <1>3 DEF ListingServed

LEMMA ListingArrivesType ==
  ASSUME StoreTypeOK, NEW l \in Load, ListingArrives(l)
  PROVE  StoreTypeOK'
<1>a. /\ load[l].tasks \in Versions /\ locallyUpdated \in Versions
      /\ taskState \in TaskStates /\ load \in [Load -> Loads]
  BY DEF StoreTypeOK, Loads
<1>b. [load EXCEPT ![l] = NoLoad] \in [Load -> Loads]
  BY <1>a, NoLoadIsLoad
<1>1. CASE ListingAnswered(l)
  <2>1. locallyUpdated' \in Versions
    BY <1>1, <1>a, MergeLemma DEF ListingAnswered
  <2>2. taskState' \in TaskStates
    BY <1>1, <1>a, MergeLemma DEF ListingAnswered, TaskStates
  <2> QED
    BY <1>1, <1>b, <2>1, <2>2 DEF ListingAnswered, serverVars, StoreTypeOK
<1>2. CASE ListingFailed(l)
  <2>1. taskState' \in TaskStates
    BY <1>2, <1>a DEF ListingFailed, TaskStates
  <2> QED
    BY <1>2, <1>b, <2>1 DEF ListingFailed, serverVars, StoreTypeOK
<1>3. CASE ListingRefused(l)
  BY <1>3, <1>b, ResetType DEF ListingRefused, HandleAuthExpired, serverVars, StoreTypeOK
<1> QED
  BY <1>1, <1>2, <1>3 DEF ListingArrives

LEMMA StoreTypeStep ==
  ASSUME StoreTypeOK, [StoreNext]_storeVars
  PROVE  StoreTypeOK'
<1>a. /\ taskState \in TaskStates /\ taskState.tasks \in Versions
      /\ load \in [Load -> Loads] /\ session \in Nat
  BY DEF StoreTypeOK, TaskStates
<1>b. \A tasks \in Versions :
        [taskState EXCEPT !.status = RefreshingStatus(tasks)] \in TaskStates
  BY <1>a DEF TaskStates, RefreshingStatus
<1>1. ASSUME NEW l \in Load, RunTaskSyncRefresh(l) PROVE StoreTypeOK'
  BY <1>1, <1>a, <1>b, ListingSentType DEF RunTaskSyncRefresh, serverVars, StoreTypeOK
<1>2. ASSUME NEW l \in Load, HandleDatesSet(l) PROVE StoreTypeOK'
  BY <1>2, <1>a, ReloadType, EventType DEF HandleDatesSet, serverVars, StoreTypeOK
<1>3. ASSUME NEW l \in Load, HandleAuthSubmit(l) PROVE StoreTypeOK'
  <2>1. session' \in Nat \ {0}
    BY <1>3, <1>a DEF HandleAuthSubmit
  <2>2. load' \in [Load -> Loads] /\ taskState' \in TaskStates
    BY <1>3, <2>1, <1>a, <1>b, ListingSentType DEF HandleAuthSubmit
  <2> QED
    BY <1>3, <2>1, <2>2 DEF HandleAuthSubmit, serverVars, StoreTypeOK
<1>4. ASSUME NEW t \in Task, OtherDevice(t) PROVE StoreTypeOK'
  <2>1. clock' \in Nat /\ server' \in Versions
    BY <1>4 DEF OtherDevice, StoreTypeOK, Versions, Absent
  <2> QED
    BY <1>4, <2>1, EventType DEF OtherDevice, pageVars, StoreTypeOK
<1>5. ASSUME NEW s \in 1 .. session, TokenExpires(s) PROVE StoreTypeOK'
  BY <1>5, <1>a, EventType DEF TokenExpires, pageVars, StoreTypeOK
<1>6. CASE HandleLogout
  BY <1>6, ResetType, EventType DEF HandleLogout, serverVars, StoreTypeOK
<1>7. CASE PageReload
  BY <1>7, ResetType, EventType, NoLoadIsLoad, NoCallIsCall
  DEF PageReload, serverVars, StoreTypeOK
<1>8. CASE UNCHANGED storeVars
  BY <1>8 DEF storeVars, serverVars, pageVars, StoreTypeOK
<1> QED
  BY <1>1, <1>2, <1>3, <1>4, <1>5, <1>6, <1>7, <1>8, ListingServedType,
     ListingArrivesType, StartsType, ServedType, ContinuesType
  DEF StoreNext

-----------------------------------------------------------------------------
(***************************************************************************)
(* Every step keeps the echoes shown.  A listing does because it is merged *)
(* with them; the answers that list a task remember it as it is listed.    *)
(***************************************************************************)
LEMMA EchoKept ==
  ASSUME EchoShown, taskState'.tasks = taskState.tasks, UNCHANGED locallyUpdated
  PROVE  EchoShown'
  BY DEF EchoShown

LEMMA EchoAdded ==
  ASSUME StoreTypeOK, EchoShown, NEW c \in Call, ReplaceTaskInState(c),
         taskState'.tasks = Echoed(c)
  PROVE  EchoShown'
<1>1. taskState.tasks \in Versions /\ locallyUpdated \in Versions
  BY DEF StoreTypeOK, TaskStates
<1> QED
  BY <1>1 DEF EchoShown, ReplaceTaskInState, Echoed, Versions

LEMMA EchoesForgotten ==
  ASSUME locallyUpdated' = Nothing
  PROVE  EchoShown'
  BY DEF EchoShown, Nothing

LEMMA ListingSentEcho ==
  ASSUME StoreTypeOK, EchoShown, UNCHANGED locallyUpdated,
         taskState' = [taskState EXCEPT !.status = RefreshingStatus(taskState.tasks)]
  PROVE  EchoShown'
<1>1. taskState'.tasks = taskState.tasks
  BY DEF StoreTypeOK, TaskStates
<1> QED
  BY <1>1, EchoKept

LEMMA ListingArrivesEcho ==
  ASSUME StoreTypeOK, EchoShown, NEW l \in Load, ListingArrives(l)
  PROVE  EchoShown'
<1>1. CASE ListingAnswered(l)
  <2>1. load[l].tasks \in Versions /\ locallyUpdated \in Versions
    BY DEF StoreTypeOK, Loads
  <2>2. /\ taskState'.tasks = Merged(load[l].tasks, locallyUpdated)
        /\ locallyUpdated' = EchoesAfter(load[l].tasks, locallyUpdated)
    BY <1>1 DEF ListingAnswered
  <2> QED
    BY <2>1, <2>2, MergeLemma DEF EchoShown
<1>2. CASE ListingFailed(l)
  <2>1. taskState'.tasks = taskState.tasks
    BY <1>2 DEF ListingFailed, StoreTypeOK, TaskStates
  <2> QED
    BY <1>2, <2>1, EchoKept DEF ListingFailed
<1>3. CASE ListingRefused(l)
  BY <1>3, EchoesForgotten DEF ListingRefused, HandleAuthExpired, ResetAppData
<1> QED
  BY <1>1, <1>2, <1>3 DEF ListingArrives

LEMMA StartsEcho ==
  ASSUME EchoShown, NEW c \in Call, Starts(c)
  PROVE  EchoShown'
<1>1. UNCHANGED <<taskState, locallyUpdated>>
  BY DEF Starts, HandleEventChange, RunTaskUpdate, HandleExternalTaskDrop, RunTaskDelete,
         HandleCheckboxChange, PersistUnscheduledOrder, HandleSubmit,
         HandleDuplicateFromMenu, HandleUndoTaskChange, HandleDeleteEditingTaskList,
         HandleConfirmBackupImport, Change, Send
<1> QED
  BY <1>1, EchoKept

LEMMA ServedEcho ==
  ASSUME EchoShown, NEW c \in Call, Served(c)
  PROVE  EchoShown'
<1>1. UNCHANGED <<taskState, locallyUpdated>>
  BY DEF Served, ServerUpdates, ServerDeletes, ServerCreates, ServerRegroups,
         ServerImports, CallLost, CallUnauthorized, Accepted, pageVars
<1> QED
  BY <1>1, EchoKept

LEMMA ContinuesEcho ==
  ASSUME StoreTypeOK, EchoShown, NEW c \in Call, Continues(c)
  PROVE  EchoShown'
<1>a. taskState \in TaskStates /\ taskState.tasks \in Versions /\ locallyUpdated \in Versions
  BY DEF StoreTypeOK, TaskStates
<1>b. Echoed(c) \in Versions
  BY EchoType
<1>1. ASSUME NEW l \in Load, MovedAnswered(c, l) PROVE EchoShown'
  BY <1>1, <1>a, ReloadType, EchoKept DEF MovedAnswered
<1>2. ASSUME NEW l \in Load, PlacedAnswered(c, l) PROVE EchoShown'
  BY <1>2, <1>b, ReloadType, EchoAdded DEF PlacedAnswered
<1>3. ASSUME NEW l \in Load, RemovedAnswered(c, l) PROVE EchoShown'
  <2>1. taskState'.tasks = taskState.tasks
    BY <1>3, <1>a, ReloadType DEF RemovedAnswered
  <2>2. locallyUpdated' = [locallyUpdated EXCEPT ![call[c].task] = Absent]
    BY <1>3 DEF RemovedAnswered
  <2> QED
    BY <2>1, <2>2, <1>a DEF EchoShown, Versions
<1>4. ASSUME NEW l \in Load, ReloadAnswered(c, l) PROVE EchoShown'
  BY <1>4, <1>a, ReloadType, EchoKept DEF ReloadAnswered
<1>5. ASSUME NEW l \in Load, DuplicateAnswered(c, l) PROVE EchoShown'
  BY <1>5, <1>b, ReloadType, EchoAdded DEF DuplicateAnswered
<1>6. ASSUME NEW l \in Load, ImportAnswered(c, l) PROVE EchoShown'
  BY <1>6, EchoesForgotten DEF ImportAnswered
<1>7. ASSUME NEW l \in Load, UndoneAnswered(c, l) PROVE EchoShown'
  BY <1>7, <1>b, ReloadType, EchoAdded DEF UndoneAnswered
<1>8. ASSUME NEW l \in Load, CallFailed(c, l) PROVE EchoShown'
  <2>1. taskState'.tasks = taskState.tasks
    BY <1>8, <1>a, ReloadType DEF CallFailed
  <2> QED
    BY <1>8, <2>1, EchoKept DEF CallFailed
<1>9. ASSUME NEW l \in Load, CallRefused(c, l) PROVE EchoShown'
  BY <1>9, EchoesForgotten DEF CallRefused, HandleAuthExpired, ResetAppData
<1>c. [taskState EXCEPT !.tasks = Echoed(c)].tasks = Echoed(c)
  BY <1>a DEF TaskStates
<1>10. CASE OrderAnswered(c)
  <2>1. CASE Listed(call[c].task)
    BY <1>10, <2>1, <1>c, EchoAdded DEF OrderAnswered
  <2>2. CASE ~ Listed(call[c].task)
    BY <1>10, <2>2, <1>a DEF OrderAnswered, ReplaceTaskInState, Listed, EchoShown, Versions
  <2> QED
    BY <2>1, <2>2
<1>11. CASE RestoredAnswered(c)
  BY <1>11, <1>c, EchoAdded DEF RestoredAnswered
<1> QED
  BY <1>1, <1>2, <1>3, <1>4, <1>5, <1>6, <1>7, <1>8, <1>9, <1>10, <1>11 DEF Continues

LEMMA EchoStep ==
  ASSUME StoreTypeOK, EchoShown, [StoreNext]_storeVars
  PROVE  EchoShown'
<1>1. ASSUME NEW l \in Load, RunTaskSyncRefresh(l) \/ HandleAuthSubmit(l) PROVE EchoShown'
  BY <1>1, ListingSentEcho, EchoKept DEF RunTaskSyncRefresh, HandleAuthSubmit
<1>2. ASSUME NEW l \in Load, HandleDatesSet(l) PROVE EchoShown'
  <2>1. taskState'.tasks = taskState.tasks
    BY <1>2, ReloadType DEF HandleDatesSet, StoreTypeOK, TaskStates
  <2> QED
    BY <1>2, <2>1, EchoKept DEF HandleDatesSet
<1>3. ASSUME NEW l \in Load, ListingServed(l) PROVE EchoShown'
  BY <1>3, EchoKept DEF ListingServed, pageVars
<1>4. ASSUME NEW t \in Task, OtherDevice(t) PROVE EchoShown'
  BY <1>4, EchoKept DEF OtherDevice, pageVars
<1>5. ASSUME NEW s \in 1 .. session, TokenExpires(s) PROVE EchoShown'
  BY <1>5, EchoKept DEF TokenExpires, pageVars
<1>6. CASE HandleLogout \/ PageReload
  BY <1>6, EchoesForgotten DEF HandleLogout, PageReload, ResetAppData
<1>7. CASE UNCHANGED storeVars
  BY <1>7, EchoKept DEF storeVars, pageVars
<1> QED
  BY <1>1, <1>2, <1>3, <1>4, <1>5, <1>6, <1>7, ListingArrivesEcho, StartsEcho,
     ServedEcho, ContinuesEcho
  DEF StoreNext

-----------------------------------------------------------------------------
LEMMA StoreInitially ==
  ASSUME StoreInit
  PROVE  StoreTypeOK /\ EchoShown
<1>1. [status |-> "loading", tasks |-> Nothing] \in TaskStates
  BY NothingListed DEF TaskStates
<1>2. server \in Versions
  BY DEF StoreInit, Versions, Absent
<1>3. StoreTypeOK
  BY <1>1, <1>2, NothingListed, NoUndoIsUndo, NoLoadIsLoad, NoCallIsCall, StoreAssumption
  DEF StoreInit, StoreTypeOK
<1>4. EchoShown
  BY DEF StoreInit, EchoShown, Nothing
<1> QED
  BY <1>3, <1>4

\* The page, its requests and the server keep their types (App.tsx:601-632).
THEOREM StoreTypeCorrect == StoreSpec => []StoreTypeOK
<1>1. StoreInit => StoreTypeOK
  BY StoreInitially
<1>2. StoreTypeOK /\ [StoreNext]_storeVars => StoreTypeOK'
  BY StoreTypeStep
<1> QED
  BY <1>1, <1>2, PTL DEF StoreSpec

\* The page shows the answers to its own changes until a listing that is as fresh
\* replaces them, whatever listings, logouts and failures come in between
\* (mergeLocallyUpdatedTasks, App.tsx:9729-9759).
THEOREM EchoAlwaysShown == StoreSpec => []EchoShown
<1>1. StoreInit => StoreTypeOK /\ EchoShown
  BY StoreInitially
<1>2. StoreTypeOK /\ EchoShown /\ [StoreNext]_storeVars => (StoreTypeOK /\ EchoShown)'
  BY StoreTypeStep, EchoStep
<1> QED
  BY <1>1, <1>2, PTL DEF StoreSpec

\* A listing that arrives late never puts a task back to before an answered change
\* that the page remembers (isTaskAtLeastAsFresh, App.tsx:9761-9777).
THEOREM NeverReverted == StoreSpec => ConfirmedNotReverted
<1> DEFINE Step == \A l \in Load : ListingAnswered(l) =>
                     \A t \in Task : taskState'.tasks[t] >= locallyUpdated[t]
<1>1. StoreTypeOK => Step
  <2> SUFFICES ASSUME StoreTypeOK, NEW l \in Load, ListingAnswered(l), NEW t \in Task
               PROVE  taskState'.tasks[t] >= locallyUpdated[t]
    OBVIOUS
  <2>1. load[l].tasks \in Versions /\ locallyUpdated \in Versions
    BY DEF StoreTypeOK, Loads
  <2>2. taskState'.tasks = Merged(load[l].tasks, locallyUpdated)
    BY DEF ListingAnswered
  <2> QED
    BY <2>1, <2>2, MergeLemma
<1>2. StoreSpec => []StoreTypeOK
  BY StoreTypeCorrect
<1> QED
  BY <1>1, <1>2, PTL DEF StoreSpec, ConfirmedNotReverted
-----------------------------------------------------------------------------
(***************************************************************************)
(* The order of the tasks without a time: what waits to be saved.          *)
(***************************************************************************)
Waiting ==
  /\ \E order, saving, batch :
       saveState = [queued |-> order, saving |-> saving, batch |-> batch]
  /\ NothingStranded

LEMMA LoopTakesTheQueue ==
  ASSUME Waiting, NEW order, NEW others, SaveLoop(order, others)
  PROVE  Waiting'
<1>1. PICK queued, saving, number :
        saveState = [queued |-> queued, saving |-> saving, batch |-> number]
  BY DEF Waiting
<1>2. CASE order = NoOrder \/ Batch(order, saveState.batch + 1) = {}
  <2>1. saveState' = [saveState EXCEPT !.queued = NoOrder, !.saving = FALSE]
    BY <1>2 DEF SaveLoop
  <2>2. saveState' = [queued |-> NoOrder, saving |-> FALSE, batch |-> number]
    BY <1>1, <2>1
  <2> QED
    BY <2>2 DEF Waiting, NothingStranded
<1>3. CASE ~ (order = NoOrder \/ Batch(order, saveState.batch + 1) = {})
  <2>1. saveState' = [queued |-> NoOrder, saving |-> TRUE, batch |-> saveState.batch + 1]
    BY <1>3 DEF SaveLoop
  <2> QED
    BY <2>1 DEF Waiting, NothingStranded
<1> QED
  BY <1>2, <1>3

LEMMA PersistingQueues ==
  ASSUME Waiting, NEW order, persistUnscheduledOrder(order)
  PROVE  Waiting'
<1>1. PICK queued, saving, number :
        saveState = [queued |-> queued, saving |-> saving, batch |-> number]
  BY DEF Waiting
<1>2. CASE saveState.saving
  <2>1. saveState' = [saveState EXCEPT !.queued = order]
    BY <1>2 DEF persistUnscheduledOrder
  <2>2. saveState' = [queued |-> order, saving |-> saving, batch |-> number]
    BY <1>1, <2>1
  <2>3. saveState.saving = saving
    BY <1>1
  <2> QED
    BY <1>2, <2>2, <2>3 DEF Waiting, NothingStranded
<1>3. CASE ~ saveState.saving
  BY <1>3, LoopTakesTheQueue DEF persistUnscheduledOrder
<1> QED
  BY <1>2, <1>3

\* A move that waits is taken by the save that runs: whatever rows are dragged,
\* tasks scheduled, patches failed and lists answered meanwhile, nothing is queued
\* while no save runs (persistUnscheduledOrder of App.tsx).
THEOREM NoMoveStranded == OrderSpec => []NothingStranded
<1>1. OrderInit => Waiting
  <2>1. ASSUME OrderInit
        PROVE  saveState = [queued |-> NoOrder, saving |-> FALSE, batch |-> 0]
    BY <2>1 DEF OrderInit
  <2>2. ASSUME OrderInit
        PROVE  saveState.queued = NoOrder
    BY <2>1, <2>2
  <2> QED
    BY <2>1, <2>2 DEF Waiting, NothingStranded
<1>2. Waiting /\ [OrderNext]_orderVars => Waiting'
  <2> SUFFICES ASSUME Waiting, [OrderNext]_orderVars PROVE Waiting'
    OBVIOUS
  <2>0. UNCHANGED saveState => Waiting'
    BY DEF Waiting, NothingStranded
  <2>1. CASE SaveStep
    <3>1. CASE \E p \in patches : PatchServed(p) \/ PatchFails(p)
      BY <2>0, <3>1 DEF PatchServed, PatchFails
    <3>2. CASE SaveAnswered \/ SaveFails
      BY <3>2, LoopTakesTheQueue DEF SaveAnswered, SaveFails
    <3> QED
      BY <2>1, <3>1, <3>2 DEF SaveStep
  <2>2. CASE RefreshSent \/ RefreshServed \/ RefreshAnswered
    BY <2>0, <2>2 DEF RefreshSent, RefreshServed, RefreshAnswered
  <2>3. ASSUME NEW r \in Row,
               GetsTime(r) \/ handleTaskRowPointerDown(r) \/ startScheduleDragHighlight(r)
        PROVE  Waiting'
    BY <2>0, <2>3 DEF GetsTime, handleTaskRowPointerDown, startScheduleDragHighlight
  <2>4. ASSUME NEW r \in Row, NEW position, moveTaskRowDuringDrag(r, position)
        PROVE  Waiting'
    BY <2>0, <2>4 DEF moveTaskRowDuringDrag
  <2>5. ASSUME NEW r \in Row, MoveToTop(r) PROVE Waiting'
    BY <2>5, PersistingQueues DEF MoveToTop
  <2>6. ASSUME NEW i, NEW j, MoveByOffset(i, j) PROVE Waiting'
    BY <2>6, PersistingQueues DEF MoveByOffset
  <2>7. CASE finishTaskRowPointerInteraction
    BY <2>0, <2>7, PersistingQueues DEF finishTaskRowPointerInteraction
  <2>8. CASE endScheduleDragHighlight \/ PointerCancel \/ ChangeView
    BY <2>0, <2>8 DEF endScheduleDragHighlight, PointerCancel, ChangeView
  <2>9. CASE UNCHANGED orderVars
    BY <2>0, <2>9 DEF orderVars
  <2> QED
    BY <2>1, <2>2, <2>3, <2>4, <2>5, <2>6, <2>7, <2>8, <2>9 DEF OrderNext
<1>3. Waiting => NothingStranded
  BY DEF Waiting
<1> QED
  BY <1>1, <1>2, <1>3, PTL DEF OrderSpec

-----------------------------------------------------------------------------
(***************************************************************************)
(* Lemmas about orders: an order of a set of rows, and the place of a row. *)
(***************************************************************************)
LEMMA OrderOf ==
  ASSUME NEW order, NEW S \in SUBSET Row, order \subseteq S \X S,
         \A a, b \in S : <<a, b>> \in order \/ <<b, a>> \in order,
         \A a, b \in S : <<a, b>> \in order /\ <<b, a>> \in order => a = b,
         \A a, b, c \in S : <<a, b>> \in order /\ <<b, c>> \in order => <<a, c>> \in order
  PROVE  order \in Orders /\ In(order) = S
<1>1. In(order) = S
  BY DEF In
<1>2. IsOrder(order)
  BY <1>1 DEF IsOrder
<1>3. order \in SUBSET (Row \X Row)
  OBVIOUS
<1> QED
  BY <1>1, <1>2, <1>3 DEF Orders

LEMMA OrderLaws ==
  ASSUME NEW order \in Orders
  PROVE  /\ In(order) \in SUBSET Row
         /\ order \subseteq In(order) \X In(order)
         /\ \A a, b \in In(order) : <<a, b>> \in order \/ <<b, a>> \in order
         /\ \A a, b \in In(order) : <<a, b>> \in order /\ <<b, a>> \in order => a = b
         /\ \A a, b, c \in In(order) :
              <<a, b>> \in order /\ <<b, c>> \in order => <<a, c>> \in order
  BY DEF Orders, IsOrder, In

LEMMA SameOrder ==
  ASSUME NEW order \in Orders, NEW other \in Orders, In(order) = In(other),
         \A a, b \in In(order) : <<a, b>> \in order <=> <<a, b>> \in other
  PROVE  order = other
<1>1. order \subseteq In(order) \X In(order) /\ other \subseteq In(order) \X In(order)
  BY OrderLaws
<1> QED
  BY <1>1

LEMMA RowsAreFinite ==
  ASSUME NEW S \in SUBSET Row
  PROVE  IsFiniteSet(S) /\ Cardinality(S) \in Nat
<1>1. IsFiniteSet(Row)
  BY OrderAssumption, FS_Interval DEF Row
<1> QED
  BY <1>1, FS_Subset, FS_CardinalityType

LEMMA PlaceType ==
  ASSUME NEW order, NEW row \in Row
  PROVE  Place(order, row) \in 0..Rows - 1
<1> DEFINE S == {r \in Row \ {row} : <<r, row>> \in order}
<1>1. IsFiniteSet(Row) /\ Cardinality(Row) = Rows
  BY OrderAssumption, FS_Interval DEF Row
<1>2. IsFiniteSet(Row \ {row}) /\ Cardinality(Row \ {row}) = Rows - 1
  BY <1>1, FS_RemoveElement
<1>3. S \in SUBSET (Row \ {row})
  OBVIOUS
<1>4. Cardinality(S) \in Nat /\ Cardinality(S) <= Rows - 1
  BY <1>2, <1>3, FS_Subset, RowsAreFinite
<1> QED
  BY <1>4, OrderAssumption DEF Place

LEMMA PlacesGrow ==
  ASSUME NEW order \in Orders, NEW a \in In(order), NEW b \in In(order),
         <<a, b>> \in order, a # b
  PROVE  Place(order, a) < Place(order, b)
<1> DEFINE Before(r) == {q \in Row \ {r} : <<q, r>> \in order}
<1>1. a \in Row /\ b \in Row
  BY DEF In
<1>2. Before(a) \subseteq Before(b)
  <2> SUFFICES ASSUME NEW r \in Row, r # a, <<r, a>> \in order
               PROVE  r # b /\ <<r, b>> \in order
    OBVIOUS
  <2>1. r \in In(order)
    BY OrderLaws
  <2> QED
    BY <2>1, OrderLaws
<1>3. a \in Before(b) /\ a \notin Before(a)
  BY <1>1
<1>4. /\ IsFiniteSet(Before(b))
      /\ Cardinality(Before(b)) \in Nat /\ Cardinality(Before(a)) \in Nat
  BY RowsAreFinite
<1>5. Cardinality(Before(a)) <= Cardinality(Before(b))
      /\ (Cardinality(Before(a)) = Cardinality(Before(b)) => Before(a) = Before(b))
  BY <1>2, <1>4, FS_Subset
<1>6. Cardinality(Before(a)) < Cardinality(Before(b))
  <2> HIDE DEF Before
  <2> QED
    BY <1>3, <1>4, <1>5
<1> QED
  BY <1>6 DEF Place

LEMMA ListingOrders ==
  ASSUME NEW copies \in [Row -> Copy]
  PROVE  /\ ListingOrder(copies) \in Orders
         /\ In(ListingOrder(copies)) = {r \in Row : copies[r].here}
<1> DEFINE S == {r \in Row : copies[r].here}
           order == ListingOrder(copies)
           Leads(a, b) == \/ copies[a].rank < copies[b].rank
                          \/ copies[a].rank = copies[b].rank /\ a <= b
<1>1. \A r \in Row : copies[r].rank \in Nat /\ r \in Nat
  BY OrderAssumption DEF Copy, Row
<1>2. order = {p \in S \X S : Leads(p[1], p[2])}
  BY DEF ListingOrder
<1>3. order \subseteq S \X S /\ S \in SUBSET Row
  BY <1>2
<1>4. \A a, b \in S : <<a, b>> \in order <=> Leads(a, b)
  BY <1>2
<1>5. \A a, b, c \in S : /\ Leads(a, b) \/ Leads(b, a)
                         /\ Leads(a, b) /\ Leads(b, a) => a = b
                         /\ Leads(a, b) /\ Leads(b, c) => Leads(a, c)
  BY <1>1
<1> HIDE DEF Leads, S, order
<1>6. \A a, b \in S : <<a, b>> \in order \/ <<b, a>> \in order
  BY <1>4, <1>5
<1>7. \A a, b \in S : <<a, b>> \in order /\ <<b, a>> \in order => a = b
  BY <1>4, <1>5
<1>8. \A a, b, c \in S : <<a, b>> \in order /\ <<b, c>> \in order => <<a, c>> \in order
  BY <1>4, <1>5
<1>9. order \in Orders /\ In(order) = S
  BY <1>3, <1>6, <1>7, <1>8, OrderOf
<1> QED
  BY <1>9 DEF S, order

(***************************************************************************)
(* Tasks that carry their places as numbers are listed in their order.     *)
(***************************************************************************)
LEMMA PlacesAreListed ==
  ASSUME NEW order \in Orders, NEW copies \in [Row -> Copy],
         In(order) = {r \in Row : copies[r].here},
         \A r \in In(order) : copies[r].rank = Place(order, r)
  PROVE  ListingOrder(copies) = order
<1> DEFINE list == ListingOrder(copies)
<1>1. list \in Orders /\ In(list) = In(order)
  BY ListingOrders
<1>2. ASSUME NEW a \in In(order), NEW b \in In(order)
      PROVE  <<a, b>> \in list <=> <<a, b>> \in order
  <2>1. a \in Row /\ b \in Row
    BY OrderLaws
  <2>2. a \in Nat /\ b \in Nat /\ Place(order, a) \in Nat /\ Place(order, b) \in Nat
    BY <2>1, PlaceType, OrderAssumption DEF Row
  <2>3. <<a, b>> \in list <=> \/ Place(order, a) < Place(order, b)
                              \/ Place(order, a) = Place(order, b) /\ a <= b
    BY DEF ListingOrder
  <2>4. CASE a = b
    BY <2>2, <2>3, <2>4, OrderLaws
  <2>5. CASE a # b /\ <<a, b>> \in order
    BY <2>3, <2>5, PlacesGrow
  <2>6. CASE a # b /\ <<a, b>> \notin order
    <3>1. <<b, a>> \in order
      BY <2>6, OrderLaws
    <3>2. Place(order, b) < Place(order, a)
      BY <2>6, <3>1, PlacesGrow
    <3> QED
      BY <2>2, <2>3, <2>6, <3>2
  <2> QED
    BY <2>4, <2>5, <2>6
<1> HIDE DEF list
<1>3. list = order
  BY <1>1, <1>2, SameOrder
<1> QED
  BY <1>3 DEF list

(***************************************************************************)
(* The operations on the local order keep it an order, of the same rows or *)
(* of those that are listed now.                                           *)
(***************************************************************************)
LEMMA ReconciledOrder ==
  ASSUME NEW order \in Orders, NEW ids \in Orders
  PROVE  /\ reconcileTaskOrder(order, ids) \in Orders
         /\ In(reconcileTaskOrder(order, ids)) = In(ids)
         /\ In(order) = In(ids) => reconcileTaskOrder(order, ids) = order
<1> DEFINE S == In(ids)
           kept == In(order) \cap In(ids)
           new == In(ids) \ kept
           wanted == reconcileTaskOrder(order, ids)
<1>1. wanted = (order \cap (kept \X kept)) \cup (kept \X new) \cup (ids \cap (new \X new))
  BY DEF reconcileTaskOrder
<1>2. S \in SUBSET Row /\ wanted \subseteq S \X S
  BY <1>1, OrderLaws
<1>3. \A a, b \in S : <<a, b>> \in wanted <=>
        \/ a \in kept /\ b \in kept /\ <<a, b>> \in order
        \/ a \in kept /\ b \in new
        \/ a \in new /\ b \in new /\ <<a, b>> \in ids
  BY <1>1
<1>4. /\ \A a, b \in kept : <<a, b>> \in order \/ <<b, a>> \in order
      /\ \A a, b \in kept : <<a, b>> \in order /\ <<b, a>> \in order => a = b
      /\ \A a, b, c \in kept : <<a, b>> \in order /\ <<b, c>> \in order => <<a, c>> \in order
  BY OrderLaws
<1>5. /\ \A a, b \in new : <<a, b>> \in ids \/ <<b, a>> \in ids
      /\ \A a, b \in new : <<a, b>> \in ids /\ <<b, a>> \in ids => a = b
      /\ \A a, b, c \in new : <<a, b>> \in ids /\ <<b, c>> \in ids => <<a, c>> \in ids
  BY OrderLaws
<1>6. \A r \in S : (r \in kept) <=> (r \notin new)
  OBVIOUS
<1>7. In(order) = In(ids) => kept = S /\ new = {}
  OBVIOUS
<1>8. kept \subseteq S /\ new \subseteq S
  OBVIOUS
<1> HIDE DEF S, kept, new, wanted
<1>9. wanted \in Orders /\ In(wanted) = S
  <2>1. \A a, b \in S : <<a, b>> \in wanted \/ <<b, a>> \in wanted
    BY <1>3, <1>4, <1>5, <1>6
  <2>2. \A a, b \in S : <<a, b>> \in wanted /\ <<b, a>> \in wanted => a = b
    BY <1>3, <1>4, <1>5, <1>6
  <2>3. \A a, b, c \in S : <<a, b>> \in wanted /\ <<b, c>> \in wanted => <<a, c>> \in wanted
    BY <1>3, <1>4, <1>5, <1>6
  <2> QED
    BY <1>2, <2>1, <2>2, <2>3, OrderOf
<1>10. ASSUME In(order) = In(ids)
       PROVE  wanted = order
  <2>1. In(order) = S
    BY <1>10 DEF S
  <2>2. \A a, b \in S : <<a, b>> \in wanted <=> <<a, b>> \in order
    BY <1>3, <1>7, <1>10
  <2> QED
    BY <1>9, <2>1, <2>2, SameOrder
<1> QED
  BY <1>9, <1>10 DEF S, wanted

LEMMA RowPutBehind ==
  ASSUME NEW order \in Orders, NEW row \in Row, NEW ahead \in SUBSET (In(order) \ {row}),
         \A a \in In(order) \ {row} : \A b \in ahead : <<a, b>> \in order => a \in ahead
  PROVE  /\ PutBehind(ahead, order, row) \in Orders
         /\ In(PutBehind(ahead, order, row)) = In(order) \cup {row}
<1> DEFINE rest == In(order) \ {row}
           S == In(order) \cup {row}
           moved == PutBehind(ahead, order, row)
<1>1. moved = (order \cap (rest \X rest)) \cup {<<row, row>>}
                 \cup (ahead \X {row}) \cup ({row} \X (rest \ ahead))
  BY DEF PutBehind
<1>2. S \in SUBSET Row /\ moved \subseteq S \X S
  BY <1>1, OrderLaws
<1>3. \A a, b \in S : <<a, b>> \in moved <=>
        \/ a \in rest /\ b \in rest /\ <<a, b>> \in order
        \/ a = row /\ b = row
        \/ a \in ahead /\ b = row
        \/ a = row /\ b \in rest /\ b \notin ahead
  BY <1>1
<1>4. /\ \A a, b \in rest : <<a, b>> \in order \/ <<b, a>> \in order
      /\ \A a, b \in rest : <<a, b>> \in order /\ <<b, a>> \in order => a = b
      /\ \A a, b, c \in rest : <<a, b>> \in order /\ <<b, c>> \in order => <<a, c>> \in order
  BY OrderLaws
<1>5. \A a \in rest : \A b \in ahead : <<a, b>> \in order => a \in ahead
  OBVIOUS
<1>6. /\ \A r \in S : (r \in rest) <=> (r # row)
      /\ ahead \subseteq rest /\ row \in S
  OBVIOUS
<1> HIDE DEF S, rest, moved
<1>7. \A a, b \in S : <<a, b>> \in moved \/ <<b, a>> \in moved
  BY <1>3, <1>4, <1>6
<1>8. \A a, b \in S : <<a, b>> \in moved /\ <<b, a>> \in moved => a = b
  BY <1>3, <1>4, <1>6
<1>9. \A a, b, c \in S : <<a, b>> \in moved /\ <<b, c>> \in moved => <<a, c>> \in moved
  BY <1>3, <1>4, <1>5, <1>6
<1>10. moved \in Orders /\ In(moved) = S
  BY <1>2, <1>7, <1>8, <1>9, OrderOf
<1> QED
  BY <1>10 DEF S, moved

LEMMA RelativeMove ==
  ASSUME NEW order \in Orders, NEW row \in Row, NEW target, NEW position
  PROVE  /\ moveTaskIdRelative(order, row, target, position) \in Orders
         /\ row \in In(order) =>
              In(moveTaskIdRelative(order, row, target, position)) = In(order)
<1>1. CASE row = target
  BY <1>1 DEF moveTaskIdRelative
<1>2. CASE row # target
  <2> DEFINE ahead == AheadOf(order, row, target, position)
  <2>1. ahead \in SUBSET (In(order) \ {row})
    BY DEF AheadOf
  <2>2. ASSUME NEW a \in In(order) \ {row}, NEW b \in ahead, <<a, b>> \in order
        PROVE  a \in ahead
    <3>1. b \in In(order)
      BY DEF AheadOf
    <3>2. CASE target \notin In(order)
      BY <3>2 DEF AheadOf
    <3>3. CASE target \in In(order)
      <4>1. <<b, target>> \in order /\ (b = target => position = "after")
        BY <3>3 DEF AheadOf
      <4>2. <<a, target>> \in order
        BY <2>2, <3>1, <3>3, <4>1, OrderLaws
      <4>3. a = target => b = target
        BY <2>2, <3>1, <3>3, <4>1, OrderLaws
      <4> QED
        BY <4>1, <4>2, <4>3 DEF AheadOf
    <3> QED
      BY <3>2, <3>3
  <2> HIDE DEF ahead
  <2>3. /\ PutBehind(ahead, order, row) \in Orders
        /\ In(PutBehind(ahead, order, row)) = In(order) \cup {row}
    BY <2>1, <2>2, RowPutBehind
  <2> QED
    BY <1>2, <2>3 DEF moveTaskIdRelative, ahead
<1> QED
  BY <1>1, <1>2

LEMMA MoveToTheTop ==
  ASSUME NEW order \in Orders, NEW row \in Row
  PROVE  /\ moveTaskIdToTop(order, row) \in Orders
         /\ In(moveTaskIdToTop(order, row)) = In(order)
<1>1. /\ PutBehind({}, order, row) \in Orders
      /\ In(PutBehind({}, order, row)) = In(order) \cup {row}
  BY RowPutBehind
<1> QED
  BY <1>1 DEF moveTaskIdToTop

LEMMA SwappedNeighbours ==
  ASSUME NEW order \in Orders, NEW a, NEW b, Neighbours(order, a, b)
  PROVE  Swap(order, a, b) \in Orders /\ In(Swap(order, a, b)) = In(order)
<1> DEFINE S == In(order)
           swapped == Swap(order, a, b)
<1>1. a \in S /\ b \in S /\ a # b /\ <<a, b>> \in order /\ <<b, a>> \notin order
  BY OrderLaws DEF Neighbours
<1>2. S \in SUBSET Row /\ swapped \subseteq S \X S
  BY <1>1, OrderLaws DEF Swap
<1>3. \A p, q \in S : <<p, q>> \in swapped <=>
        \/ p = b /\ q = a
        \/ <<p, q>> \in order /\ ~ (p = a /\ q = b)
  BY <1>1 DEF Swap
<1>4. /\ \A p, q \in S : <<p, q>> \in order \/ <<q, p>> \in order
      /\ \A p, q \in S : <<p, q>> \in order /\ <<q, p>> \in order => p = q
      /\ \A p, q, r \in S : <<p, q>> \in order /\ <<q, r>> \in order => <<p, r>> \in order
  BY OrderLaws
<1>5. \A c \in S : c # a /\ c # b => ~ (<<a, c>> \in order /\ <<c, b>> \in order)
  BY DEF Neighbours
<1> HIDE DEF S, swapped
<1>6. \A p, q \in S : <<p, q>> \in swapped \/ <<q, p>> \in swapped
  BY <1>1, <1>3, <1>4
<1>7. \A p, q \in S : <<p, q>> \in swapped /\ <<q, p>> \in swapped => p = q
  BY <1>1, <1>3, <1>4
<1>8. \A p, q, r \in S : <<p, q>> \in swapped /\ <<q, r>> \in swapped => <<p, r>> \in swapped
  BY <1>1, <1>3, <1>4, <1>5
<1>9. swapped \in Orders /\ In(swapped) = S
  BY <1>2, <1>6, <1>7, <1>8, OrderOf
<1> QED
  BY <1>9 DEF S, swapped

LEMMA UnscheduledOnes ==
  ASSUME NEW copies \in [Row -> Copy], NEW ids \in Orders
  PROVE  /\ Unscheduled(copies, ids) \in Orders
         /\ In(Unscheduled(copies, ids)) = {r \in In(ids) : copies[r].here}
<1> DEFINE S == {r \in In(ids) : copies[r].here}
           list == Unscheduled(copies, ids)
<1>1. ids \subseteq In(ids) \X In(ids)
  BY OrderLaws
<1>2. S \in SUBSET Row /\ list \subseteq S \X S
  BY <1>1, OrderLaws DEF Unscheduled
<1>3. \A a, b \in S : <<a, b>> \in list <=> <<a, b>> \in ids
  BY DEF Unscheduled
<1>4. S \subseteq In(ids)
  OBVIOUS
<1> HIDE DEF S, list
<1>5. \A a, b \in S : <<a, b>> \in list \/ <<b, a>> \in list
  BY <1>3, <1>4, OrderLaws
<1>6. \A a, b \in S : <<a, b>> \in list /\ <<b, a>> \in list => a = b
  BY <1>3, <1>4, OrderLaws
<1>7. \A a, b, c \in S : <<a, b>> \in list /\ <<b, c>> \in list => <<a, c>> \in list
  BY <1>3, <1>4, OrderLaws
<1>8. list \in Orders /\ In(list) = S
  BY <1>2, <1>5, <1>6, <1>7, OrderOf
<1> QED
  BY <1>8 DEF S, list

(***************************************************************************)
(* What a save asks for: the rows of the order whose number is not their   *)
(* place.                                                                  *)
(***************************************************************************)
LEMMA UpdatesType ==
  ASSUME NEW order \in Orders, NEW copies \in [Row -> Copy], NEW ids \in Orders
  PROVE  /\ buildUnscheduledOrderUpdates(order, copies, ids)
               \subseteq [row : Row, rank : 0..Rows - 1]
         /\ \A u, v \in buildUnscheduledOrderUpdates(order, copies, ids) :
              u.row = v.row => u = v
<1> DEFINE wanted == reconcileTaskOrder(order, Unscheduled(copies, ids))
<1>1. \A r \in In(wanted) : r \in Row /\ Place(wanted, r) \in 0..Rows - 1
  BY PlaceType DEF In
<1>2. buildUnscheduledOrderUpdates(order, copies, ids)
        = {u \in Places(wanted) : u.rank # copies[u.row].rank}
  BY DEF buildUnscheduledOrderUpdates
<1> HIDE DEF wanted
<1> QED
  BY <1>1, <1>2 DEF Places

LEMMA UpdatesOfAll ==
  ASSUME NEW order \in Orders, NEW copies \in [Row -> Copy], NEW ids \in Orders,
         In(ids) = In(order), \A r \in In(order) : copies[r].here
  PROVE  buildUnscheduledOrderUpdates(order, copies, ids)
           = {u \in Places(order) : u.rank # copies[u.row].rank}
<1>1. {r \in In(ids) : copies[r].here} = In(order)
  OBVIOUS
<1>2. Unscheduled(copies, ids) \in Orders /\ In(Unscheduled(copies, ids)) = In(order)
  BY <1>1, UnscheduledOnes
<1>3. reconcileTaskOrder(order, Unscheduled(copies, ids)) = order
  BY <1>2, ReconciledOrder
<1> QED
  BY <1>3 DEF buildUnscheduledOrderUpdates

-----------------------------------------------------------------------------
(***************************************************************************)
(* Every step of the order and of its saves keeps the types.               *)
(***************************************************************************)
SaveStates == [queued : Orders \cup {NoOrder}, saving : BOOLEAN, batch : Nat]
Patches(batches, number) ==
  [batch : 1..batches, row : Row, rank : 0..Rows - 1,
   at : {"sent", "ok", "failed"}, version : 0..number]

LEMMA SaveLoopTypes ==
  ASSUME OrderTypeOK, NEW order \in Orders \cup {NoOrder}, NEW others \in SUBSET patches,
         SaveLoop(order, others)
  PROVE  /\ saveState' \in SaveStates
         /\ patches' \subseteq Patches(saveState'.batch, writes)
<1> DEFINE number == saveState.batch + 1
           batch == Batch(order, number)
<1>1. /\ saveState \in SaveStates /\ saveState.batch \in Nat /\ writes \in Nat
      /\ known \in [Row -> Copy] /\ listed \in Orders
      /\ patches \subseteq Patches(saveState.batch, writes)
  BY DEF OrderTypeOK, SaveStates, Patches
<1>2. CASE order = NoOrder \/ batch = {}
  <2>1. /\ saveState' = [saveState EXCEPT !.queued = NoOrder, !.saving = FALSE]
        /\ patches' = others
    BY <1>2 DEF SaveLoop
  <2>2. saveState' \in SaveStates /\ saveState'.batch = saveState.batch
    BY <1>1, <2>1 DEF SaveStates
  <2> QED
    BY <1>1, <2>1, <2>2
<1>3. CASE ~ (order = NoOrder \/ batch = {})
  <2>1. saveState' = [queued |-> NoOrder, saving |-> TRUE, batch |-> number]
        /\ patches' = others \cup batch
    BY <1>3 DEF SaveLoop
  <2>2. buildUnscheduledOrderUpdates(order, known, listed)
          \subseteq [row : Row, rank : 0..Rows - 1]
    BY <1>1, <1>3, UpdatesType
  <2>3. batch \subseteq Patches(number, writes)
    BY <1>1, <2>2 DEF Batch, Patches
  <2>4. Patches(saveState.batch, writes) \subseteq Patches(number, writes)
    BY <1>1 DEF Patches
  <2>5. saveState' \in SaveStates /\ saveState'.batch = number
    BY <1>1, <2>1 DEF SaveStates
  <2> QED
    BY <1>1, <2>1, <2>3, <2>4, <2>5
<1> QED
  BY <1>2, <1>3

LEMMA PersistingTypes ==
  ASSUME OrderTypeOK, NEW order \in Orders, persistUnscheduledOrder(order)
  PROVE  /\ saveState' \in SaveStates
         /\ patches' \subseteq Patches(saveState'.batch, writes)
<1>1. CASE saveState.saving
  <2>1. saveState' = [saveState EXCEPT !.queued = order] /\ patches' = patches
    BY <1>1 DEF persistUnscheduledOrder
  <2>2. saveState \in SaveStates /\ patches \subseteq Patches(saveState.batch, writes)
    BY DEF OrderTypeOK, SaveStates, Patches
  <2>3. saveState' \in SaveStates /\ saveState'.batch = saveState.batch
    BY <2>1, <2>2 DEF SaveStates
  <2> QED
    BY <2>1, <2>2, <2>3
<1>2. CASE ~ saveState.saving
  BY <1>2, SaveLoopTypes DEF persistUnscheduledOrder
<1> QED
  BY <1>1, <1>2

LEMMA PatchServedTypes ==
  ASSUME OrderTypeOK, NEW p, PatchServed(p)
  PROVE  OrderTypeOK'
<1>1. p \in Patches(saveState.batch, writes) /\ writes \in Nat /\ saveState.batch \in Nat
      /\ patches \subseteq Patches(saveState.batch, writes)
  BY DEF OrderTypeOK, PatchServed, Patches
<1>2. writes' = writes + 1
  BY DEF PatchServed
<1>3. p.row \in Row /\ p.rank \in 0..Rows
  BY <1>1, OrderAssumption DEF Patches
<1>4. Patches(saveState.batch, writes) \subseteq Patches(saveState.batch, writes')
  BY <1>1, <1>2 DEF Patches
<1>5. [p EXCEPT !.at = "ok", !.version = writes'] \in Patches(saveState.batch, writes')
  <2>1. writes' \in 0..writes' /\ p \in Patches(saveState.batch, writes')
    BY <1>1, <1>2, <1>4
  <2> QED
    BY <2>1, Zenon DEF Patches
<1>6. patches' \subseteq Patches(saveState.batch, writes')
  BY <1>1, <1>4, <1>5 DEF PatchServed
<1>7. stored' \in [Row -> Copy] /\ \A r \in Row : stored'[r].version <= writes'
  <2>1. stored \in [Row -> Copy] /\ \A r \in Row : stored[r].version <= writes
    BY DEF OrderTypeOK
  <2>2. stored' = [stored EXCEPT ![p.row] =
                     [stored[p.row] EXCEPT !.rank = p.rank, !.version = writes']]
    BY <1>3, <2>1 DEF PatchServed
  <2>3. stored[p.row] \in Copy
    BY <1>3, <2>1
  <2>4. PICK c : c = [stored[p.row] EXCEPT !.rank = p.rank, !.version = writes']
    OBVIOUS
  <2>5. c \in Copy /\ c.version = writes'
    <3>1. writes' \in Nat
      BY <1>1, <1>2
    <3> QED
      BY <1>3, <2>3, <2>4, <3>1, Zenon DEF Copy
  <2> QED
    BY <1>1, <1>2, <1>3, <2>1, <2>2, <2>4, <2>5 DEF Copy
<1> QED
  BY <1>1, <1>2, <1>6, <1>7 DEF PatchServed, OrderTypeOK, Patches

LEMMA PatchFailsTypes ==
  ASSUME OrderTypeOK, NEW p, PatchFails(p)
  PROVE  OrderTypeOK'
<1>1. /\ p \in Patches(saveState.batch, writes)
      /\ patches \subseteq Patches(saveState.batch, writes)
  BY DEF OrderTypeOK, PatchFails, Patches
<1>2. [p EXCEPT !.at = "failed"] \in Patches(saveState.batch, writes)
  BY <1>1 DEF Patches
<1>3. patches' \subseteq Patches(saveState.batch, writes)
  BY <1>1, <1>2 DEF PatchFails
<1> QED
  BY <1>3 DEF PatchFails, OrderTypeOK, Patches, Slip, Move

LEMMA SaveAnsweredTypes ==
  ASSUME OrderTypeOK, SaveAnswered
  PROVE  OrderTypeOK'
<1>1. saveState' \in SaveStates /\ patches' \subseteq Patches(saveState'.batch, writes)
  <2>1. saveState.queued \in Orders \cup {NoOrder} /\ patches \ Current \in SUBSET patches
    BY DEF OrderTypeOK
  <2> QED
    BY <2>1, SaveLoopTypes DEF SaveAnswered
<1>2. known' \in [Row -> Copy]
  <2> SUFFICES ASSUME NEW r \in Row
               PROVE  known'[r] \in Copy
    BY DEF SaveAnswered
  <2>1. known[r] \in Copy
    BY DEF OrderTypeOK
  <2>2. CASE ~ \E p \in Current : p.row = r
    BY <2>1, <2>2 DEF SaveAnswered
  <2>3. CASE \E p \in Current : p.row = r
    <3>1. PICK p \in Current : p = CHOOSE q \in Current : q.row = r
      BY <2>3
    <3>2. p.rank \in 0..Rows /\ p.version \in Nat
      BY <3>1, OrderAssumption DEF Current, OrderTypeOK
    <3>3. known'[r] = [known[r] EXCEPT !.rank = p.rank, !.version = p.version]
      BY <2>3, <3>1 DEF SaveAnswered
    <3> QED
      BY <2>1, <3>2, <3>3 DEF Copy
  <2> QED
    BY <2>2, <2>3
<1>3. unscheduledOrder' \in Orders
  <2>1. unscheduledOrder \in Orders /\ listed \in Orders
    BY DEF OrderTypeOK
  <2>2. unscheduledOrder' = reconcileTaskOrder(unscheduledOrder, Unscheduled(known', listed))
    BY DEF SaveAnswered
  <2> QED
    BY <1>2, <2>1, <2>2, UnscheduledOnes, ReconciledOrder
<1> QED
  BY <1>1, <1>2, <1>3 DEF SaveAnswered, OrderTypeOK, SaveStates, Patches

LEMMA NoRowsOrder == {} \in Orders
  BY DEF Orders, IsOrder, In

LEMMA SaveFailsTypes ==
  ASSUME OrderTypeOK, SaveFails
  PROVE  OrderTypeOK'
<1>1. saveState' \in SaveStates /\ patches' \subseteq Patches(saveState'.batch, writes)
  <2>1. /\ saveState.queued \in Orders \cup {NoOrder}
        /\ {p \in patches : p.at = "sent"} \in SUBSET patches
    BY DEF OrderTypeOK
  <2> QED
    BY <2>1, SaveLoopTypes DEF SaveFails
<1> QED
  BY <1>1, NoRowsOrder DEF SaveFails, OrderTypeOK, SaveStates, Patches, NoListing

LEMMA RefreshAnsweredTypes ==
  ASSUME OrderTypeOK, RefreshAnswered
  PROVE  OrderTypeOK'
<1>1. /\ known \in [Row -> Copy] /\ listing.copies \in [Row -> Copy]
      /\ unscheduledOrder \in Orders
  BY DEF OrderTypeOK, RefreshAnswered
<1>2. known' \in [Row -> Copy]
  BY <1>1 DEF RefreshAnswered
<1>3. [r \in Row |-> [listing.copies[r] EXCEPT !.here = known'[r].here]] \in [Row -> Copy]
  <2> SUFFICES ASSUME NEW r \in Row
               PROVE  [listing.copies[r] EXCEPT !.here = known'[r].here] \in Copy
    OBVIOUS
  <2>1. listing.copies[r] \in Copy /\ known'[r].here \in BOOLEAN
    BY <1>1, <1>2 DEF Copy
  <2> QED
    BY <2>1 DEF Copy
<1>4. listed' \in Orders
  BY <1>3, ListingOrders DEF RefreshAnswered
<1>5. unscheduledOrder' \in Orders
  BY <1>1, <1>4, ReconciledOrder DEF RefreshAnswered
<1> QED
  BY <1>2, <1>4, <1>5 DEF RefreshAnswered, OrderTypeOK, NoListing

LEMMA GetsTimeTypes ==
  ASSUME OrderTypeOK, NEW r \in Row, GetsTime(r)
  PROVE  OrderTypeOK'
<1>1. stored \in [Row -> Copy] /\ writes \in Nat /\ writes' = writes + 1
  BY DEF OrderTypeOK, GetsTime
<1>2. [here |-> FALSE, rank |-> NoRank, version |-> writes'] \in Copy
  BY <1>1, OrderAssumption DEF Copy, NoRank
<1>3. stored' \in [Row -> Copy]
  BY <1>1, <1>2 DEF GetsTime
<1>4. \A q \in Row : stored'[q].version <= writes'
  <2> SUFFICES ASSUME NEW q \in Row
               PROVE  stored'[q].version <= writes'
    OBVIOUS
  <2>1. stored[q].version \in Nat /\ stored[q].version <= writes
    BY <1>1 DEF OrderTypeOK, Copy
  <2>2. CASE q = r
    BY <1>1, <2>2 DEF GetsTime
  <2>3. CASE q # r
    BY <1>1, <2>1, <2>3 DEF GetsTime
  <2> QED
    BY <2>2, <2>3
<1>5. patches' \subseteq Patches(saveState.batch, writes')
  BY <1>1 DEF GetsTime, OrderTypeOK, Patches
<1> QED
  BY <1>1, <1>3, <1>4, <1>5 DEF GetsTime, OrderTypeOK, Patches

LEMMA MoveTypes ==
  ASSUME OrderTypeOK,
         \/ \E r \in Row : MoveToTop(r)
         \/ \E a, b \in Row : MoveByOffset(a, b)
  PROVE  OrderTypeOK'
<1>1. unscheduledOrder' \in Orders /\ persistUnscheduledOrder(unscheduledOrder')
  BY MoveToTheTop, SwappedNeighbours
     DEF OrderTypeOK, MoveToTop, MoveByOffset, applyLocalUnscheduledOrder
<1>2. saveState' \in SaveStates /\ patches' \subseteq Patches(saveState'.batch, writes)
  BY <1>1, PersistingTypes
<1>3. UNCHANGED <<Rest, pointer, dragTargetMode>>
  BY DEF MoveToTop, MoveByOffset
<1> QED
  BY <1>1, <1>2, <1>3 DEF OrderTypeOK, Rest, SaveStates, Patches

LEMMA PointerTypes ==
  ASSUME OrderTypeOK,
         \/ \E r \in Row : \/ handleTaskRowPointerDown(r) \/ startScheduleDragHighlight(r)
                           \/ \E position \in {"before", "after"} :
                                moveTaskRowDuringDrag(r, position)
         \/ endScheduleDragHighlight
         \/ finishTaskRowPointerInteraction \/ PointerCancel
         \/ ChangeView
  PROVE  OrderTypeOK'
<1> DEFINE Pointers == [row : Row, dragging : BOOLEAN, orderAtStart : Orders]
<1>1. pointer \in {NoPointer} \cup Pointers /\ unscheduledOrder \in Orders
  BY DEF OrderTypeOK
<1>2. ASSUME NEW r \in Row, handleTaskRowPointerDown(r)
      PROVE  OrderTypeOK'
  <2>1. [row |-> r, dragging |-> FALSE, orderAtStart |-> unscheduledOrder] \in Pointers
    BY <1>1
  <2> QED
    BY <1>2, <2>1 DEF handleTaskRowPointerDown, OrderTypeOK, Rest
<1>3. ASSUME NEW r \in Row, NEW position, moveTaskRowDuringDrag(r, position)
      PROVE  OrderTypeOK'
  <2>1. pointer \in Pointers
    BY <1>1, <1>3 DEF moveTaskRowDuringDrag
  <2>3. unscheduledOrder' \in Orders
    BY <1>1, <1>3, <2>1, RelativeMove DEF moveTaskRowDuringDrag, applyLocalUnscheduledOrder
  <2>4. [pointer EXCEPT !.dragging = TRUE] \in Pointers
    BY <2>1
  <2> QED
    BY <1>3, <2>3, <2>4 DEF moveTaskRowDuringDrag, OrderTypeOK, Rest
<1>4. CASE finishTaskRowPointerInteraction
  <2>1. CASE persistUnscheduledOrder(unscheduledOrder)
    <3>1. saveState' \in SaveStates /\ patches' \subseteq Patches(saveState'.batch, writes)
      BY <2>1, PersistingTypes DEF OrderTypeOK
    <3> QED
      BY <1>1, <1>4, <3>1
         DEF finishTaskRowPointerInteraction, OrderTypeOK, Rest, SaveStates, Patches
  <2>2. CASE UNCHANGED <<saveState, patches, lapses>>
    BY <1>1, <1>4, <2>2 DEF finishTaskRowPointerInteraction, OrderTypeOK, Rest
  <2> QED
    BY <1>4, <2>1, <2>2 DEF finishTaskRowPointerInteraction
<1>5. CASE PointerCancel
  BY <1>1, <1>5 DEF PointerCancel, OrderTypeOK
<1>6. ASSUME NEW r \in Row, startScheduleDragHighlight(r)
      PROVE  OrderTypeOK'
  BY <1>6 DEF startScheduleDragHighlight, OrderTypeOK, Rest
<1>7. CASE endScheduleDragHighlight
  BY <1>7 DEF endScheduleDragHighlight, OrderTypeOK, Rest
<1>8. CASE ChangeView
  BY <1>8 DEF ChangeView, OrderTypeOK
<1> QED
  BY <1>2, <1>3, <1>4, <1>5, <1>6, <1>7, <1>8

LEMMA OrderInitTypes ==
  ASSUME OrderInit
  PROVE  OrderTypeOK
<1>1. PICK n \in 0..Rows :
        /\ unscheduledOrder = {p \in (1..n) \X (1..n) : p[1] <= p[2]}
        /\ stored = [r \in Row |-> [here |-> r <= n, version |-> 0,
                                    rank |-> IF r <= n THEN r - 1 ELSE NoRank]]
  BY DEF OrderInit
<1>2. stored \in [Row -> Copy] /\ \A r \in Row : stored[r].version = 0
  BY <1>1, OrderAssumption DEF Copy, NoRank, Row
<1>3. unscheduledOrder \in Orders
  <2> DEFINE S == 1..n
  <2>1. S \in SUBSET Row /\ \A a \in S : a \in Nat
    BY OrderAssumption DEF Row
  <2>2. unscheduledOrder = {p \in S \X S : p[1] <= p[2]}
    BY <1>1
  <2> HIDE DEF S
  <2>3. \A a, b \in S : <<a, b>> \in unscheduledOrder <=> (a <= b)
    BY <2>2
  <2>4. \A a, b \in S : /\ a <= b \/ b <= a
                        /\ a <= b /\ b <= a => a = b
                        /\ \A c \in S : a <= b /\ b <= c => a <= c
    BY <2>1
  <2>5. unscheduledOrder \subseteq S \X S
    BY <2>2
  <2>6. \A a, b \in S : <<a, b>> \in unscheduledOrder \/ <<b, a>> \in unscheduledOrder
    BY <2>3, <2>4
  <2>7. \A a, b \in S :
          <<a, b>> \in unscheduledOrder /\ <<b, a>> \in unscheduledOrder => a = b
    BY <2>3, <2>4
  <2>8. \A a, b, c \in S :
          <<a, b>> \in unscheduledOrder /\ <<b, c>> \in unscheduledOrder
            => <<a, c>> \in unscheduledOrder
    BY <2>3, <2>4
  <2> QED
    BY <2>1, <2>5, <2>6, <2>7, <2>8, OrderOf
<1>4. [queued |-> NoOrder, saving |-> FALSE, batch |-> 0] \in SaveStates
  BY DEF SaveStates
<1> QED
  BY <1>2, <1>3, <1>4 DEF OrderInit, OrderTypeOK, SaveStates, NoListing

LEMMA OrderTypeStep ==
  ASSUME OrderTypeOK, [OrderNext]_orderVars
  PROVE  OrderTypeOK'
<1>1. CASE UNCHANGED orderVars
  BY <1>1 DEF orderVars, OrderTypeOK
<1>2. CASE SaveStep
  BY <1>2, PatchServedTypes, PatchFailsTypes, SaveAnsweredTypes, SaveFailsTypes DEF SaveStep
<1>3. CASE RefreshSent
  BY <1>3 DEF RefreshSent, OrderTypeOK, NoListing
<1>4. CASE RefreshServed
  BY <1>4 DEF RefreshServed, OrderTypeOK
<1> QED
  BY <1>1, <1>2, <1>3, <1>4, RefreshAnsweredTypes, GetsTimeTypes, MoveTypes, PointerTypes
     DEF OrderNext

\* The order stays a list of tasks without a task twice, whatever moves, drags, listings
\* and reconciliations follow each other (UnscheduledOrder: moveTaskIdRelative,
\* reconcileTaskOrder), and every patch asks for a place that exists.
THEOREM OrderTypes == OrderSpec => []OrderTypeOK
<1>1. OrderInit => OrderTypeOK
  BY OrderInitTypes
<1>2. OrderTypeOK /\ [OrderNext]_orderVars => OrderTypeOK'
  BY OrderTypeStep
<1> QED
  BY <1>1, <1>2, PTL DEF OrderSpec

-----------------------------------------------------------------------------
(***************************************************************************)
(* The order settles: as long as nothing lapsed, the number of every task  *)
(* at the server is its place in the order that is being settled, or a     *)
(* patch that makes it so has been sent.                                   *)
(***************************************************************************)
Here == {r \in Row : stored[r].here}

\* The order as it was before the row under the pointer was dragged.
Settling == IF pointer = NoPointer THEN unscheduledOrder ELSE pointer.orderAtStart

\* Copies of the server's tasks, of now or of earlier.
Recent(copies) ==
  \A r \in Row : /\ copies[r].version <= stored[r].version
                 /\ copies[r].version = stored[r].version => copies[r] = stored[r]
                 /\ copies[r].here = stored[r].here

Listings == Recent(known) /\ (listing.at = "served" => Recent(listing.copies))

\* Every list has the rows that have no time.
Rowed == /\ In(unscheduledOrder) = Here /\ In(listed) = Here /\ In(Settling) = Here
         /\ pointer # NoPointer => pointer.row \in Here
         /\ ~ pointer.dragging => unscheduledOrder = Settling

\* A patch of the running save asks for the place of its row, or has got it.
Asked(p) ==
  /\ p.batch = saveState.batch /\ p.row \in Here /\ p.rank = Place(Settling, p.row)
  /\ \/ p.at = "sent"
     \/ p.at = "ok" /\ stored[p.row].rank = p.rank /\ stored[p.row].version = p.version

Saving ==
  /\ saveState.queued = NoOrder
  /\ ~ saveState.saving => patches = {}
  /\ \A p \in patches : Asked(p)
  /\ \A p, q \in patches : p.row = q.row => p = q

Ranked ==
  /\ \A r \in Row : known[r] = stored[r] \/ \E p \in patches : p.row = r /\ p.at = "ok"
  /\ \A r \in Here : stored[r].rank = Place(Settling, r)
                       \/ \E p \in patches : p.row = r /\ p.at = "sent"

Smooth == Listings /\ Rowed /\ Saving /\ Ranked
Settles == lapses = {} => Smooth

LEMMA SettlesAtFirst ==
  ASSUME OrderInit
  PROVE  Settles
<1>1. PICK n \in 0..Rows :
        /\ unscheduledOrder = {p \in (1..n) \X (1..n) : p[1] <= p[2]}
        /\ stored = [r \in Row |-> [here |-> r <= n, version |-> 0,
                                    rank |-> IF r <= n THEN r - 1 ELSE NoRank]]
  BY DEF OrderInit
<1>2. n \in Nat /\ Rows \in Nat /\ n <= Rows
  BY <1>1, OrderAssumption
<1>3. Here = 1..n
  <2>1. \A r \in Row : stored[r].here <=> (r <= n)
    BY <1>1
  <2>2. 1..n = {r \in Row : r <= n}
    BY <1>2 DEF Row
  <2> QED
    BY <2>1, <2>2 DEF Here
<1>4. In(unscheduledOrder) = 1..n
  BY <1>1, <1>2 DEF In, Row
<1>5. ASSUME NEW r \in 1..n
      PROVE  stored[r].rank = Place(unscheduledOrder, r)
  <2>1. {q \in Row \ {r} : <<q, r>> \in unscheduledOrder} = 1..(r - 1)
    BY <1>1, <1>2 DEF Row
  <2>2. Cardinality(1..(r - 1)) = r - 1
    BY FS_Interval
  <2>3. stored[r].rank = r - 1
    BY <1>1, <1>2 DEF Row
  <2> QED
    BY <2>1, <2>2, <2>3 DEF Place
<1>6. /\ known = stored /\ listed = unscheduledOrder /\ patches = {} /\ pointer = NoPointer
      /\ listing.at # "served" /\ ~ pointer.dragging
      /\ saveState.queued = NoOrder
  BY DEF OrderInit, NoPointer, NoListing
<1>7. Settling = unscheduledOrder
  BY <1>6 DEF Settling
<1>8. \A r \in Row : stored[r].version <= stored[r].version
  BY <1>1
<1>9. Listings
  BY <1>6, <1>8 DEF Listings, Recent
<1> QED
  BY <1>3, <1>4, <1>5, <1>6, <1>7, <1>9 DEF Settles, Smooth, Rowed, Saving, Ranked

LEMMA Known ==
  ASSUME Ranked, patches = {}
  PROVE  /\ \A r \in Row : known[r] = stored[r]
         /\ \A r \in Here : stored[r].rank = Place(Settling, r)
  BY DEF Ranked

(***************************************************************************)
(* A save that starts asks for every place that is not at the server.      *)
(***************************************************************************)
LEMMA SaveSettles ==
  ASSUME OrderTypeOK, Smooth, NEW order \in Orders, In(order) = Here,
         persistUnscheduledOrder(order), lapses' = {},
         UNCHANGED <<stored, known>>, Settling' = order
  PROVE  Saving' /\ Ranked'
<1>1. ~ saveState.saving /\ SaveLoop(order, patches)
  BY DEF persistUnscheduledOrder
<1>2. patches = {} /\ saveState.queued = NoOrder /\ saveState.batch \in Nat
  BY <1>1 DEF Smooth, Saving, OrderTypeOK
<1>3. \A r \in Row : known[r] = stored[r]
  BY <1>2, Known DEF Smooth
<1>4. order # NoOrder
  <2>1. order \subseteq Row \X Row /\ 0 \notin Row
    BY OrderAssumption DEF Orders, Row
  <2>2. <<0, 0>> \in NoOrder /\ <<0, 0>> \notin Row \X Row
    BY <2>1 DEF NoOrder
  <2> QED
    BY <2>1, <2>2
<1>5. buildUnscheduledOrderUpdates(order, known, listed)
        = {u \in Places(order) : u.rank # known[u.row].rank}
  <2>1. known \in [Row -> Copy] /\ listed \in Orders /\ In(listed) = In(order)
    BY DEF OrderTypeOK, Smooth, Rowed
  <2>2. \A r \in In(order) : known[r].here
    BY <1>3 DEF Here
  <2> QED
    BY <2>1, <2>2, UpdatesOfAll
<1> DEFINE number == saveState.batch + 1
           batch == Batch(order, number)
<1>6. batch = {[batch |-> number, row |-> u.row, rank |-> u.rank, at |-> "sent",
                 version |-> 0] :
                 u \in {u \in Places(order) : u.rank # known[u.row].rank}}
  BY <1>5 DEF Batch
<1>7. Here' = Here /\ Here \subseteq Row
  BY DEF Here
<1>8. \A p \in batch : /\ p.batch = number /\ p.row \in Here /\ p.at = "sent"
                       /\ p.rank = Place(order, p.row)
  BY <1>6 DEF Places
<1>9. \A p, q \in batch : p.row = q.row => p = q
  BY <1>6 DEF Places
<1>10. ASSUME NEW r \in Here, stored[r].rank # Place(order, r)
       PROVE  \E p \in batch : p.row = r /\ p.at = "sent"
  <2>1. [row |-> r, rank |-> Place(order, r)]
          \in {u \in Places(order) : u.rank # known[u.row].rank}
    BY <1>3, <1>7, <1>10 DEF Places
  <2>2. [batch |-> number, row |-> r, rank |-> Place(order, r), at |-> "sent", version |-> 0]
          \in batch
    BY <1>6, <2>1
  <2> QED
    BY <2>2
<1> HIDE DEF batch
<1>11. CASE batch = {}
  <2>1. saveState' = [saveState EXCEPT !.queued = NoOrder, !.saving = FALSE] /\ patches' = {}
    BY <1>1, <1>2, <1>11 DEF SaveLoop, batch
  <2>2. saveState \in SaveStates
    BY DEF OrderTypeOK, SaveStates
  <2>3. saveState'.queued = NoOrder
    BY <2>1, <2>2 DEF SaveStates
  <2>4. Saving'
    BY <2>1, <2>3 DEF Saving
  <2>5. Ranked'
    BY <1>3, <1>7, <1>10, <1>11, <2>1 DEF Ranked
  <2> QED
    BY <2>4, <2>5
<1>12. CASE batch # {}
  <2>1. /\ saveState' = [queued |-> NoOrder, saving |-> TRUE, batch |-> number]
        /\ patches' = batch
    BY <1>1, <1>2, <1>4, <1>12 DEF SaveLoop, batch
  <2>2. \A p \in patches' : Asked(p)'
    BY <1>7, <1>8, <2>1 DEF Asked
  <2>3. Saving'
    BY <1>9, <2>1, <2>2 DEF Saving
  <2>4. Ranked'
    BY <1>3, <1>7, <1>10, <2>1 DEF Ranked
  <2> QED
    BY <2>3, <2>4
<1> QED
  BY <1>11, <1>12

-----------------------------------------------------------------------------
(***************************************************************************)
(* Every step that lets nothing lapse keeps it.                            *)
(***************************************************************************)
LEMMA PatchServedSettles ==
  ASSUME OrderTypeOK, Smooth, NEW p, PatchServed(p)
  PROVE  Smooth'
<1>a. PICK answer : answer = [p EXCEPT !.at = "ok", !.version = writes']
  OBVIOUS
<1>1. p \in patches /\ Asked(p) /\ saveState.saving /\ p \in Current
  BY DEF PatchServed, Smooth, Saving, Asked, Current
<1>2. p \in Patches(saveState.batch, writes) /\ p.row \in Row /\ writes \in Nat
  BY <1>1 DEF OrderTypeOK, Patches
<1>3. writes' = writes + 1 /\ patches' = (patches \ {p}) \cup {answer}
  BY <1>1, <1>a DEF PatchServed
<1>4. /\ answer.batch = p.batch /\ answer.row = p.row /\ answer.rank = p.rank
      /\ answer.at = "ok" /\ answer.version = writes'
  BY <1>2, <1>a DEF Patches
<1>5. /\ stored \in [Row -> Copy] /\ known \in [Row -> Copy]
      /\ \A r \in Row : stored[r].version <= writes /\ stored[r].version \in Nat
  BY DEF OrderTypeOK, Copy
<1>6. /\ \A r \in Row : r # p.row => stored'[r] = stored[r]
      /\ stored'[p.row].here = stored[p.row].here
      /\ stored'[p.row].rank = p.rank
      /\ stored'[p.row].version = writes'
  <2>1. stored' = [stored EXCEPT ![p.row] =
                     [stored[p.row] EXCEPT !.rank = p.rank, !.version = writes']]
    BY <1>2, <1>5 DEF PatchServed
  <2>2. stored[p.row] \in Copy
    BY <1>2, <1>5
  <2>3. PICK c : c = [stored[p.row] EXCEPT !.rank = p.rank, !.version = writes']
    OBVIOUS
  <2>4. c.here = stored[p.row].here /\ c.rank = p.rank /\ c.version = writes'
    BY <2>2, <2>3 DEF Copy
  <2> QED
    BY <1>2, <1>5, <2>1, <2>3, <2>4
<1>7. UNCHANGED <<unscheduledOrder, known, listed, saveState, listing, pointer>>
  BY DEF PatchServed
<1>8. Here' = Here /\ Settling' = Settling
  BY <1>6, <1>7 DEF Here, Settling
<1>9. ASSUME NEW copies \in [Row -> Copy], Recent(copies)
      PROVE  \A r \in Row : /\ copies[r].version <= stored'[r].version
                            /\ copies[r].version = stored'[r].version => copies[r] = stored'[r]
                            /\ copies[r].here = stored'[r].here
  <2> SUFFICES ASSUME NEW r \in Row
               PROVE  /\ copies[r].version <= stored'[r].version
                      /\ copies[r].version = stored'[r].version => copies[r] = stored'[r]
                      /\ copies[r].here = stored'[r].here
    OBVIOUS
  <2>1. copies[r].version \in Nat /\ copies[r].version <= stored[r].version
    BY <1>9 DEF Copy, Recent
  <2>2. CASE r # p.row
    BY <1>6, <1>9, <2>2 DEF Recent
  <2>3. CASE r = p.row
    <3>1. copies[r].version < stored'[r].version
      BY <1>2, <1>3, <1>5, <1>6, <2>1, <2>3
    <3>2. copies[r].version \in Nat /\ stored'[r].version \in Nat
      BY <1>2, <1>3, <1>6, <2>1, <2>3
    <3>3. copies[r].here = stored'[r].here
      BY <1>6, <1>9, <2>3 DEF Recent
    <3> QED
      BY <3>1, <3>2, <3>3
  <2> QED
    BY <2>2, <2>3
<1>10. Listings'
  <2>1. Recent(known)'
    BY <1>5, <1>7, <1>9 DEF Smooth, Listings, Recent
  <2>2. listing'.at = "served" => Recent(listing.copies)'
    <3>1. listing.at = "served" => listing.copies \in [Row -> Copy] /\ Recent(listing.copies)
      BY DEF OrderTypeOK, Smooth, Listings
    <3> QED
      BY <1>7, <1>9, <3>1 DEF Recent
  <2> QED
    BY <1>7, <2>1, <2>2 DEF Listings
<1>11. Rowed'
  BY <1>7, <1>8 DEF Smooth, Rowed
<1>12. Saving'
  <2>1. \A q \in patches : q # p => q.row # p.row /\ q.row \in Row /\ Asked(q)
    BY <1>1 DEF Smooth, Saving, Asked, Here
  <2>2. \A q \in patches : q # p => Asked(q)'
    BY <1>6, <1>7, <1>8, <2>1 DEF Asked
  <2>3. /\ answer.batch = saveState'.batch /\ answer.row \in Here'
        /\ answer.rank = Place(Settling, answer.row)'
        /\ answer.at = "ok" /\ stored'[answer.row].rank = answer.rank
        /\ stored'[answer.row].version = answer.version
    BY <1>1, <1>4, <1>6, <1>7, <1>8 DEF Asked
  <2>4. \A q, s \in patches' : q.row = s.row => q = s
    BY <1>3, <1>4, <2>1 DEF Smooth, Saving
  <2>5. \A q \in patches' : Asked(q)'
    BY <1>3, <2>2, <2>3 DEF Asked
  <2> QED
    BY <1>1, <1>7, <2>4, <2>5 DEF Smooth, Saving
<1>13. Ranked'
  <2>1. p.at = "sent"
    BY DEF PatchServed
  <2>2. ASSUME NEW r \in Row
        PROVE  known'[r] = stored'[r] \/ \E q \in patches' : q.row = r /\ q.at = "ok"
    <3>1. CASE r = p.row
      BY <1>3, <1>4, <3>1
    <3>2. CASE r # p.row
      <4>1. CASE known[r] = stored[r]
        BY <1>6, <1>7, <3>2, <4>1
      <4>2. CASE \E q \in patches : q.row = r /\ q.at = "ok"
        BY <1>3, <3>2, <4>2
      <4> QED
        BY <4>1, <4>2 DEF Smooth, Ranked
    <3> QED
      BY <3>1, <3>2
  <2>3. ASSUME NEW r \in Here
        PROVE  \/ stored'[r].rank = Place(Settling, r)
               \/ \E q \in patches' : q.row = r /\ q.at = "sent"
    <3>1. CASE r = p.row
      BY <1>1, <1>6, <3>1 DEF Asked
    <3>2. CASE r # p.row
      <4>1. CASE stored[r].rank = Place(Settling, r)
        BY <1>6, <3>2, <4>1 DEF Here
      <4>2. CASE \E q \in patches : q.row = r /\ q.at = "sent"
        BY <1>3, <3>2, <4>2
      <4> QED
        BY <4>1, <4>2 DEF Smooth, Ranked
    <3> QED
      BY <3>1, <3>2
  <2> QED
    BY <1>8, <2>2, <2>3 DEF Ranked
<1> QED
  BY <1>10, <1>11, <1>12, <1>13 DEF Smooth

LEMMA SaveAnsweredSettles ==
  ASSUME OrderTypeOK, Smooth, SaveAnswered
  PROVE  Smooth'
<1>1. \A p \in patches : p \in Current /\ p.at = "ok"
  BY DEF SaveAnswered, Smooth, Saving, Asked, Current
<1>2. SaveLoop(NoOrder, {})
  <2>1. patches \ Current = {} /\ saveState.queued = NoOrder
    BY <1>1 DEF Smooth, Saving
  <2> QED
    BY <2>1 DEF SaveAnswered
<1>3. /\ patches' = {} /\ saveState'.queued = NoOrder
  <2>1. saveState' = [saveState EXCEPT !.queued = NoOrder, !.saving = FALSE] /\ patches' = {}
    BY <1>2 DEF SaveLoop
  <2>2. saveState \in SaveStates
    BY DEF OrderTypeOK, SaveStates
  <2> QED
    BY <2>1, <2>2 DEF SaveStates
<1>4. ASSUME NEW r \in Row
      PROVE  known'[r] = stored[r]
  <2>1. CASE \E p \in Current : p.row = r
    <3>1. PICK p \in Current : p.row = r /\ p = CHOOSE q \in Current : q.row = r
      BY <2>1
    <3>2. p \in patches /\ p.at = "ok"
      BY <1>1, <3>1 DEF Current
    <3>3. stored[r].rank = p.rank /\ stored[r].version = p.version
      BY <3>1, <3>2 DEF Smooth, Saving, Asked
    <3>4. known'[r] = [known[r] EXCEPT !.rank = p.rank, !.version = p.version]
      BY <2>1, <3>1 DEF SaveAnswered
    <3>5. known[r] \in Copy /\ stored[r] \in Copy /\ known[r].here = stored[r].here
      BY DEF OrderTypeOK, Smooth, Listings, Recent
    <3> QED
      BY <3>3, <3>4, <3>5 DEF Copy
  <2>2. CASE ~ \E p \in Current : p.row = r
    <3>1. known[r] = stored[r]
      BY <1>1, <2>2 DEF Smooth, Ranked
    <3> QED
      BY <2>2, <3>1 DEF SaveAnswered
  <2> QED
    BY <2>1, <2>2
<1>5. UNCHANGED <<unscheduledOrder, stored, listed, listing, pointer>>
  <2>1. /\ unscheduledOrder \in Orders /\ listed \in Orders /\ known' \in [Row -> Copy]
        /\ In(unscheduledOrder) = Here /\ In(listed) = Here
    BY SaveAnsweredTypes DEF OrderTypeOK, Smooth, Rowed
  <2>2. {r \in In(listed) : known'[r].here} = Here
    BY <1>4, <2>1 DEF Here
  <2>3. unscheduledOrder' = reconcileTaskOrder(unscheduledOrder, Unscheduled(known', listed))
    BY DEF SaveAnswered
  <2>4. unscheduledOrder' = unscheduledOrder
    <3> DEFINE ids == Unscheduled(known', listed)
    <3>1. ids \in Orders /\ In(ids) = Here
      BY <2>1, <2>2, UnscheduledOnes
    <3> HIDE DEF ids
    <3>2. reconcileTaskOrder(unscheduledOrder, ids) = unscheduledOrder
      BY <2>1, <3>1, ReconciledOrder
    <3> QED
      BY <2>3, <3>2 DEF ids
  <2> QED
    BY <2>4 DEF SaveAnswered
<1>6. Here' = Here /\ Settling' = Settling
  BY <1>5 DEF Here, Settling
<1>7. Listings'
  <2>1. \A r \in Row : stored[r].version \in Nat
    BY DEF OrderTypeOK, Copy
  <2>2. Recent(known)'
    BY <1>4, <1>5, <2>1 DEF Recent
  <2>3. listing'.at = "served" => Recent(listing.copies)'
    BY <1>5 DEF Smooth, Listings, Recent
  <2> QED
    BY <1>5, <2>2, <2>3 DEF Listings
<1>8. Rowed'
  BY <1>5, <1>6 DEF Smooth, Rowed
<1>9. Saving'
  BY <1>3 DEF Saving
<1>10. Ranked'
  <2>1. \A r \in Here : stored[r].rank = Place(Settling, r)
    BY <1>1 DEF Smooth, Ranked
  <2> QED
    BY <1>4, <1>5, <1>6, <2>1 DEF Ranked
<1> QED
  BY <1>7, <1>8, <1>9, <1>10 DEF Smooth

LEMMA RefreshAnsweredSettles ==
  ASSUME OrderTypeOK, Smooth, RefreshAnswered
  PROVE  Smooth'
<1> DEFINE copies == [r \in Row |-> [listing.copies[r] EXCEPT !.here = known'[r].here]]
<1>1. /\ known \in [Row -> Copy] /\ stored \in [Row -> Copy]
      /\ listing.copies \in [Row -> Copy]
      /\ Recent(known) /\ Recent(listing.copies) /\ unscheduledOrder \in Orders
  BY DEF RefreshAnswered, OrderTypeOK, Smooth, Listings
<1>2. known' = [r \in Row |-> IF listing.copies[r].version >= known[r].version
                              THEN listing.copies[r] ELSE known[r]]
  BY DEF RefreshAnswered
<1>3. /\ known' \in [Row -> Copy] /\ Recent(known')
      /\ \A r \in Row : known[r] = stored[r] => known'[r] = stored[r]
  <2>1. \A r \in Row : known'[r] = known[r] \/ known'[r] = listing.copies[r]
    BY <1>2
  <2>2. known' \in [Row -> Copy]
    BY <1>1, <1>2
  <2>3. Recent(known')
    BY <1>1, <2>1 DEF Recent
  <2>4. ASSUME NEW r \in Row, known[r] = stored[r]
        PROVE  known'[r] = stored[r]
    <3>1. CASE listing.copies[r].version >= known[r].version
      <4>1. listing.copies[r].version \in Nat /\ stored[r].version \in Nat
        BY <1>1 DEF Copy
      <4>2. listing.copies[r].version = stored[r].version
        <5>1. listing.copies[r].version <= stored[r].version
          BY <1>1 DEF Recent
        <5>2. listing.copies[r].version >= stored[r].version
          BY <2>4, <3>1
        <5> QED
          BY <4>1, <5>1, <5>2
      <4> QED
        BY <1>1, <1>2, <3>1, <4>2 DEF Recent
    <3>2. CASE ~ (listing.copies[r].version >= known[r].version)
      BY <1>2, <2>4, <3>2
    <3> QED
      BY <3>1, <3>2
  <2> QED
    BY <2>2, <2>3, <2>4
<1>4. copies \in [Row -> Copy] /\ {r \in Row : copies[r].here} = Here
  <2> SUFFICES ASSUME NEW r \in Row
               PROVE  /\ [listing.copies[r] EXCEPT !.here = known'[r].here] \in Copy
                      /\ [listing.copies[r] EXCEPT !.here = known'[r].here].here = stored[r].here
    BY DEF Here
  <2>1. listing.copies[r] \in Copy /\ known'[r].here \in BOOLEAN
    BY <1>1, <1>3 DEF Copy
  <2>2. known'[r].here = stored[r].here
    BY <1>3 DEF Recent
  <2> QED
    BY <2>1, <2>2 DEF Copy
<1>5. /\ listed' = ListingOrder(copies)
      /\ unscheduledOrder' = reconcileTaskOrder(unscheduledOrder, listed')
  BY DEF RefreshAnswered
<1> HIDE DEF copies
<1>6. listed' \in Orders /\ In(listed') = Here
  BY <1>4, <1>5, ListingOrders
<1>7. unscheduledOrder' = unscheduledOrder
  BY <1>1, <1>5, <1>6, ReconciledOrder DEF Smooth, Rowed
<1>8. /\ UNCHANGED <<stored, saveState, patches, pointer>>
      /\ listing' = NoListing
  BY DEF RefreshAnswered
<1>9. Here' = Here /\ Settling' = Settling
  BY <1>7, <1>8 DEF Here, Settling
<1>10. Listings'
  BY <1>3, <1>8 DEF Listings, Recent, NoListing
<1>11. Rowed'
  BY <1>6, <1>7, <1>8, <1>9 DEF Smooth, Rowed
<1>12. Saving'
  BY <1>8, <1>9 DEF Smooth, Saving, Asked
<1>13. Ranked'
  BY <1>3, <1>8, <1>9 DEF Smooth, Ranked
<1> QED
  BY <1>10, <1>11, <1>12, <1>13 DEF Smooth

LEMMA MoveSettles ==
  ASSUME OrderTypeOK, Smooth, lapses' = {},
         \/ \E r \in Row : MoveToTop(r)
         \/ \E a, b \in Row : MoveByOffset(a, b)
  PROVE  Smooth'
<1>1. /\ unscheduledOrder' \in Orders /\ In(unscheduledOrder') = Here
      /\ persistUnscheduledOrder(unscheduledOrder')
  <2>1. unscheduledOrder \in Orders /\ In(unscheduledOrder) = Here
    BY DEF OrderTypeOK, Smooth, Rowed
  <2> QED
    BY <2>1, MoveToTheTop, SwappedNeighbours
       DEF MoveToTop, MoveByOffset, applyLocalUnscheduledOrder
<1>2. UNCHANGED <<stored, known, listed, listing, pointer>> /\ pointer = NoPointer
  BY DEF MoveToTop, MoveByOffset, Rest
<1>3. Settling' = unscheduledOrder' /\ Here' = Here
  BY <1>2 DEF Settling, Here
<1>4. Saving' /\ Ranked'
  BY <1>1, <1>2, <1>3, SaveSettles
<1>5. Listings' /\ Rowed'
  BY <1>1, <1>2, <1>3 DEF Smooth, Listings, Recent, Rowed
<1> QED
  BY <1>4, <1>5 DEF Smooth

LEMMA StillSettles ==
  ASSUME Smooth, Settling' = Settling, In(unscheduledOrder') = Here,
         pointer' # NoPointer => pointer'.row \in Here,
         ~ pointer'.dragging => unscheduledOrder' = Settling,
         UNCHANGED <<stored, known, listed, listing, saveState, patches>>
  PROVE  Smooth'
<1>1. Here' = Here
  BY DEF Here
<1>2. Rowed'
  BY <1>1 DEF Smooth, Rowed
<1>3. Listings' /\ Saving' /\ Ranked'
  BY <1>1 DEF Smooth, Listings, Recent, Saving, Asked, Ranked
<1> QED
  BY <1>2, <1>3 DEF Smooth

LEMMA FinishSettles ==
  ASSUME OrderTypeOK, Smooth, lapses' = {}, finishTaskRowPointerInteraction
  PROVE  Smooth'
<1>1. /\ UNCHANGED <<unscheduledOrder, stored, known, listed, listing>>
      /\ pointer # NoPointer /\ pointer' = NoPointer
  BY DEF finishTaskRowPointerInteraction, Rest
<1>2. Settling' = unscheduledOrder /\ Settling = pointer.orderAtStart /\ ~ pointer'.dragging
  BY <1>1 DEF Settling, NoPointer
<1>3. CASE pointer.dragging /\ pointer.orderAtStart # unscheduledOrder
  <2>1. Saving' /\ Ranked'
    BY <1>1, <1>2, <1>3, SaveSettles
       DEF finishTaskRowPointerInteraction, OrderTypeOK, Smooth, Rowed
  <2>2. Here' = Here
    BY <1>1 DEF Here
  <2>3. Listings' /\ Rowed'
    BY <1>1, <1>2, <2>2 DEF Smooth, Listings, Recent, Rowed, In
  <2> QED
    BY <2>1, <2>3 DEF Smooth
<1>4. CASE ~ (pointer.dragging /\ pointer.orderAtStart # unscheduledOrder)
  <2>1. Settling' = Settling
    BY <1>2, <1>4 DEF Smooth, Rowed
  <2>2. UNCHANGED <<saveState, patches>>
    BY <1>4 DEF finishTaskRowPointerInteraction
  <2> QED
    BY <1>1, <1>2, <2>1, <2>2, StillSettles DEF Smooth, Rowed
<1> QED
  BY <1>3, <1>4

LEMMA PointerSettles ==
  ASSUME OrderTypeOK, Smooth, lapses' = {},
         \/ \E r \in Row : \/ handleTaskRowPointerDown(r) \/ startScheduleDragHighlight(r)
                           \/ \E position \in {"before", "after"} :
                                moveTaskRowDuringDrag(r, position)
         \/ endScheduleDragHighlight \/ ChangeView
  PROVE  Smooth'
<1>1. ASSUME NEW r \in Row, handleTaskRowPointerDown(r)
      PROVE  Smooth'
  <2>1. /\ UNCHANGED <<unscheduledOrder, stored, known, listed, listing, saveState, patches>>
        /\ pointer = NoPointer
        /\ pointer' = [row |-> r, dragging |-> FALSE, orderAtStart |-> unscheduledOrder]
    BY <1>1 DEF handleTaskRowPointerDown, Rest
  <2>2. pointer' # NoPointer /\ pointer'.orderAtStart = unscheduledOrder /\ pointer'.row = r
    <3>1. r # 0
      BY DEF Row
    <3> QED
      BY <2>1, <3>1 DEF NoPointer
  <2>3. Settling' = unscheduledOrder /\ Settling = unscheduledOrder
    BY <2>1, <2>2 DEF Settling
  <2>4. r \in Here
    BY <1>1 DEF handleTaskRowPointerDown, Shown, Smooth, Listings, Recent, Here
  <2> QED
    BY <2>1, <2>2, <2>3, <2>4, StillSettles DEF Smooth, Rowed
<1>2. ASSUME NEW r \in Row, NEW position, moveTaskRowDuringDrag(r, position)
      PROVE  Smooth'
  <2> DEFINE Pointers == [row : Row, dragging : BOOLEAN, orderAtStart : Orders]
  <2>1. /\ UNCHANGED <<stored, known, listed, listing, saveState, patches>>
        /\ pointer # NoPointer /\ pointer' = [pointer EXCEPT !.dragging = TRUE]
        /\ unscheduledOrder' = moveTaskIdRelative(unscheduledOrder, pointer.row, r, position)
    BY <1>2 DEF moveTaskRowDuringDrag, applyLocalUnscheduledOrder, Rest
  <2>2. pointer \in Pointers /\ unscheduledOrder \in Orders
    BY <2>1 DEF OrderTypeOK
  <2>3. /\ pointer'.dragging /\ pointer'.row = pointer.row
        /\ pointer'.orderAtStart = pointer.orderAtStart
    BY <2>1, <2>2
  <2>4. pointer' # NoPointer
    BY <2>3 DEF NoPointer
  <2>5. Settling' = Settling
    BY <2>1, <2>3, <2>4 DEF Settling
  <2>6. pointer.row \in Here /\ In(unscheduledOrder) = Here
    BY <2>1 DEF Smooth, Rowed
  <2>7. In(unscheduledOrder') = Here
    BY <2>1, <2>2, <2>6, RelativeMove
  <2> QED
    BY <2>1, <2>3, <2>5, <2>6, <2>7, StillSettles
<1>3. ASSUME UNCHANGED <<unscheduledOrder, stored, known, listed, listing, saveState,
                         patches, pointer>>
      PROVE  Smooth'
  <2>1. Settling' = Settling
    BY <1>3 DEF Settling
  <2> QED
    BY <1>3, <2>1, StillSettles DEF Smooth, Rowed
<1>4. ASSUME NEW r \in Row, startScheduleDragHighlight(r)
      PROVE  Smooth'
  BY <1>3, <1>4 DEF startScheduleDragHighlight, Rest
<1>5. CASE endScheduleDragHighlight \/ ChangeView
  BY <1>3, <1>5 DEF endScheduleDragHighlight, ChangeView, Rest
<1> QED
  BY <1>1, <1>2, <1>4, <1>5

LEMMA OrderSettlesStep ==
  ASSUME OrderTypeOK, Settles, [OrderNext]_orderVars
  PROVE  Settles'
<1> SUFFICES ASSUME lapses' = {} PROVE Smooth'
  BY DEF Settles
<1>1. Smooth
  <2>1. lapses \subseteq lapses'
    BY DEF OrderNext, orderVars, SaveStep, PatchServed, PatchFails, SaveAnswered, SaveFails,
           RefreshSent, RefreshServed, RefreshAnswered, GetsTime, MoveToTop, MoveByOffset,
           handleTaskRowPointerDown, startScheduleDragHighlight, endScheduleDragHighlight,
           moveTaskRowDuringDrag, finishTaskRowPointerInteraction, PointerCancel, ChangeView,
           persistUnscheduledOrder, Slip
  <2> QED
    BY <2>1 DEF Settles
<1>2. \A name : ~ Slip(name)
  BY DEF Slip
<1>3. CASE UNCHANGED orderVars
  BY <1>1, <1>3 DEF orderVars, Smooth, Listings, Recent, Rowed, Saving, Asked, Ranked, Here,
                    Settling, In
<1>4. CASE SaveStep
  <2>1. ASSUME SaveFails PROVE FALSE
    BY <1>1, <2>1 DEF SaveFails, Current, Smooth, Saving, Asked
  <2>2. ASSUME NEW p, PatchFails(p) PROVE FALSE
    BY <1>2, <2>2 DEF PatchFails
  <2> QED
    BY <1>1, <1>4, <2>1, <2>2, PatchServedSettles, SaveAnsweredSettles DEF SaveStep
<1>5. CASE RefreshSent \/ RefreshServed
  <2>1. UNCHANGED <<unscheduledOrder, stored, known, listed, saveState, patches, pointer>>
    BY <1>5 DEF RefreshSent, RefreshServed
  <2>2. Here' = Here /\ Settling' = Settling
    BY <2>1 DEF Here, Settling
  <2>3. \A r \in Row : stored[r].version \in Nat
    BY DEF OrderTypeOK, Copy
  <2>4. Recent(stored)
    BY <2>3 DEF Recent
  <2>5. Listings'
    <3>1. listing'.at = "served" => listing'.copies = stored
      BY <1>5 DEF RefreshSent, RefreshServed, NoListing
    <3> QED
      BY <1>1, <2>1, <2>4, <3>1 DEF Smooth, Listings, Recent
  <2>6. Rowed' /\ Saving' /\ Ranked'
    BY <1>1, <2>1, <2>2 DEF Smooth, Rowed, Saving, Asked, Ranked, In
  <2> QED
    BY <2>5, <2>6 DEF Smooth
<1>6. CASE RefreshAnswered
  BY <1>1, <1>6, RefreshAnsweredSettles
<1>7. ASSUME NEW r \in Row, GetsTime(r)
      PROVE  Smooth'
  BY <1>2, <1>7 DEF GetsTime
<1>8. CASE PointerCancel
  BY <1>2, <1>8 DEF PointerCancel
<1> QED
  BY <1>1, <1>3, <1>4, <1>5, <1>6, <1>7, <1>8, MoveSettles, FinishSettles, PointerSettles
     DEF OrderNext

\* Once the saves are answered, nothing is dragged and the page is up to date, the server
\* lists the tasks in the order of the page, whatever the moves were, unless two moves
\* overlapped, a patch failed, a drag was cancelled or a task got a time.
THEOREM OrderArrives == OrderSpec => []OrderReachesServer
<1>1. OrderInit => Settles
  BY SettlesAtFirst
<1>2. OrderTypeOK /\ Settles /\ [OrderNext]_orderVars => Settles'
  BY OrderSettlesStep
<1>3. OrderTypeOK /\ Settles => OrderReachesServer
  <2> SUFFICES ASSUME OrderTypeOK, Settles, Quiet, lapses = {}
               PROVE  ListingOrder(stored) = unscheduledOrder
    BY DEF OrderReachesServer
  <2>1. Smooth /\ patches = {} /\ Settling = unscheduledOrder
    BY DEF Settles, Quiet, Settling
  <2>2. \A r \in Here : stored[r].rank = Place(unscheduledOrder, r)
    BY <2>1, Known DEF Smooth
  <2>3. /\ unscheduledOrder \in Orders /\ stored \in [Row -> Copy]
        /\ In(unscheduledOrder) = {r \in Row : stored[r].here}
    BY <2>1 DEF OrderTypeOK, Smooth, Rowed, Here
  <2> QED
    BY <2>2, <2>3, PlacesAreListed DEF Here
<1> QED
  BY <1>1, <1>2, <1>3, OrderTypes, PTL DEF OrderSpec
==============================================================================
