----------------------------- MODULE MCReconcile -----------------------------
(***************************************************************************)
(* Instances of Outbox and ReconcileBatch for TLC, side by side: part says *)
(* which one a behaviour is about, what else there is stays as it began.   *)
(***************************************************************************)
EXTENDS MCOutbox, ReconcileBatch

CONSTANTS
  Parts,    \* what the behaviours are about
  Scenes    \* how a reconciliation begins, and its bounds

VARIABLE part

\* <<everything is mirrored, batch_size, edits, faults>>.
WideScenes == {<<TRUE, 1, 3, 0>>, <<TRUE, 2, 2, 0>>, <<TRUE, 1, 2, 1>>, <<TRUE, 2, 2, 1>>,
               <<FALSE, 1, 1, 1>>, <<FALSE, 2, 1, 1>>}
LiveScenes == {<<TRUE, 1, 2, 1>>, <<TRUE, 2, 1, 1>>, <<FALSE, 1, 1, 1>>, <<FALSE, 2, 1, 1>>}
StillScene == {<<TRUE, 1, 0, 0>>}

Mirrored == \A c \in Category : routes[c] # 0

\* Categories and calendars are interchangeable: the calendars are numbered in one
\* way, and the first task belongs to one category.
ReconcileInit ==
  /\ part \in Parts
  /\ Init /\ BatchInit
  /\ <<Mirrored, batchSize, credit.edits, credit.faults>> \in
       IF part = "passes" THEN Scenes ELSE StillScene
  /\ Mirrored => routes = CHOOSE f \in [Category -> Calendar] : IsInjective(f)
  /\ \A t \in TaskId : t = 1 \/ part # "passes" =>
       scheduled[t].category = CHOOSE c \in Category : TRUE

ReconcileNext ==
  /\ UNCHANGED part
  /\ \/ part = "outbox" /\ Next /\ UNCHANGED batchVars
     \/ part = "passes" /\ BatchNext /\ UNCHANGED vars

ReconcileSpec == ReconcileInit /\ [][ReconcileNext]_<<part, vars, batchVars>>

\* The fairness of FairSpec and BatchFairness, each for the part that moves.
ReconcileFairness ==
  /\ WF_vars(part = "outbox" /\ Tick)
  /\ \A w \in Worker : WF_vars(part = "outbox" /\ WorkerStep(w))
  /\ WF_batchVars(part = "passes" /\ (BatchStep \/ JobStep))
=============================================================================
