----------------------------- MODULE MCWorkers -----------------------------
(***************************************************************************)
(* Instances of Reminders for TLC, beside those of Outbox and              *)
(* ReconcileBatch: what the threads of the backend must bring to an end.   *)
(***************************************************************************)
EXTENDS MCReconcile, Reminders

CONSTANT Days   \* how the reminders begin, and their bounds

\* <<tasks there are, saves, misses>>.
LiveDays == {<<2, 1, 1>>, <<1, 2, 0>>}

ThereIs == {t \in Todo : items[t].state = "live"}

WorkersInit ==
  /\ ReconcileInit /\ ReminderInit
  /\ Cardinality(ThereIs) = 1 => ThereIs = {CHOOSE t \in Todo : TRUE}
  /\ IF part = "reminders"
     THEN <<Cardinality(ThereIs), allowance.saves, allowance.misses>> \in Days
     ELSE /\ ThereIs = {} /\ webhook = "set"
          /\ allowance = [saves |-> 0, misses |-> 0]

WorkersNext ==
  \/ ReconcileNext /\ UNCHANGED reminderVars
  \/ part = "reminders" /\ ReminderNext /\ UNCHANGED <<part, vars, batchVars>>

(***************************************************************************)
(* The fairness of ReconcileFairness, and that of the notification thread, *)
(* which polls until the backend stops; clock and users need not move.     *)
(***************************************************************************)
WorkersFairSpec ==
  /\ WorkersInit /\ [][WorkersNext]_<<part, vars, batchVars, reminderVars>>
  /\ ReconcileFairness
  /\ WF_reminderVars(part = "reminders" /\ SweepStep)
=============================================================================
