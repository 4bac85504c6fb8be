---------------------------- MODULE MCDailyTodo ----------------------------
(***************************************************************************)
(* Instances of DailyTodo for TLC.                                         *)
(***************************************************************************)
EXTENDS DailyTodo

MCRetryBackoff == [n \in 1 .. MaxAttempts |-> 1]
=============================================================================
