------------------------------ MODULE MCOutbox ------------------------------
(***************************************************************************)
(* Instances of Outbox for TLC: a task job ("task", one unit, priority 90) *)
(* and a reconciliation ("user", two batches, priority 40).                *)
(***************************************************************************)
EXTENDS Outbox, TLC

MCKey == {"task", "user"}
MCPriority == [k \in MCKey |-> IF k = "task" THEN 90 ELSE 40]
MCPages == [k \in MCKey |-> IF k = "task" THEN 1 ELSE 2]
MCRetryBackoff == [n \in 1 .. MaxAttempts |-> 2 ^ (n - 1)]

Symmetry == Permutations(Job) \cup Permutations(Worker)
            \cup Permutations(Request)
=============================================================================
