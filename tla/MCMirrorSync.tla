---------------------------- MODULE MCMirrorSync ----------------------------
(***************************************************************************)
(* Instances of MirrorSync for TLC.                                        *)
(***************************************************************************)
EXTENDS MirrorSync, TLC

MCKey == {"upsert_task", "delete_task"} \X Task
MCPriority == [k \in MCKey |-> IF k[1] = "delete_task" THEN 100 ELSE 90]
MCRetryBackoff == [n \in 1 .. MaxAttempts |-> 0]

Symmetry == Permutations(Job) \cup Permutations(Mirror) \cup Permutations(Worker)
            \cup Permutations(Task)
=============================================================================
