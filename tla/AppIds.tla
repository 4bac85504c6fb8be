------------------------------- MODULE AppIds -------------------------------
(***************************************************************************)
(* The ids that the parts of the page share.                               *)
(***************************************************************************)
CONSTANTS
  Task,  \* ids of tasks, those still to be created included
  None   \* "no task", "nothing chosen"

ASSUME IdsAssumption == None \notin Task
==============================================================================
