---------------------------- MODULE DigestLedger ----------------------------
(***************************************************************************)
(* What daily_todo_notifications promises, whatever its workers live       *)
(* through.  A user has at most one digest for a local date.  It is opened *)
(* once, tried under numbered attempts and closed once; an attempt posts   *)
(* at most one message, and it is closed as "sent" only if one was taken.  *)
(***************************************************************************)
EXTENDS Naturals

CONSTANT Record   \* the pairs of a user and a local date

Closed == {"sent", "skipped", "cancelled", "dead"}

VARIABLES
  state,      \* "none", "open" or the way it was closed
  attempts,   \* attempts made
  delivered   \* the attempts whose message the webhook took

vars == <<state, attempts, delivered>>

Init ==
  /\ state = [r \in Record |-> "none"]
  /\ attempts = [r \in Record |-> 0]
  /\ delivered = [r \in Record |-> {}]

Create(r) ==
  /\ state[r] = "none"
  /\ state' = [state EXCEPT ![r] = "open"]
  /\ UNCHANGED <<attempts, delivered>>

Attempt(r) ==
  /\ state[r] = "open"
  /\ attempts' = [attempts EXCEPT ![r] = @ + 1]
  /\ UNCHANGED <<state, delivered>>

(***************************************************************************)
(* A worker that was slower than its lease may post when the digest is     *)
(* closed already, but only for an attempt that was made.                  *)
(***************************************************************************)
Deliver(r) ==
  /\ \E n \in (1 .. attempts[r]) \ delivered[r] :
       delivered' = [delivered EXCEPT ![r] = @ \cup {n}]
  /\ UNCHANGED <<state, attempts>>

Close(r, how) ==
  /\ state[r] = "open" /\ attempts[r] > 0
  /\ how = "sent" => delivered[r] # {}
  /\ state' = [state EXCEPT ![r] = how]
  /\ UNCHANGED <<attempts, delivered>>

Next ==
  \E r \in Record :
    Create(r) \/ Attempt(r) \/ Deliver(r) \/ \E how \in Closed : Close(r, how)

Spec == Init /\ [][Next]_vars
=============================================================================
