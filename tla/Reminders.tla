------------------------------ MODULE Reminders ------------------------------
(***************************************************************************)
(* The reminders of single tasks: a sweep of the notification thread       *)
(* (send_due_notifications) selects what has not been reminded of, posts   *)
(* to Discord what is due, one task after the other, and marks each as     *)
(* sent; meanwhile the user changes, completes and deletes the tasks, and  *)
(* a change of the schedule may take the mark away.                        *)
(*                                                                         *)
(* An instant is when a reminder is due: the start of its task minus the   *)
(* offset.  A task is wanted while its notification is enabled and it is   *)
(* not completed.  All tasks have a time and belong to one user.           *)
(***************************************************************************)
EXTENDS Naturals

CONSTANTS
  Todo,        \* tasks
  NoInstant,   \* the task has no scheduled_start
  MaxClock,    \* bound: the clock stops there
  MaxSaves,    \* bound: what the user does
  MaxMisses    \* bound: posts that fail, restarts

ASSUME ReminderAssumption ==
  /\ MaxClock \in Nat /\ MaxSaves \in Nat /\ MaxMisses \in Nat
  /\ NoInstant \notin Nat

Instant == 0..MaxClock
AnyInstant == Instant \cup {NoInstant}

VARIABLES
  items,      \* scheduled_tasks
  webhook,    \* discord_webhook_url of the settings: "set" or "none"
  clock,
  sweep,      \* the sweep under way
  posts,      \* history: how often each instant of a task was posted, up to 2
  slips,      \* history: what is not promised, see ReminderInit
  allowance   \* bounds of the model

reminderVars == <<items, webhook, clock, sweep, posts, slips, allowance>>

Absent(state) == [state |-> state, wanted |-> FALSE, at |-> NoInstant, sent |-> FALSE]

(***************************************************************************)
(* now is when the sweep began; todo the tasks still to visit; seen the    *)
(* instants it has loaded, none for what a commit has made expire; hook    *)
(* the webhook it has loaded; task the one it is posting.                  *)
(***************************************************************************)
Unseen == [t \in Todo |-> NoInstant]
Resting == [phase |-> "rest", now |-> 0, todo |-> {}, seen |-> Unseen, hook |-> "unread",
            task |-> {}]

(***************************************************************************)
(* slips.lost: tasks whose instant was changed in a way that leaves the    *)
(* mark (Keeps), or while the sweep held an older one (Held);              *)
(* slips.unrecorded: posts that arrived but were not marked;               *)
(* slips.returned: instants that were past when an unmarked task got them. *)
(***************************************************************************)
ReminderInit ==
  /\ items \in [Todo -> [state: {"live"}, wanted: {TRUE}, at: AnyInstant, sent: {FALSE}]
                        \cup {Absent("new")}]
  /\ webhook \in {"set", "none"}
  /\ clock = 0
  /\ sweep = Resting
  /\ posts = [e \in Todo \X Instant |-> 0]
  /\ slips = [lost |-> {}, unrecorded |-> {}, returned |-> {}]
  /\ allowance \in [saves: 0..MaxSaves, misses: 0..MaxMisses]

SaveLeft == allowance.saves > 0 /\ allowance' = [allowance EXCEPT !.saves = @ - 1]
MissLeft == allowance.misses > 0 /\ allowance' = [allowance EXCEPT !.misses = @ - 1]
-----------------------------------------------------------------------------
\* mutant: an instant that is past by now counts as rescheduled, too.
RescheduledAnyTime(old, new, scheduled) ==
  /\ scheduled /\ old.sent /\ new.wanted
  /\ NoInstant \notin {old.at, new.at} /\ new.at # old.at

\* reset_notification_sent_at_if_rescheduled; scheduled is schedule_update_requested.
Rescheduled(old, new, scheduled) ==
  /\ scheduled /\ old.sent /\ new.wanted
  /\ NoInstant \notin {old.at, new.at} /\ new.at # old.at
  /\ new.at > clock

\* Of a task that is marked, each of these keeps the mark although the instant changes.
Keeps(old, new, scheduled) ==
  /\ old.sent
  /\ \/ ~scheduled \/ ~new.wanted
     \/ NoInstant \in {old.at, new.at} \/ new.at \in 0..clock

\* The sweep is going to post, or is posting, what it has loaded of the task.
Held(t) == t \in sweep.todo \cup sweep.task /\ sweep.seen[t] \in 0..sweep.now

(***************************************************************************)
(* apply_task_updates and its commit: the task becomes new.  Without a     *)
(* field of the schedule only the offset can move the instant of a task    *)
(* that has one.                                                           *)
(***************************************************************************)
SaveAs(t, new, scheduled) ==
  LET old == items[t]
      sent == old.sent /\ ~Rescheduled(old, new, scheduled)
      moved == new.at # old.at
  IN /\ scheduled \/ (new.at = NoInstant <=> old.at = NoInstant)
     /\ items' = [items EXCEPT ![t] = [new EXCEPT !.sent = sent]]
     /\ slips' = [slips EXCEPT
          !.lost = IF moved /\ (Held(t) \/ Keeps(old, new, scheduled)) THEN @ \cup {t}
                   ELSE IF sent \/ Held(t) THEN @ ELSE @ \ {t},
          !.returned = IF moved /\ ~old.sent /\ new.at \in 0..clock
                       THEN @ \cup {<<t, new.at>>} ELSE @]

SaveItem(t) ==
  /\ items[t].state = "live" /\ SaveLeft
  /\ \E wanted, scheduled \in BOOLEAN, at \in AnyInstant :
       SaveAs(t, [items[t] EXCEPT !.wanted = wanted, !.at = at], scheduled)
  /\ UNCHANGED <<webhook, clock, sweep, posts>>

AddItem(t) ==
  /\ items[t].state = "new" /\ SaveLeft
  /\ \E wanted \in BOOLEAN, at \in AnyInstant :
       items' = [items EXCEPT ![t] = [state |-> "live", wanted |-> wanted, at |-> at,
                                      sent |-> FALSE]]
  /\ UNCHANGED <<webhook, clock, sweep, posts, slips>>

DropItem(t) ==
  /\ items[t].state = "live" /\ SaveLeft
  /\ items' = [items EXCEPT ![t] = Absent("gone")]
  /\ UNCHANGED <<webhook, clock, sweep, posts, slips>>

SetWebhook ==
  /\ SaveLeft
  /\ webhook' = IF webhook = "set" THEN "none" ELSE "set"
  /\ UNCHANGED <<items, clock, sweep, posts, slips>>

Later ==
  /\ clock < MaxClock
  /\ clock' = clock + 1
  /\ UNCHANGED <<items, webhook, sweep, posts, slips, allowance>>
-----------------------------------------------------------------------------
Selected == {t \in Todo : /\ items[t].state = "live" /\ items[t].wanted
                          /\ ~items[t].sent /\ items[t].at # NoInstant}

StartSweep ==
  /\ sweep.phase = "rest"
  /\ sweep' = [Resting EXCEPT
       !.phase = "turn", !.now = clock, !.todo = Selected,
       !.seen = [t \in Todo |-> IF t \in Selected THEN items[t].at ELSE NoInstant]]
  /\ UNCHANGED <<items, webhook, clock, posts, slips, allowance>>

EndSweep ==
  /\ sweep.phase = "turn" /\ sweep.todo = {}
  /\ sweep' = Resting
  /\ UNCHANGED <<items, webhook, clock, posts, slips, allowance>>

IsDueJustNow(at) == at = sweep.now   \* mutant: what was due earlier is passed over
IsDue(at) == at \in 0..sweep.now

(***************************************************************************)
(* The next task.  What a commit has made expire is read again, but        *)
(* whether the task still is to be reminded of is not looked at again.  A  *)
(* task that is gone by then ends the sweep with an error.                 *)
(***************************************************************************)
Loaded(t) == IF sweep.seen[t] = NoInstant THEN items[t].at ELSE sweep.seen[t]
Hook == IF sweep.hook = "unread" THEN webhook ELSE sweep.hook

TakeTurn(t) ==
  /\ sweep.phase = "turn" /\ t \in sweep.todo
  /\ sweep.seen[t] # NoInstant \/ items[t].state = "live"
  /\ LET posting == IsDue(Loaded(t)) /\ Hook = "set"
     IN sweep' = [sweep EXCEPT
          !.todo = @ \ {t}, !.hook = Hook,
          !.phase = IF posting THEN "post" ELSE "turn",
          !.task = IF posting THEN {t} ELSE {},
          !.seen[t] = IF posting THEN Loaded(t) ELSE NoInstant]
  /\ UNCHANGED <<items, webhook, clock, posts, slips, allowance>>

Vanishes(t) ==
  /\ sweep.phase = "turn" /\ t \in sweep.todo
  /\ sweep.seen[t] = NoInstant /\ items[t].state = "gone"
  /\ sweep' = Resting
  /\ UNCHANGED <<items, webhook, clock, posts, slips, allowance>>

PostedOf(t) == [posts EXCEPT ![<<t, sweep.seen[t]>>] = IF @ = 0 THEN 1 ELSE 2]

Post(t) ==
  /\ sweep.phase = "post" /\ t \in sweep.task
  /\ posts' = PostedOf(t)
  /\ sweep' = [sweep EXCEPT !.phase = "mark"]
  /\ UNCHANGED <<items, webhook, clock, slips, allowance>>

PostMissesMarked(t) ==   \* mutant: what failed is marked, too
  /\ sweep.phase = "post" /\ t \in sweep.task /\ MissLeft
  /\ sweep' = [sweep EXCEPT !.phase = "mark"]
  /\ UNCHANGED <<items, webhook, clock, posts, slips>>

\* The post fails, or arrives and its answer does not: the sweep goes on.
PostMisses(t) ==
  /\ sweep.phase = "post" /\ t \in sweep.task /\ MissLeft
  /\ sweep' = [sweep EXCEPT !.phase = "turn", !.task = {}, !.seen[t] = NoInstant]
  /\ \/ UNCHANGED <<posts, slips>>
     \/ /\ posts' = PostedOf(t)
        /\ slips' = [slips EXCEPT !.unrecorded = @ \cup {<<t, sweep.seen[t]>>}]
  /\ UNCHANGED <<items, webhook, clock>>

(***************************************************************************)
(* The mark is committed, whatever the task has become since; the commit   *)
(* makes everything loaded expire.  The row of a task that is gone cannot  *)
(* be updated, which ends the sweep.                                       *)
(***************************************************************************)
Mark(t) ==
  /\ sweep.phase = "mark" /\ t \in sweep.task
  /\ \/ /\ items[t].state = "live"
        /\ items' = [items EXCEPT ![t].sent = TRUE]
        /\ sweep' = [sweep EXCEPT !.phase = "turn", !.task = {}, !.seen = Unseen,
                                  !.hook = "unread"]
     \/ /\ items[t].state = "gone"
        /\ sweep' = Resting /\ UNCHANGED items
  /\ UNCHANGED <<webhook, clock, posts, slips, allowance>>

\* The backend is stopped and started again.
Restart ==
  /\ sweep.phase # "rest" /\ MissLeft
  /\ sweep' = Resting
  /\ slips' = [slips EXCEPT !.unrecorded =
       IF sweep.phase = "mark" THEN @ \cup {<<t, sweep.seen[t]>> : t \in sweep.task} ELSE @]
  /\ UNCHANGED <<items, webhook, clock, posts>>
-----------------------------------------------------------------------------
SweepStep ==
  \/ StartSweep \/ EndSweep
  \/ \E t \in Todo : TakeTurn(t) \/ Vanishes(t) \/ Post(t) \/ PostMisses(t) \/ Mark(t)

ReminderNext ==
  \/ SweepStep \/ Restart \/ Later \/ SetWebhook
  \/ \E t \in Todo : SaveItem(t) \/ AddItem(t) \/ DropItem(t)

ReminderSpec == ReminderInit /\ [][ReminderNext]_reminderVars
-----------------------------------------------------------------------------
\* The tasks, the sweep and the history keep their types.
ReminderTypeOK ==
  /\ items \in [Todo -> [state: {"new", "live", "gone"}, wanted: BOOLEAN, at: AnyInstant,
                         sent: BOOLEAN]]
  /\ webhook \in {"set", "none"} /\ clock \in Instant
  /\ sweep \in [phase: {"rest", "turn", "post", "mark"}, now: Instant, todo: SUBSET Todo,
                seen: [Todo -> AnyInstant], hook: {"unread", "set", "none"},
                task: SUBSET Todo]
  /\ posts \in [Todo \X Instant -> 0..2]
  /\ slips \in [lost: SUBSET Todo, unrecorded: SUBSET (Todo \X Instant),
                returned: SUBSET (Todo \X Instant)]

(***************************************************************************)
(* A task that is marked as reminded of has had a reminder of the instant  *)
(* it has now: no failed post, no other task and no commit in between sets *)
(* the mark.  Exempt is a task whose instant moved under the mark or under *)
(* the hands of the sweep, until the mark is taken away again.             *)
(***************************************************************************)
MarkedWasPosted ==
  \A t \in Todo :
    items[t].sent /\ items[t].at # NoInstant /\ t \notin slips.lost
      => posts[<<t, items[t].at>>] > 0

(***************************************************************************)
(* No reminder comes twice for one instant, unless the first one was not   *)
(* recorded, or the user gave a task whose mark was gone an instant that   *)
(* was past.                                                               *)
(***************************************************************************)
RemindedOnce ==
  \A e \in Todo \X Instant :
    posts[e] > 1 => e \in slips.unrecorded \cup slips.returned

(***************************************************************************)
(* A reminder that is due is posted or not wanted any more: no task is     *)
(* passed over for ever, whatever becomes of the tasks before it.          *)
(***************************************************************************)
Waits(t) == t \in Selected /\ items[t].at \in 0..clock /\ webhook = "set"
DueReminded == \A t \in Todo : Waits(t) ~> ~Waits(t)
=============================================================================
