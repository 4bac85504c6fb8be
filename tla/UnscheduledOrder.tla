--------------------------- MODULE UnscheduledOrder ---------------------------
(***************************************************************************)
(* The order of the tasks without a time (App.tsx): a local list of ids    *)
(* that is moved by dragging rows or by buttons, and saved by patching     *)
(* the unscheduled_order of every task whose index changed.  One save runs *)
(* at a time; a move made meanwhile waits in "queued".                     *)
(*                                                                         *)
(* A list of ids is the set of the pairs <<a, b>> with a at or before b.   *)
(* An index counts the rows before.                                        *)
(*                                                                         *)
(* Rows are numbered in the order of their creation, which is how the      *)
(* server sorts tasks without a number.  known is tasksRef.current: it is  *)
(* assigned when the page renders, which is after the step that received   *)
(* an answer.                                                              *)
(***************************************************************************)
EXTENDS Naturals, FiniteSets

CONSTANTS
  Rows,      \* number of tasks
  MaxMoves   \* bound: moves of a row, drags to the calendar, failed patches,
             \* cancelled drags, tasks that get a time and changes of the view

ASSUME OrderAssumption == Rows \in Nat /\ MaxMoves \in Nat

Row == 1..Rows
NoRank == Rows          \* unscheduled_order is null: sorted last
NoOrder == {<<0, 0>>}   \* "nothing is queued"
Copy == [here: BOOLEAN, rank: 0..Rows, version: Nat]

VARIABLES
  unscheduledOrder, \* unscheduledOrderRef
  stored,           \* the tasks at the server
  writes,           \* number of the server's last write
  known,            \* the page's copies of the tasks
  listed,           \* ids of the unscheduled tasks, as last listed
  saveState,        \* unscheduledOrderSaveStateRef, and the running save's number
  patches,          \* PATCH requests under way, those of a save given up included
  listing,          \* a refresh of the tasks
  pointer,          \* taskRowPointerStateRef
  dragTargetMode,
  sortable,         \* the view shows the tasks without a time
  moves,            \* bound of the model
  lapses            \* history: what keeps a save from settling the order

orderVars == <<unscheduledOrder, stored, writes, known, listed, saveState, patches,
               listing, pointer, dragTargetMode, sortable, moves, lapses>>

\* The rows of an order, the place of one, and what makes a list of ids an order:
\* no row is in it twice.
In(order) == {r \in Row : <<r, r>> \in order}
Place(order, row) == Cardinality({r \in Row \ {row} : <<r, row>> \in order})

Places(order) == {[row |-> r, rank |-> Place(order, r)] : r \in In(order)}

IsOrder(order) ==
  /\ order \subseteq In(order) \X In(order)
  /\ \A a, b \in In(order) : <<a, b>> \in order \/ <<b, a>> \in order
  /\ \A a, b \in In(order) : <<a, b>> \in order /\ <<b, a>> \in order => a = b
  /\ \A a, b, c \in In(order) :
       <<a, b>> \in order /\ <<b, c>> \in order => <<a, c>> \in order

Orders == {order \in SUBSET (Row \X Row) : IsOrder(order)}

NoPointer == [row |-> 0, dragging |-> FALSE, orderAtStart |-> {}]
NoListing == [at |-> "idle", copies |-> <<>>]

OrderTypeOK ==
  /\ unscheduledOrder \in Orders /\ listed \in Orders
  /\ stored \in [Row -> Copy] /\ known \in [Row -> Copy]
  /\ writes \in Nat /\ \A r \in Row : stored[r].version <= writes
  /\ saveState \in [queued: Orders \cup {NoOrder}, saving: BOOLEAN, batch: Nat]
  /\ patches \subseteq [batch: 1..saveState.batch, row: Row, rank: 0..Rows - 1,
                        at: {"sent", "ok", "failed"}, version: 0..writes]
  /\ listing.at \in {"idle", "sent", "served"}
  /\ listing.at = "served" => listing.copies \in [Row -> Copy]
  /\ pointer \in {NoPointer} \cup [row: Row, dragging: BOOLEAN, orderAtStart: Orders]
  /\ dragTargetMode \in {"none", "reorder", "schedule"}

\* ORDER BY unscheduled_order, nulls last, then created_at.
ListingOrder(copies) ==
  LET here == {r \in Row : copies[r].here}
  IN {p \in here \X here :
        \/ copies[p[1]].rank < copies[p[2]].rank
        \/ copies[p[1]].rank = copies[p[2]].rank /\ p[1] <= p[2]}

\* Rows that are gone leave the order, new ones follow as they are listed.
reconcileTaskOrder(order, ids) ==
  LET kept == In(order) \cap In(ids)
      new == In(ids) \ kept
  IN (order \cap (kept \X kept)) \cup (kept \X new) \cup (ids \cap (new \X new))

\* The order with row taken out, and put behind the rows ahead.
PutBehind(ahead, order, row) ==
  LET rest == In(order) \ {row}
  IN (order \cap (rest \X rest)) \cup {<<row, row>>}
       \cup (ahead \X {row}) \cup ({row} \X (rest \ ahead))

AheadOf(order, row, target, position) ==
  {r \in In(order) \ {row} :
     target \in In(order) => <<r, target>> \in order /\ (r = target => position = "after")}

MovedTwice(order, row, target, position) ==   \* mutant: the row also stays where it was
  IF row = target THEN order
  ELSE order \cup PutBehind(AheadOf(order, row, target, position), order, row)

moveTaskIdRelative(order, row, target, position) ==
  IF row = target THEN order
  ELSE PutBehind(AheadOf(order, row, target, position), order, row)

moveTaskIdToTop(order, row) ==
  IF row \in In(order) THEN PutBehind({}, order, row) ELSE order

\* Two neighbours change their places.
Neighbours(order, a, b) ==
  /\ a # b /\ <<a, b>> \in order
  /\ \A c \in In(order) \ {a, b} : ~ (<<a, c>> \in order /\ <<c, b>> \in order)

Swap(order, a, b) == (order \ {<<a, b>>}) \cup {<<b, a>>}

\* The unscheduled tasks among the page's copies, as they were listed.
Unscheduled(copies, ids) == {p \in ids : copies[p[1]].here /\ copies[p[2]].here}

UpdatesUpwards(order, copies, ids) ==   \* mutant: only rows that moved up
  LET wanted == reconcileTaskOrder(order, Unscheduled(copies, ids))
  IN {u \in Places(wanted) : u.rank < copies[u.row].rank}

\* The tasks whose number differs from their place in the order.
buildUnscheduledOrderUpdates(order, copies, ids) ==
  LET wanted == reconcileTaskOrder(order, Unscheduled(copies, ids))
  IN {u \in Places(wanted) : u.rank # copies[u.row].rank}

\* Some tasks have no time, and are numbered; the others are scheduled.
OrderInit ==
  /\ \E n \in 0..Rows :
       /\ unscheduledOrder = {p \in (1..n) \X (1..n) : p[1] <= p[2]}
       /\ stored = [r \in Row |-> [here |-> r <= n, version |-> 0,
                                   rank |-> IF r <= n THEN r - 1 ELSE NoRank]]
  /\ writes = 0
  /\ known = stored
  /\ listed = unscheduledOrder
  /\ saveState = [queued |-> NoOrder, saving |-> FALSE, batch |-> 0]
  /\ patches = {}
  /\ listing = NoListing
  /\ pointer = NoPointer
  /\ dragTargetMode = "none"
  /\ sortable = TRUE
  /\ moves \in 0..MaxMoves
  /\ lapses = {}
-----------------------------------------------------------------------------
(* Saving.                                                                 *)

Move == moves < MaxMoves /\ moves' = moves + 1
Slip(name) == Move /\ lapses' = lapses \cup {name}

Batch(order, number) ==
  {[batch |-> number, row |-> u.row, rank |-> u.rank, at |-> "sent", version |-> 0] :
     u \in buildUnscheduledOrderUpdates(order, known, listed)}

SaveLoopLeavesQueue(order, others) ==   \* mutant: the loop ends with a queue
  LET batch == Batch(order, saveState.batch + 1)
  IN IF order = NoOrder \/ batch = {}
     THEN /\ saveState' = [saveState EXCEPT !.saving = FALSE]
          /\ patches' = others
     ELSE /\ saveState' = [queued |-> NoOrder, saving |-> TRUE,
                           batch |-> saveState.batch + 1]
          /\ patches' = others \cup batch

\* One turn of the loop: it saves what is queued, unless nothing changed.
SaveLoop(order, others) ==
  LET batch == Batch(order, saveState.batch + 1)
  IN IF order = NoOrder \/ batch = {}
     THEN /\ saveState' = [saveState EXCEPT !.queued = NoOrder, !.saving = FALSE]
          /\ patches' = others
     ELSE /\ saveState' = [queued |-> NoOrder, saving |-> TRUE,
                           batch |-> saveState.batch + 1]
          /\ patches' = others \cup batch

persistUnscheduledOrder(order) ==
  IF saveState.saving
  THEN /\ saveState' = [saveState EXCEPT !.queued = order]
       /\ lapses' = lapses \cup {"overlap"}
       /\ UNCHANGED patches
  ELSE SaveLoop(order, patches) /\ UNCHANGED lapses

Current == {p \in patches : p.batch = saveState.batch}

\* The server takes a patch; the answer to one of a save given up is nobody's.
PatchServed(p) ==
  /\ p \in patches /\ p.at = "sent"
  /\ writes' = writes + 1
  /\ stored' = [stored EXCEPT ![p.row].rank = p.rank, ![p.row].version = writes']
  /\ patches' = (patches \ {p}) \cup
                  IF saveState.saving /\ p \in Current
                  THEN {[p EXCEPT !.at = "ok", !.version = writes']} ELSE {}
  /\ UNCHANGED <<unscheduledOrder, known, listed, saveState, listing, pointer,
                 dragTargetMode, sortable, moves, lapses>>

PatchFails(p) ==
  /\ p \in patches /\ p.at = "sent"
  /\ Slip("failure")
  /\ patches' = (patches \ {p}) \cup
                  IF saveState.saving /\ p \in Current
                  THEN {[p EXCEPT !.at = "failed"]} ELSE {}
  /\ UNCHANGED <<unscheduledOrder, stored, writes, known, listed, saveState, listing,
                 pointer, dragTargetMode, sortable>>

\* All patches are answered: their copies are set, and rendered after the loop
\* has taken its next turn.  A local order that was dropped comes back with them.
SaveAnswered ==
  /\ saveState.saving
  /\ \A p \in Current : p.at = "ok"
  /\ known' = [r \in Row |-> IF \E p \in Current : p.row = r
                             THEN LET p == CHOOSE q \in Current : q.row = r
                                  IN [known[r] EXCEPT !.rank = p.rank,
                                                      !.version = p.version]
                             ELSE known[r]]
  /\ unscheduledOrder' = reconcileTaskOrder(unscheduledOrder, Unscheduled(known', listed))
  /\ SaveLoop(saveState.queued, patches \ Current)
  /\ UNCHANGED <<stored, writes, listed, listing, pointer, dragTargetMode, sortable,
                 moves, lapses>>

SaveFailsOnAll ==   \* mutant: the save is given up only when every patch failed
  /\ saveState.saving
  /\ \A p \in Current : p.at = "failed"
  /\ unscheduledOrder' = {}
  /\ listing' = [NoListing EXCEPT !.at = "sent"]
  /\ SaveLoop(saveState.queued, {p \in patches : p.at = "sent"})
  /\ UNCHANGED <<stored, writes, known, listed, pointer, dragTargetMode, sortable,
                 moves, lapses>>

\* The first failure gives the save up: the local order is dropped and the tasks
\* are listed again, while the other patches go on.
SaveFails ==
  /\ saveState.saving
  /\ \E p \in Current : p.at = "failed"
  /\ unscheduledOrder' = {}
  /\ listing' = [NoListing EXCEPT !.at = "sent"]
  /\ SaveLoop(saveState.queued, {p \in patches : p.at = "sent"})
  /\ UNCHANGED <<stored, writes, known, listed, pointer, dragTargetMode, sortable,
                 moves, lapses>>
-----------------------------------------------------------------------------
(* Listings, and tasks that get a time.                                    *)

RefreshSent ==
  /\ listing.at = "idle"
  /\ known # stored
  /\ listing' = [NoListing EXCEPT !.at = "sent"]
  /\ UNCHANGED <<unscheduledOrder, stored, writes, known, listed, saveState, patches,
                 pointer, dragTargetMode, sortable, moves, lapses>>

RefreshServed ==
  /\ listing.at = "sent"
  /\ listing' = [at |-> "served", copies |-> stored]
  /\ UNCHANGED <<unscheduledOrder, stored, writes, known, listed, saveState, patches,
                 pointer, dragTargetMode, sortable, moves, lapses>>

\* The local order stays; tasks that are gone leave it, new ones are appended.
RefreshAnswered ==
  /\ listing.at = "served"
  /\ known' = [r \in Row |-> IF listing.copies[r].version >= known[r].version
                             THEN listing.copies[r] ELSE known[r]]
  /\ listed' = ListingOrder([r \in Row |-> [listing.copies[r] EXCEPT
                                              !.here = known'[r].here]])
  /\ unscheduledOrder' = reconcileTaskOrder(unscheduledOrder, listed')
  /\ listing' = NoListing
  /\ UNCHANGED <<stored, writes, saveState, patches, pointer, dragTargetMode, sortable,
                 moves, lapses>>

\* A task is scheduled here or on another device: its number is cleared.
GetsTime(r) ==
  /\ stored[r].here
  /\ Slip("scheduled")
  /\ writes' = writes + 1
  /\ stored' = [stored EXCEPT ![r] = [here |-> FALSE, rank |-> NoRank,
                                      version |-> writes']]
  /\ UNCHANGED <<unscheduledOrder, known, listed, saveState, patches, listing, pointer,
                 dragTargetMode, sortable>>
-----------------------------------------------------------------------------
(* Moving rows.  There is one pointer: no button is pressed in a drag.   *)

Shown(r) == known[r].here

applyLocalUnscheduledOrder(order) ==
  /\ Move
  /\ order # unscheduledOrder
  /\ unscheduledOrder' = order

Rest == <<stored, writes, known, listed, listing, sortable>>

MoveToTop(r) ==
  /\ sortable /\ Shown(r) /\ pointer = NoPointer
  /\ applyLocalUnscheduledOrder(moveTaskIdToTop(unscheduledOrder, r))
  /\ persistUnscheduledOrder(unscheduledOrder')
  /\ UNCHANGED <<Rest, pointer, dragTargetMode>>

MoveByOffset(a, b) ==
  /\ sortable /\ pointer = NoPointer
  /\ Neighbours(unscheduledOrder, a, b)
  /\ applyLocalUnscheduledOrder(Swap(unscheduledOrder, a, b))
  /\ persistUnscheduledOrder(unscheduledOrder')
  /\ UNCHANGED <<Rest, pointer, dragTargetMode>>

handleTaskRowPointerDown(r) ==
  /\ Shown(r) /\ pointer = NoPointer
  /\ pointer' = [row |-> r, dragging |-> FALSE, orderAtStart |-> unscheduledOrder]
  /\ dragTargetMode' = "none"
  /\ UNCHANGED <<unscheduledOrder, saveState, patches, moves, lapses, Rest>>

\* The handle that drags a row to the calendar keeps the press from the row.
startScheduleDragHighlight(r) ==
  /\ Shown(r) /\ pointer = NoPointer /\ dragTargetMode # "schedule"
  /\ Move
  /\ dragTargetMode' = "schedule"
  /\ UNCHANGED <<unscheduledOrder, saveState, patches, pointer, lapses, Rest>>

endScheduleDragHighlight ==
  /\ dragTargetMode = "schedule"
  /\ dragTargetMode' = "none"
  /\ UNCHANGED <<unscheduledOrder, saveState, patches, pointer, moves, lapses, Rest>>

\* The row follows the pointer to a place before the first row below it, or
\* after the last one.
moveTaskRowDuringDrag(target, position) ==
  /\ pointer # NoPointer /\ sortable /\ dragTargetMode # "schedule"
  /\ Shown(target) /\ target # pointer.row
  /\ applyLocalUnscheduledOrder(
       moveTaskIdRelative(unscheduledOrder, pointer.row, target, position))
  /\ pointer' = [pointer EXCEPT !.dragging = TRUE]
  /\ dragTargetMode' = "reorder"
  /\ UNCHANGED <<saveState, patches, lapses, Rest>>

finishTaskRowPointerInteraction ==
  /\ pointer # NoPointer
  /\ dragTargetMode' = IF pointer.dragging THEN "none" ELSE dragTargetMode
  /\ IF pointer.dragging /\ pointer.orderAtStart # unscheduledOrder
     THEN persistUnscheduledOrder(unscheduledOrder)
     ELSE UNCHANGED <<saveState, patches, lapses>>
  /\ pointer' = NoPointer
  /\ UNCHANGED <<unscheduledOrder, moves, Rest>>

\* The browser takes the pointer away: the rows stay where they were dragged.
PointerCancel ==
  /\ pointer # NoPointer
  /\ Slip("cancel")
  /\ pointer' = NoPointer
  /\ dragTargetMode' = "none"
  /\ UNCHANGED <<unscheduledOrder, stored, writes, known, listed, saveState, patches,
                 listing, sortable>>

ChangeView ==
  /\ Move
  /\ sortable' = ~ sortable
  /\ UNCHANGED <<unscheduledOrder, stored, writes, known, listed, saveState, patches,
                 listing, pointer, dragTargetMode, lapses>>
-----------------------------------------------------------------------------
SaveStep == \/ \E p \in patches : PatchServed(p) \/ PatchFails(p)
            \/ SaveAnswered \/ SaveFails

OrderNext ==
  \/ SaveStep
  \/ RefreshSent \/ RefreshServed \/ RefreshAnswered
  \/ \E r \in Row : \/ GetsTime(r) \/ MoveToTop(r)
                    \/ handleTaskRowPointerDown(r) \/ startScheduleDragHighlight(r)
                    \/ \E position \in {"before", "after"} :
                         moveTaskRowDuringDrag(r, position)
  \/ \E a, b \in Row : MoveByOffset(a, b)
  \/ endScheduleDragHighlight
  \/ finishTaskRowPointerInteraction \/ PointerCancel
  \/ ChangeView

OrderSpec == OrderInit /\ [][OrderNext]_orderVars
OrderFairness == WF_orderVars(SaveStep)
-----------------------------------------------------------------------------
Quiet == /\ ~ saveState.saving /\ patches = {} /\ pointer = NoPointer
         /\ known = stored /\ listing = NoListing

\* Moves that were saved one after the other are in the server's order: neither a
\* patch nor a move is missing, and no two tasks claim the same place.  A save that
\* overlaps another move, fails or is cancelled is exempted (see OrderPersists).
OrderReachesServer ==
  Quiet /\ lapses = {} => ListingOrder(stored) = unscheduledOrder

\* A move made during a save does not wait for ever, and nothing is queued while no
\* save runs that would take it: the loop looks at the queue before it ends.
NothingStranded == saveState.queued # NoOrder => saveState.saving
SavesEnd == saveState.saving ~> ~ saveState.saving

\* The order of the tasks without a time persists through the backend
\* (docs/progress.md), also when moves follow each other faster than they are saved.
OrderPersists ==
  Quiet /\ lapses \subseteq {"overlap"} => ListingOrder(stored) = unscheduledOrder
==============================================================================
