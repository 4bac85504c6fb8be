---------------------------- MODULE MCPageTasks ----------------------------
(***************************************************************************)
(* Instances of TaskStore and UnscheduledOrder for TLC, two models of the  *)
(* page's tasks side by side: part says which one a behaviour is about,    *)
(* the other one stays as it began.                                        *)
(***************************************************************************)
EXTENDS TaskStore, UnscheduledOrder

CONSTANTS
  Parts,         \* the models to explore
  RowsAndMoves   \* numbers of rows to begin with, and of moves that follow

TwoAndThreeRows == {<<2, 3>>, <<3, 2>>}

VARIABLE part

\* The store begins with a stored token (a logout leads to the other beginning);
\* one that stays as it began has none.
Init == /\ part \in Parts
        /\ StoreInit /\ OrderInit
        /\ authToken = (part = "store")
        /\ <<Cardinality(In(unscheduledOrder)), MaxMoves - moves>> \in
             IF part = "order" THEN RowsAndMoves ELSE {<<0, 0>>}

Next == /\ UNCHANGED part
        /\ \/ part = "store" /\ StoreNext /\ UNCHANGED orderVars
           \/ part = "order" /\ OrderNext /\ UNCHANGED storeVars

Spec == Init /\ [][Next]_<<part, storeVars, orderVars>>

\* What stays as it began has nothing to be fair to.
FairSpec == Spec /\ StoreFairness /\ OrderFairness
=============================================================================
