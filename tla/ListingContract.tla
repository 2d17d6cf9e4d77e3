-------------------------- MODULE ListingContract --------------------------
(***************************************************************************)
(* What a listing promises, whatever the paging: while other clients       *)
(* insert and delete rows, a sync collects rows that exist or existed, in  *)
(* batches, and reports the end only when every row that was there all     *)
(* along has been collected.                                               *)
(***************************************************************************)
CONSTANT Keys

VARIABLES
    rows,    \* the table
    stable,  \* rows that were in the table at every moment since the start
    ever,    \* rows that were in the table at some moment since the start
    store,   \* rows collected so far
    done     \* the listing has reported its end

vars == <<rows, stable, ever, store, done>>

Init ==
    /\ rows \in SUBSET Keys
    /\ stable = rows /\ ever = rows
    /\ store = {} /\ done = FALSE

Insert(r) ==
    /\ rows' = rows \cup {r} /\ ever' = ever \cup {r}
    /\ UNCHANGED <<stable, store, done>>

Delete(r) ==
    /\ rows' = rows \ {r} /\ stable' = stable \ {r}
    /\ UNCHANGED <<ever, store, done>>

Collect(batch) ==
    /\ ~done
    /\ store' = store \cup batch
    /\ UNCHANGED <<rows, stable, ever, done>>

Finish ==
    /\ ~done
    /\ stable \subseteq store
    /\ done' = TRUE
    /\ UNCHANGED <<rows, stable, ever, store>>

Next ==
    \/ \E r \in Keys : Insert(r) \/ Delete(r)
    \/ \E batch \in SUBSET ever : Collect(batch)
    \/ Finish

Spec == Init /\ [][Next]_vars
=============================================================================
