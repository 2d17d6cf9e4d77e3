-------------------------- MODULE SessionContract --------------------------
(***************************************************************************)
(* What a sync promises, whatever its plan, its checkpoints and its        *)
(* restarts: it collects things in an order in which nothing comes before  *)
(* what it depends on, and it is done only when it has everything that was *)
(* asked for from its start to its end.                                    *)
(***************************************************************************)
EXTENDS Naturals

CONSTANTS
    Items,     \* everything a sync can collect
    Rank(_)    \* the stage of an item

VARIABLES collected, steady, done

vars == <<collected, steady, done>>

Init ==
    /\ collected = {}
    /\ steady \in SUBSET Items
    /\ done = FALSE

New == collected' \ collected

(* Items of one stage, after every lasting item of the stages before it.     *)
Collect ==
    /\ ~done
    /\ collected \subseteq collected' /\ collected' \subseteq Items
    /\ \A i \in New, j \in steady : Rank(j) < Rank(i) => j \in collected
    /\ \A i, j \in New : Rank(i) = Rank(j)
    /\ UNCHANGED <<steady, done>>

(* A new configuration no longer asks for everything. *)
Narrow ==
    /\ ~done
    /\ steady' \subseteq steady
    /\ UNCHANGED <<collected, done>>

(* An old sync is thrown away, and another one begins. *)
StartOver ==
    /\ ~done
    /\ collected' = {}
    /\ steady' \subseteq Items
    /\ UNCHANGED done

Finish ==
    /\ ~done
    /\ steady \subseteq collected
    /\ done' = TRUE
    /\ UNCHANGED <<collected, steady>>

Next == Collect \/ Narrow \/ StartOver \/ Finish

Spec == Init /\ [][Next]_vars
=============================================================================
