--------------------------- MODULE ManagerProcess ---------------------------
(***************************************************************************)
(* A rollup manager as whoever started it sees it: a process that has at   *)
(* most one node of its own, and that leaves none running when it ends on  *)
(* its own account.  Only a manager that is killed leaves a node behind.   *)
(* RollupManager implements this; the upgrade simulator is built on it.    *)
(***************************************************************************)

CONSTANTS
    None,       \* no exit status yet
    BySignal    \* exit status of a killed process

VARIABLES
    up,         \* the process runs
    node,       \* a node of its own is alive
    left,       \* a node of an earlier manager is alive
    status      \* exit status of the last manager process

vars == <<up, node, left, status>>

Init == up = FALSE /\ node = FALSE /\ left = FALSE /\ status = None

Start ==
    /\ ~up
    /\ up' = TRUE
    /\ status' = None
    /\ UNCHANGED <<node, left>>

LaunchNode ==
    /\ up
    /\ ~node
    /\ node' = TRUE
    /\ UNCHANGED <<up, left, status>>

NodeEnds ==
    /\ node
    /\ node' = FALSE
    /\ UNCHANGED <<up, left, status>>

\* It ends by itself; with status 0 only after its node has ended by itself.
End ==
    /\ up
    /\ up' = FALSE
    /\ node' = FALSE
    /\ status' \notin {None, BySignal}
    /\ status' = 0 => ~node
    /\ UNCHANGED left

Die ==
    /\ up
    /\ up' = FALSE
    /\ node' = FALSE
    /\ status' = BySignal
    /\ left' \in {left, left \/ node}

LeftNodeEnds ==
    /\ left
    /\ left' = FALSE
    /\ UNCHANGED <<up, node, status>>

Next == Start \/ LaunchNode \/ NodeEnds \/ End \/ Die \/ LeftNodeEnds

Spec == Init /\ [][Next]_vars

=============================================================================
