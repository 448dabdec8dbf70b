------------------------- MODULE MCSoakCoordinator -------------------------
(***************************************************************************)
(* A test case for model checking the soak coordinator.                    *)
(***************************************************************************)
EXTENDS SoakCoordinator

\* Versions that are just long enough for their workers to be started and stopped.
MCStop == [k \in 0 .. K - 1 |-> 7 * (k + 1)]

=============================================================================
