-------------------------- MODULE MCRollupManager --------------------------
(***************************************************************************)
(* Schedules for model checking the rollup manager.                        *)
(***************************************************************************)
EXTENDS RollupManagerInvariant, Sequences

\* Three versions, the last of which runs without a stop height.
MCStop == [v \in 0 .. 2 |-> CASE v = 0 -> 2 [] v = 1 -> 4 [] v = 2 -> None]

\* Three versions that all stop; a config file that lists fewer still ends with
\* one that does not.
MCStopEach == [v \in 0 .. 2 |-> CASE v = 0 -> 2 [] v = 1 -> 4 [] v = 2 -> 5]

\* Two versions that both stop, so that the manager can complete them all.
MCStopAll == [v \in 0 .. 1 |-> IF v = 0 THEN 2 ELSE 3]

\* The config files the operator goes through: the first k versions, the k-th
\* without a stop height unless it is the last.
Config == INSTANCE ManagerConfig WITH
    W <- 3, MaxVersions <- N, config <- <<>>, verdict <- None

ConfigFile(k) ==
    [i \in 1 .. k |->
        [start |-> IF i = 1 THEN None ELSE Stop[i - 2] + 1,
         stop  |-> IF i = k /\ k < N THEN None ELSE Stop[i - 1]]]

\* The manager only ever runs with a config that validate accepts.
ASSUME ScheduleIsValid ==
    \A k \in 1 .. N, build \in Config!Builds :
        Config!Validate(ConfigFile(k), build) = Config!Ok

=============================================================================
