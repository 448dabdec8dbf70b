-------------------------- MODULE UpgradeSequence --------------------------
(***************************************************************************)
(* What the rollup manager with a checkpoint file promises, whatever       *)
(* crashes, restarts and failures happen on the way: the chain's storage   *)
(* is worked on by the nodes of one version at a time, versions follow one *)
(* another in the order of the config without a gap or a way back, and the *)
(* next version takes over only when no node runs and the chain has come   *)
(* within the slack of the stop height.                                    *)
(***************************************************************************)
EXTENDS Integers

CONSTANTS N, Stop, Slack

VARIABLES
    version,    \* the version whose turn it is
    active,     \* the versions of which a node is running
    height      \* rollup height of the chain

vars == <<version, active, height>>

Init ==
    /\ version = 0
    /\ active = {}
    /\ height = 0

StartNode ==
    /\ active = {}
    /\ active' = {version}
    /\ UNCHANGED <<version, height>>

ProduceBlock ==
    /\ active # {}
    /\ height' = height + 1
    /\ UNCHANGED <<version, active>>

StopNode ==
    /\ active' = {}
    /\ UNCHANGED <<version, height>>

Upgrade ==
    /\ active = {}
    /\ version < N - 1
    /\ Stop[version] <= height + Slack
    /\ version' = version + 1
    /\ UNCHANGED <<active, height>>

Next == StartNode \/ ProduceBlock \/ StopNode \/ Upgrade

Spec == Init /\ [][Next]_vars

=============================================================================
