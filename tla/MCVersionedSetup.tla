-------------------------- MODULE MCVersionedSetup --------------------------
(***************************************************************************)
(* Two repositories, a fork and its origin, that share commit c2; the      *)
(* simulator's targets, and two of the setup that build the same binary    *)
(* with other features under one cache name.                               *)
(***************************************************************************)
EXTENDS VersionedSetup

CONSTANTS u1, u2, c1, c2, c3, m1

MCCommitsOf == (u1 :> {c1, c2}) @@ (u2 :> {c2, c3})

MCRollup == [bin |-> "rollup",    cache_name |-> "starter",  features |-> "mock_da"]
MCSoak   == [bin |-> "soak-test", cache_name |-> None,       features |-> "none"]
MCMockDa == [bin |-> "mock-da",   cache_name |-> None,       features |-> "mock_da"]
MCResync == [bin |-> "rollup",    cache_name |-> "celestia", features |-> "celestia"]
MCNative == [MCResync EXCEPT !.features = "celestia, native"]
MCTargets == {MCRollup, MCSoak, MCMockDa, MCResync, MCNative}

RollupOnly == [rollup |-> MCRollup, soak |-> None, mock_da |-> None]

MCSetupTargets == {MCResync, MCNative}

\* Artifacts of two versions; a soak binary of a target that is disabled.
MCBuildCalls ==
    {[url |-> None, targets |-> [RollupOnly EXCEPT !.soak = MCSoak], soak |-> FALSE,
      mock_da |-> FALSE, versions |-> <<[commit |-> c2, build_soak |-> TRUE],
                                        [commit |-> c1, build_soak |-> FALSE]>>],
     [url |-> None, targets |-> RollupOnly, soak |-> TRUE, mock_da |-> TRUE,
      versions |-> <<[commit |-> c1, build_soak |-> FALSE]>>]}

\* An upgrade with two nodes and soak testing; one of the fork.
MCTestCases ==
    {[url |-> None, commits |-> <<c1, c2>>, nodes |-> 2, soak |-> TRUE],
     [url |-> u2,   commits |-> <<c2, c3>>, nodes |-> 1, soak |-> FALSE]}

Entry(c, m) == [commit |-> c, migration |-> m]

MCVersionSpecs ==
    {None, <<>>, <<Entry(c2, None), Entry(c1, m1)>>, <<Entry(c1, None), Entry(None, None)>>,
     <<Entry(c1, None), Entry(c2, m1), Entry(c1, None), Entry(c2, None)>>}

MCJobs ==
    {PrepareJob(call) : call \in MCBuildCalls} \cup {SimulatorJob(case) : case \in MCTestCases}
    \cup {SetupJob(url, t, LoadVersions(s)) :
              url \in SetupUrls, t \in SetupTargets,
              s \in {listed \in MCVersionSpecs : Loadable(listed)}}

=============================================================================
