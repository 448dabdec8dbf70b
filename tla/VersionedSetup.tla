--------------------------- MODULE VersionedSetup ---------------------------
(***************************************************************************)
(* The callers of the artifact builder, each a process of its own that     *)
(* shares the cache with those before and after it:                        *)
(*   prepare_artifacts     (sov-versioned-artifact-builder/src/lib.rs),    *)
(*   prepare_rollup_binaries on what load_versions_replacing_last_with_-   *)
(*   local_head has read   (sov-rollup-versioned-setup/src/lib.rs), and    *)
(*   run_test_case with its nodes, soak workers and mock DA server         *)
(*                         (upgrade-simulator/src/lib.rs, test_case.rs).   *)
(***************************************************************************)
EXTENDS ArtifactCache, FiniteSets, SequencesExt

CONSTANTS
    DefaultUrl,     \* DEFAULT_REPO_URL
    Rollup, Soak, MockDa,   \* upgrade_simulator_defaults
    SetupTargets,   \* values of RollupBinaryBuildConfig.target
    LocalHead,      \* the working tree the setup is run from
    SetupUrls,      \* values of RollupBinaryBuildConfig.repo_url
    BuildCalls,     \* prepare_artifacts is called with
    TestCases,      \* run_test_case is called with
    Migrations,     \* migration scripts
    VersionSpecs    \* contents of versions.yaml, None if there is none

VARIABLES
    spec,       \* the versions listed that are being set up, None if others call
    setupTarget, \* the target they are set up for
    prepared    \* what prepare_rollup_binaries returned, <<>> before

setupVars == <<spec, setupTarget, prepared>>
allVars == <<vars, setupVars>>

-----------------------------------------------------------------------------
(* The binaries a caller asks for, in its order.                            *)

Url(url) == IF url = None THEN DefaultUrl ELSE url

\* prepare_artifacts: [url, targets, versions, soak, mock_da].
PrepareJob(call) ==
    LET OfVersion(v) ==
            <<[commit |-> v.commit, target |-> call.targets.rollup]>>
            \o IF call.soak \/ v.build_soak
                 THEN <<[commit |-> v.commit, target |-> call.targets.soak]>> ELSE <<>>
    IN  [url |-> Url(call.url),
         requests |->
            FlattenSeq([i \in DOMAIN call.versions |-> OfVersion(call.versions[i])])
            \o IF call.mock_da /\ call.versions # <<>>
                 THEN <<[commit |-> call.versions[1].commit,
                         target |-> call.targets.mock_da]>> ELSE <<>>]

\* run_test_case: [url, commits, nodes, soak].  Every node asks for every
\* version's binary, then the soak workers, then the mock DA server.
SimulatorJob(case) ==
    LET All(target) ==
            [i \in DOMAIN case.commits |-> [commit |-> case.commits[i], target |-> target]]
    IN  [url |-> Url(case.url),
         requests |->
            FlattenSeq([n \in 1 .. case.nodes |-> All(Rollup)])
            \o (IF case.soak THEN All(Soak) ELSE <<>>)
            \o <<[commit |-> case.commits[1], target |-> MockDa]>>]

-----------------------------------------------------------------------------
(* load_versions_replacing_last_with_local_head.  An entry of versions.yaml *)
(* has the commit of its vars file, None if that is empty.                  *)

Loadable(s) == s # None => \A i \in DOMAIN s : s[i].commit # None

\* Mutant: the working tree comes after the last version listed.
LoadVersions_Appends(s) ==
    (IF s = None THEN <<>>
     ELSE [i \in DOMAIN s |-> [source |-> s[i].commit, migration |-> s[i].migration]])
    \o <<[source |-> LocalHead, migration |-> None]>>

LoadVersions(s) ==
    IF s = None \/ s = <<>> THEN <<[source |-> LocalHead, migration |-> None]>>
    ELSE [i \in DOMAIN s |->
            [source    |-> IF i = Len(s) THEN LocalHead ELSE s[i].commit,
             migration |-> s[i].migration]]

IsRemote(version) == version.source # LocalHead

\* The versions with a commit, in their order: how many of the first i there are,
\* and where the p-th is.
RemoteUpTo(versions, i) == Cardinality({j \in 1 .. i : IsRemote(versions[j])})

RemoteAt(versions, p) ==
    CHOOSE i \in DOMAIN versions : IsRemote(versions[i]) /\ RemoteUpTo(versions, i) = p

\* prepare_rollup_binaries: the commits it has prepared.
SetupJob(url, t, versions) ==
    [url |-> url,
     requests |-> [p \in 1 .. RemoteUpTo(versions, Len(versions)) |->
                      [commit |-> versions[RemoteAt(versions, p)].source, target |-> t]]]

\* The artifacts are dealt out one by one to the versions that are remote.
PreparedVersions(versions, artifacts) ==
    [i \in DOMAIN versions |->
        [binary    |-> IF IsRemote(versions[i]) THEN artifacts[RemoteUpTo(versions, i)]
                                                ELSE LocalHead,
         migration |-> versions[i].migration]]

\* The versions listed, and what the callers make of their input.
Entries == [commit : Commits \cup {None}, migration : Migrations \cup {None}]

ASSUME SpecsAssumption ==
    /\ \A s \in VersionSpecs : s # None => s \in Seq(Entries)
    /\ LocalHead \notin Commits
    /\ SetupTargets \subseteq Targets
ASSUME CallsAssumption ==
    /\ \A call \in BuildCalls : PrepareJob(call) \in Jobs
    /\ \A case \in TestCases : SimulatorJob(case) \in Jobs
    /\ \A s \in VersionSpecs, url \in SetupUrls, t \in SetupTargets :
          Loadable(s) => SetupJob(url, t, LoadVersions(s)) \in Jobs

-----------------------------------------------------------------------------
Init ==
    /\ CacheInit
    /\ spec = None /\ setupTarget = None /\ prepared = <<>>

\* prepare_artifacts or run_test_case.
CallBuilder ==
    /\ \/ \E call \in BuildCalls : StartJob(PrepareJob(call))
       \/ \E case \in TestCases : StartJob(SimulatorJob(case))
    /\ spec' = None /\ setupTarget' = None /\ prepared' = <<>>

SetUp ==
    /\ \E s \in VersionSpecs, url \in SetupUrls, t \in SetupTargets :
          /\ Loadable(s)
          /\ StartJob(SetupJob(url, t, LoadVersions(s)))
          /\ spec' = IF s = None THEN <<>> ELSE s
          /\ setupTarget' = t
    /\ prepared' = <<>>

\* build_local_rollup_binary for the working tree, then the list is made.
BuildLocal ==
    /\ JobDone
    /\ spec # None
    /\ prepared' = PreparedVersions(LoadVersions(spec), got)
    /\ UNCHANGED <<spec, setupTarget>>

\* The local build fails, or a migration script is not there.
BuildLocalFails ==
    /\ CallerFails
    /\ spec # None /\ at = "returned"
    /\ UNCHANGED setupVars

\* run_test_case finds no config or two migrations beside it, or fails later on.
TestCaseFails ==
    /\ CallerFails
    /\ spec = None
    /\ job \in {SimulatorJob(case) : case \in TestCases}
    /\ UNCHANGED setupVars

CallReturns == JobDone /\ spec = None /\ UNCHANGED setupVars

Next ==
    \/ CallBuilder \/ SetUp
    \/ (Step \/ ReadTextFile) /\ UNCHANGED setupVars
    \/ BuildLocal \/ BuildLocalFails \/ TestCaseFails \/ CallReturns

Spec == Init /\ [][Next]_allVars

-----------------------------------------------------------------------------
(* What must hold.                                                          *)

\* However the artifacts were prepared, and whatever earlier callers have left in
\* the cache, the last version listed runs the working tree's binary, and every
\* other one a binary under the name of the target asked for that, unless a killed
\* copy has left it torn, was built from its own commit, after its own migration.
VersionsGetTheirBinaries ==
    prepared # <<>> =>
        LET last == Len(prepared)
        IN  /\ last = IF spec = <<>> THEN 1 ELSE Len(spec)
            /\ prepared[last].binary = LocalHead
            /\ \A i \in DOMAIN spec : prepared[i].migration = spec[i].migration
            /\ \A i \in 1 .. last - 1 :
                  LET binary == prepared[i].binary
                  IN  /\ binary = [commit |-> spec[i].commit, name |-> CacheName(setupTarget)]
                      /\ cache[binary] \in BuildsFor(binary) \cup {Torn}

-----------------------------------------------------------------------------
(* The inductive invariant: ArtifactCache's, and what its callers make of it. *)

\* The job is that of the versions listed, until the next caller comes.
ListInv ==
    spec # None =>
        /\ spec \in Seq(Entries) /\ Loadable(spec)
        /\ job # None
        /\ job.requests = SetupJob(job.url, setupTarget, LoadVersions(spec)).requests

\* What was returned was made of all the binaries asked for.
PreparedInv ==
    prepared # <<>> =>
        /\ at = "down" /\ spec # None
        /\ Len(got) = Len(job.requests)
        /\ prepared = PreparedVersions(LoadVersions(spec), got)

SetupInv == CacheInv /\ HandedOut /\ ListInv /\ PreparedInv

=============================================================================
