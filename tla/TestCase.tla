------------------------------ MODULE TestCase ------------------------------
(***************************************************************************)
(* From a test case's directory to the configs of its managers             *)
(* (src/crates/upgrade-simulator/src/test_case.rs and lib.rs): the node    *)
(* layout is detected and checked, every node gets its versions, the       *)
(* config files are interpolated into the run directory, storage is        *)
(* cleared, and the resync gets configs and soak heights of its own.  What *)
(* the managers accept is ManagerConfig's Validate.                        *)
(*                                                                         *)
(* Node 0 is the master, node n the replica n-1; versions are numbered     *)
(* from 1 and their directories from 0, as in ManagerConfig.               *)
(***************************************************************************)
EXTENDS ManagerConfig

CONSTANTS
    Ports,
    Storages,       \* storage paths, as the config files spell them
    NodeName,       \* NodeName[n]: a node's directory in the run directory
    MaxReplicas,    \* bound: replicas configured in a version directory
    Elsewhere,      \* a directory that is none of the version directories
    Bad             \* a file that cannot be read or parsed

VersionDirs == 0 .. MaxVersions - 1
Homes == VersionDirs \cup {Elsewhere}
Scripts == {"migration", "migration.sh"}

\* home: the directory the file is in once links are resolved (canonicalize).
\* db: the connection string, or the placeholder for it.
ConfigFile == [port : Ports, storage : Storages, home : Homes,
               db : {"placeholder", "fixed", "container"}]
Entry == ConfigFile \cup {None, Bad}

VersionDir == [simple : Entry, master : Entry, replica : [1 .. MaxReplicas -> Entry]]
VersionSpec == [start : Optional, stop : Heights]
TestCaseFile ==
    [versions : {vs \in Seq(VersionSpec) : Len(vs) <= MaxVersions},
     extra : Heights, soak : BOOLEAN]

CaseDir == [toml : TestCaseFile \cup {None, Bad}, v : [VersionDirs -> VersionDir],
            scripts : [Homes -> SUBSET Scripts]]

ASSUME TestCaseAssumption ==
    /\ MaxReplicas \in Nat
    /\ None \notin [home : Homes, name : Scripts]

VARIABLES
    dir,        \* the test case's directory; None for a config written by hand
    at,         \* how far run_test_case is
    build,      \* how the simulator was built; it builds the manager for release
    case,       \* the loaded test case
    versions,   \* versions[n]: the config of node n's manager
    soak,       \* stop heights of the soak manager, None without soak testing
    written,    \* written[n]: config files in node n's directory
    dirty       \* storage paths with a node's data

simVars == <<dir, at, build, case, versions, soak, written, dirty>>

-----------------------------------------------------------------------------
(* load_test_case                                                           *)

\* Replicas are counted up to the first gap.
CountReplicas(vd) ==
    CHOOSE k \in 0 .. MaxReplicas :
        /\ \A i \in 1 .. k : vd.replica[i] # None
        /\ k < MaxReplicas => vd.replica[k + 1] = None

Replication(vd) == vd.master # None

\* detect_mode_and_replicas, on v0.
ModeDetected(vd) ==
    /\ vd.master # None \/ vd.simple # None
    /\ CountReplicas(vd) > 0 => Replication(vd)

NodesIn(d) == 0 .. CountReplicas(d.v[0])

\* The config file of node n in a version directory; the mode is that of v0.
FileOf(d, n, i) ==
    IF n > 0 THEN d.v[i].replica[n]
    ELSE IF Replication(d.v[0]) THEN d.v[i].master
    ELSE d.v[i].simple

FilesOf(d, n) == [i \in 1 .. Len(d.toml.versions) |-> FileOf(d, n, i - 1)]

\* detect_nodes: every version has a config for every node and no more replicas.
LayoutComplete(d) ==
    \A i \in 1 .. Len(d.toml.versions) :
        /\ \A n \in NodesIn(d) : FilesOf(d, n)[i] # None
        /\ CountReplicas(d.v[i - 1]) = CountReplicas(d.v[0])

\* Mutant: the storage path is not compared.
SameInAllVersions_PortOnly(files) ==
    \A i \in DOMAIN files : files[i].port = files[1].port

\* build_node_info
SameInAllVersions(files) ==
    \A i \in DOMAIN files :
        files[i].port = files[1].port /\ files[i].storage = files[1].storage

NodeInfo(files) == [port |-> files[1].port, storage |-> files[1].storage, files |-> files]

\* Mutant: two nodes conflict if they share port and storage.
ConflictFree_Both(nodes) ==
    \A m, n \in DOMAIN nodes : m # n =>
        nodes[m].port # nodes[n].port \/ nodes[m].storage # nodes[n].storage

\* validate_nodes
ConflictFree(nodes) ==
    \A m, n \in DOMAIN nodes : m # n =>
        nodes[m].port # nodes[n].port /\ nodes[m].storage # nodes[n].storage

DetectedNodes(d) == [n \in NodesIn(d) |-> NodeInfo(FilesOf(d, n))]

\* The errors are only logged, so which one it is makes no difference.
Loadable(d) ==
    /\ d.toml \notin {None, Bad}
    /\ d.toml.versions # <<>>
    /\ ModeDetected(d.v[0])
    /\ LayoutComplete(d)
    /\ \A n \in NodesIn(d) :
          /\ \A i \in DOMAIN FilesOf(d, n) : FilesOf(d, n)[i] # Bad
          /\ SameInAllVersions(FilesOf(d, n))
    /\ ConflictFree(DetectedNodes(d))

LoadedFrom(d) ==
    [versions |-> d.toml.versions, extra |-> d.toml.extra, soak |-> d.toml.soak,
     nodes |-> DetectedNodes(d)]

LoadTestCase ==
    /\ at = "load"
    /\ Loadable(dir)
    /\ case' = LoadedFrom(dir)
    /\ at' = "versions"
    /\ UNCHANGED <<dir, build, versions, soak, written, dirty>>

Fail == at' = "failed" /\ UNCHANGED <<dir, build, case, versions, soak, written, dirty>>

LoadFails == at = "load" /\ ~Loadable(dir) /\ Fail

-----------------------------------------------------------------------------
(* The set-up in run_test_case.                                             *)

Nodes == DOMAIN case.nodes

\* Mutant: only one of the two names is known.
Migration_ShOnly(home) ==
    IF "migration.sh" \in dir.scripts[home] THEN [home |-> home, name |-> "migration.sh"]
                                            ELSE None

\* discover_version_migration, once it is known not to be ambiguous.
Migration(home) ==
    IF dir.scripts[home] = {} THEN None
    ELSE [home |-> home, name |-> CHOOSE s \in dir.scripts[home] : TRUE]

Ambiguous(home) == dir.scripts[home] = Scripts

HomesUsed == {case.nodes[n].files[i].home : n \in Nodes, i \in DOMAIN case.versions}

\* The version's directory is the parent of the config file, links resolved.
VersionsForNode(n) ==
    [i \in DOMAIN case.versions |->
        [start     |-> case.versions[i].start,
         stop      |-> case.versions[i].stop,
         migration |-> Migration(case.nodes[n].files[i].home)]]

\* Mutant: of two scripts one is taken.
BuildNodeVersions_Ambiguous ==
    /\ at = "versions"
    /\ versions' = [n \in Nodes |-> VersionsForNode(n)]
    /\ at' = "interpolate"
    /\ UNCHANGED <<dir, build, case, soak, written, dirty>>

BuildNodeVersions ==
    /\ at = "versions"
    /\ \A home \in HomesUsed : ~Ambiguous(home)
    /\ versions' = [n \in Nodes |-> VersionsForNode(n)]
    /\ at' = "interpolate"
    /\ UNCHANGED <<dir, build, case, soak, written, dirty>>

\* A script too many, a binary that cannot be built, a file that cannot be written
\* or removed.
SetupFails == at \in {"versions", "interpolate", "soak", "clear"} /\ Fail

Interpolated(file) == [file EXCEPT !.db = IF @ = "placeholder" THEN "container" ELSE @]

\* Mutant: one directory for all, where a later node's files replace the earlier's.
ConfigsWritten_Shared ==
    [n \in Nodes |-> [i \in DOMAIN case.versions |->
        Interpolated(case.nodes[CHOOSE m \in Nodes : \A o \in Nodes : o <= m].files[i])]]

\* interpolate_node_configs: written[n][i] is config_<i-1>.toml in n's directory.
ConfigsWritten ==
    [n \in Nodes |-> [i \in DOMAIN case.versions |-> Interpolated(case.nodes[n].files[i])]]

InterpolateConfigs ==
    /\ at = "interpolate"
    /\ written' = ConfigsWritten
    /\ at' = "soak"
    /\ UNCHANGED <<dir, build, case, versions, soak, dirty>>

BuildSoakConfig ==
    /\ at = "soak"
    /\ soak' = IF case.soak THEN [i \in DOMAIN case.versions |-> case.versions[i].stop]
                            ELSE None
    /\ at' = "clear"
    /\ UNCHANGED <<dir, build, case, versions, written, dirty>>

\* clear_storage_dir for every node: what is in the directory is gone, config
\* files too if it is the directory of a node.
ClearStorage ==
    LET cleared == {case.nodes[n].storage : n \in Nodes}
    IN  /\ dirty' = dirty \ cleared
        /\ written' = [n \in Nodes |-> IF NodeName[n] \in cleared THEN <<>> ELSE written[n]]

ClearForInitialRun ==
    /\ at = "clear"
    /\ ClearStorage
    /\ at' = "initial"
    /\ UNCHANGED <<dir, build, case, versions, soak>>

-----------------------------------------------------------------------------
(* The phases, as far as the configs go.                                    *)

ManagerAccepts(n) == Validate(versions[n], "release") = Ok

Running == at \in {"initial", "resync"}

\* Every node has gone through its versions; each kept its data where its own
\* config file says.
PhaseSucceeds ==
    /\ Running
    /\ \A n \in Nodes : ManagerAccepts(n) /\ written[n] # <<>>
    /\ dirty' = dirty \cup {written[n][i].storage : n \in Nodes, i \in DOMAIN case.versions}
    /\ at' = IF at = "initial" THEN "reset" ELSE "done"
    /\ UNCHANGED <<dir, build, case, versions, soak, written>>

\* A manager refuses its config, or anything else goes wrong.
PhaseFails == Running /\ Fail

Last(s) == s[Len(s)]
Extended(stop) == (stop + case.extra) % 2^W
Overflows == build = "debug" /\ Last(case.versions).stop + case.extra >= 2^W

\* Mutant: the stop heights of all versions are extended.
ResyncVersions_All ==
    [n \in Nodes |-> [i \in DOMAIN versions[n] |->
        [versions[n][i] EXCEPT !.stop = Extended(@)]]]

\* build_resync_versions; nothing changes if case.extra is 0.
ResyncVersions ==
    [n \in Nodes |-> [versions[n] EXCEPT ![Len(versions[n])].stop = Extended(@)]]

\* Mutant: the soak manager is not told about the extra blocks.
ResyncSoak_NotExtended == IF soak = None \/ case.extra = 0 THEN None ELSE <<Last(soak)>>

\* for_resync
ResyncSoak == IF soak = None \/ case.extra = 0 THEN None ELSE <<Extended(Last(soak))>>

StartResync ==
    /\ at = "reset"
    /\ ~Overflows
    /\ ClearStorage
    /\ versions' = ResyncVersions
    /\ soak' = ResyncSoak
    /\ at' = "resync"
    /\ UNCHANGED <<dir, build, case>>

\* The storage cannot be cleared, or the sum of two u64 panics in a debug build.
ResetFails == at = "reset" /\ Fail

SimInit ==
    /\ dir \in CaseDir
    /\ at = "load"
    /\ build \in Builds
    /\ case = None /\ versions = <<>> /\ soak = None
    /\ written = <<>> /\ dirty = {}

SimNext ==
    \/ LoadTestCase \/ LoadFails
    \/ BuildNodeVersions \/ SetupFails \/ InterpolateConfigs \/ BuildSoakConfig
    \/ ClearForInitialRun \/ PhaseSucceeds \/ PhaseFails \/ StartResync \/ ResetFails

SimSpec == SimInit /\ [][SimNext]_simVars

-----------------------------------------------------------------------------
(* Properties.                                                              *)

\* A phase starts on fresh storage: the storage path of no version of a node holds
\* what any node left in the phase before, although only the path in the first
\* version's config is cleared.  (This is about storage paths: evm_pinned_cache.json
\* lies beside the config files in the run directory and is never cleared.)
PhasesStartFresh ==
    Running => \A n \in Nodes : \A i \in DOMAIN case.versions :
                  case.nodes[n].files[i].storage \notin dirty

\* Two nodes of a test case never share a port or a storage path, whichever
\* versions they have come to.
NodesKeepApart ==
    case # None =>
        \A m, n \in Nodes : \A i, j \in DOMAIN case.versions : m # n =>
            /\ case.nodes[m].files[i].port # case.nodes[n].files[j].port
            /\ case.nodes[m].files[i].storage # case.nodes[n].files[j].storage

ClearedAway(n) == \E m \in Nodes : case.nodes[m].storage = NodeName[n]

\* In both phases every manager finds its node's config files, interpolated, and no
\* other node's; or none at all, when some node has its storage path where the
\* node's config directory is and the files were cleared with it.
ConfigsInPlace ==
    Running =>
        \A n \in Nodes :
            written[n] = IF ClearedAway(n) THEN <<>>
                         ELSE [i \in DOMAIN case.versions |->
                                  Interpolated(FileOf(dir, n, i - 1))]

\* With a version every node runs the one migration script of the directory that
\* its config file really is in, and none if there is none: of the version's own
\* directory, or of the one to which a link leads out of it, another version's too.
MigratesWithItsVersion ==
    Running =>
        \A n \in Nodes : \A i \in DOMAIN case.versions :
            LET home == FileOf(dir, n, i - 1).home
                migration == versions[n][i].migration
            IN  IF migration = None THEN dir.scripts[home] = {}
                ELSE migration.home = home /\ dir.scripts[home] = {migration.name}

\* A config that a manager has accepted in the initial run it accepts again in
\* the resync, whatever the extra blocks, overflow included.
ResyncIsAccepted == at = "resync" => \A n \in Nodes : ManagerAccepts(n)

\* The soak manager stops where the nodes do: in the initial run at each of their
\* stop heights, in the resync at the last.
SoakStopsWithNodes ==
    Running /\ soak # None =>
        \A n \in Nodes :
            LET stops == [i \in DOMAIN versions[n] |-> versions[n][i].stop]
            IN  IF at = "initial" THEN soak = stops ELSE soak = <<Last(stops)>>

-----------------------------------------------------------------------------
(* The inductive invariant.                                                 *)

Loaded == {"versions", "interpolate", "soak", "clear", "initial", "reset", "resync"}

\* The test case is the one in the directory, which passed every check.
LoadedInv ==
    case # None \/ at \in Loaded => Loadable(dir) /\ case = LoadedFrom(dir)

\* The managers' configs are those of the test case, in the resync extended, and
\* the initial run was not ok unless all had been accepted.
VersionsInv ==
    /\ at \in Loaded \ {"versions"} =>
          \A home \in HomesUsed : ~Ambiguous(home)
    /\ at \in {"interpolate", "soak", "clear", "initial", "reset"} =>
          versions = [n \in Nodes |-> VersionsForNode(n)]
    /\ at \in {"reset", "resync"} =>
          \A n \in Nodes : Validate(VersionsForNode(n), "release") = Ok
    /\ at = "resync" =>
          versions = [n \in Nodes |->
              [VersionsForNode(n) EXCEPT ![Len(case.versions)].stop = Extended(@)]]

SoakInv ==
    /\ at \in {"clear", "initial", "reset"} =>
          soak \in {None, [i \in DOMAIN case.versions |-> case.versions[i].stop]}
    /\ at = "resync" => soak \in {None, <<Extended(Last(case.versions).stop)>>}

\* A node's config files are its own or, if a storage path was its directory, gone
\* once storage has been cleared; what is dirty is what will be cleared.
FilesInv ==
    /\ at \in {"soak", "clear", "initial", "reset", "resync"} =>
          /\ DOMAIN written = Nodes
          /\ \A n \in Nodes :
                written[n] = IF at \in {"soak", "clear"} \/ ~ClearedAway(n)
                             THEN ConfigsWritten[n] ELSE <<>>
    /\ at \in {"load"} \cup (Loaded \ {"reset"}) => dirty = {}
    /\ at = "reset" => dirty \subseteq {case.nodes[n].storage : n \in Nodes}

SimInv == LoadedInv /\ VersionsInv /\ SoakInv /\ FilesInv

=============================================================================
