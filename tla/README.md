# Verification of sov-rollup-manager

TLA+ models of the rollup manager and of the tools that test it, the TLC runs
that check them on small instances, and TLAPS proofs of what matters most for
every instance. All source paths below are relative to the repository's root
(`src/...` is the manager's own crate, `crates/...` the others).

* [1 The system](#1-the-system): inventory of the components
* [2 The modules](#2-the-modules): which module models what, and how it maps to the code
* [3 Runs](#3-runs): what each run checks, its bounds, the fairness assumed
* [4 Proofs](#4-proofs): what is proved, from what, along which argument
* [5 Findings](#5-findings): where the code and its documentation differ
* [6 Limits](#6-limits): what is abstracted, only model-checked, not modelled
* [7 Plan](#7-plan): what is done and what comes next

`PROJECT.json` holds the same in tabular form: components, runs, the mutant of
each property, the source lines of each definition, hazards, theorems.

To repeat the checks:

    tlc -workers 2 -config manager_safety.cfg MCRollupManager.tla
    tlapm RollupManagerProofs.tla

## 1 The system

`sov-rollup-manager` runs a rollup node through its upgrades. It is given a list
of versions, each a binary with a start height, a stop height and perhaps a
migration; it runs them one after the other and keeps in a checkpoint file which
one it is at. The other crates test such upgrades: the upgrade simulator runs
several managers against a mock DA layer, twice, with a soak test beside them.

    upgrade-simulator                     (async, tokio)
      ├─ versioned-artifact-builder       git checkout, cargo build, cache
      ├─ Postgres container               docker run / exec / rm
      ├─ mock DA server                   child process
      ├─ run_nodes: one task per node ──> sov-rollup-manager     (child process, one thread)
      │                                     ├─ config file, checkpoint file
      │                                     ├─ migration          (child process)
      │                                     └─ rollup node        (child process)
      └─ soak coordinator: a task             ^ HTTP: height, ready
            ├─ polls the master node ─────────┘
            └─ soak worker                (child process)

| Component | State | Operations | Talks to | What is hard | What makes it correct |
|---|---|---|---|---|---|
| **Run loop** `src/runner.rs` | loop index, last polled height, signal handlers, the child process | `run`, `run_migration`, `run_version_with_monitoring`, `monitor_rollup`, `handle_process_exit`, `terminate_process` | spawns node and migration; polls the node's HTTP API; forwards SIGTERM and SIGQUIT | dies at any point, leaving its children alive; judges a node's exit by a height polled earlier; signals between two versions; nodes that overshoot or ignore SIGTERM | versions in order, each left only near its stop height, on storage with exactly its migrations; one node at a time; nothing left behind; 0 only when all is done |
| **Checkpoint file** `src/checkpoint.rs` | absent, torn or intact; version and binary | `load_checkpoint`, `write_checkpoint` | run loop | `fs::write` truncates first; the file may disagree with the config | names the version of any node that may be alive; a torn file is never taken for a first run |
| **Manager config** `src/config.rs` | the version list | `load`, `validate` | run loop | u64 overflow, off-by-one at boundaries, an `unwrap` whose check is one iteration earlier | what is accepted divides the heights between the versions |
| **Command line** `src/main.rs` | checkpoint flag, exit status | `main` | service supervisor | which error becomes which status | as the run loop |
| **API client** `src/rollup_api.rs` | none | `query_height` | node | whoever listens on the port answers; may not answer | tells a height or fails |
| **Rollup node** (external; `crates/mock-rollup`) | height, storage | start checks, produce blocks, stop | manager, soak coordinator | exits at any time with any status | assumed, not checked |
| **Soak manager** `crates/sov-soak-manager` | index, salt, previous stop height, the worker process | `run_soak_coordinator`, `stop_soak_process`, `for_resync` | polls the master node; told by `run_nodes` over a oneshot channel when the nodes have ended | readiness, height, worker exit and shutdown race in `select!`s; SIGTERM, grace, SIGKILL; salts in u32 | a worker meets only the node of its version; its failure fails the test; no salt twice; it always ends |
| **Node runner** `crates/upgrade-simulator/src/node_runner.rs` | the tasks of the nodes, the process registry | `run_nodes`, `spawn_node`, `terminate_all`, `register`, `clear` | spawns managers; shares the registry with the Ctrl+C handler | one node fails while others start or finish; dropped futures kill their processes | one failure ends all, with SIGTERM before SIGKILL |
| **Test phases** `crates/upgrade-simulator/src/lib.rs`, `main.rs` | phase, result | `run_test_case`, `run_test_phases`, `run_with_soak`, `spawn_mock_da_server` | all of the above | Ctrl+C at any point; early returns; two phases on the same storage | nothing of the first phase is alive when its storage is cleared; all is removed at the end |
| **Test cases** `test_case.rs`, `error.rs`, and the config files in `lib.rs` | the parsed test case, the run directory | `load_test_case`, `detect_nodes`, `build_node_info`, `validate_nodes`, `discover_version_migration`, `build_*_versions`, `build_soak_config`, `interpolate_*`, `clear_storage_dir` | test phases, artifact builder | one value per node stands for one per version; links; heights extended twice, in two crates | no two nodes share a port or storage; both phases start on fresh storage with every config in its place; soak workers stop where the nodes do |
| **Postgres container** `docker.rs` | the container, its two databases | `start`, `reset_sequencer_db`, `cleanup`, `drop` | docker | a failure at each docker command, a name that is taken | is removed on every path; each phase has a fresh sequencer database and keeps the DA data |
| **Artifact builder** `crates/sov-versioned-artifact-builder` | checkout, build output, binary cache, all outliving the process | `ensure_repo`, `checkout`, `build_target`, `get_*_binary`, `prepare_artifacts`, `read_text_file_at_commit` | git, cargo | killed at any point; a cached binary checked by existence only and copied non-atomically; one checkout for all commits and repositories | the binary returned for a commit is that commit's, and is not written to again |
| **Versioned setup** `crates/sov-rollup-versioned-setup` | none | `load_versions_replacing_last_with_local_head`, `prepare_rollup_binaries` | artifact builder | lists zipped by position | each version gets its own binary and migration |
| **Tests and their utilities** `tests/`, `crates/workspace-test-utils` | none | fixtures | | | read as documentation |

There is little shared memory; what makes the system hard is processes that
outlive one another, files and heights read before they are acted on, and
signals that come between two steps.

## 2 The modules

| Module | What it is |
|---|---|
| `RollupManager` | run loop, checkpoint file, command line, API client, with node, migration, supervisor and operator as environment |
| `RollupManagerInvariant` | its inductive invariant |
| `UpgradeSequence` | abstract: what the manager promises about the chain |
| `ManagerProcess` | abstract: what the manager is to whoever starts it |
| `RollupManagerProofs` | the proofs |
| `ManagerConfig` | `validate`, with u64 arithmetic on `W` bits |
| `ManagerConfigProofs` | its proofs |
| `MCRollupManager` | schedules for TLC; asserts that `ManagerConfig!Validate` accepts them |
| `SoakCoordinator`, `MCSoakCoordinator` | the soak coordinator beside the nodes, over both phases |
| `SoakCoordinatorProofs` | its proofs |
| `UpgradeSimulator` | the processes of an upgrade test, its container and databases |
| `UpgradeSimulatorProofs` | its proofs |
| `TestCase` | from a test case's directory to the managers' configs of both phases; extends `ManagerConfig`, which says what a manager accepts |
| `MCTestCase` | directories and hand-written configs for TLC |
| `TestCaseProofs` | its proofs; extends `ManagerConfigProofs` |
| `ArtifactCache` | the artifact builder's checkout and cache under processes that are killed |
| `BinaryStore` | abstract: a cache whose complete binaries are never written to again |
| `ArtifactCacheProofs` | its proofs |
| `VersionedSetup`, `MCVersionedSetup` | the three callers of the artifact builder, taking turns on one cache |
| `VersionedSetupProofs` | its proofs; extends `ArtifactCacheProofs` |

### RollupManager

The manager is one thread; `mgr` says where it is, and there is one action per
step that another actor can come between.

| `mgr` | code | actions |
|---|---|---|
| `load` | `load_checkpoint` | `LoadCheckpoint`, `RejectCheckpoint` |
| `checkpoint`, `writing` | the open-and-truncate and the write of `fs::write` in `write_checkpoint` | `TruncateCheckpoint`, `WriteCheckpoint`, `SkipCheckpoint` |
| `migrate`, `migrating` | `run_migration` up to its spawn, and in `wait()` | `StartMigration`, `MigrationSucceeds`, `MigrationFails` |
| `launch` | `Signals::new`, spawn | `Launch` |
| `signals` | the forwarding loop over `signals.pending()` | `ForwardSignals` |
| `poll` | `query_height` | `PollHeight`, `PollFails` |
| `reap` | `try_wait`, `handle_process_exit`, and what `run` does with the outcome | `StillRunning`, `NextVersion`, `AllCompleted`, `VersionFailed` |
| `terminating` | `terminate_process` for a node above its stop height | `TerminateReaps`, `TerminateKills` |
| `down` | no manager process | `StartManager` |

`StepFails` is every error on the way to a launch, a config that does not load
or validate included. `ckpt` is the file,
`child` and `code` the node process, `height` and `migrated` the storage, which
outlives all processes, `stray` and `strayMigs` what a killed manager leaves
running. `handler` is what SIGTERM does: kill (`default`, before the first
`Signals::new`), be noted (`registered`), or vanish (`unread`: signal-hook keeps
the handler installed after `Signals` is dropped, so between two versions nobody
reads it). `owed` is a history variable: a signal that no live node has been
sent.

The operator appears in `EditConfig`: while the manager is down he appends the
next version, withdraws the last one, or moves a binary. As the README of the
repository has it, the last version listed has no stop height until its
successor is appended (`StopOf`).

Decisions a reader should know of:

* A node's blocks count as durable once its API shows them. (The mock rollup
  saves its height at exit only; a real one does not.)
* A migration that succeeds has added itself to `migrated`, one that fails has
  changed nothing. One whose manager died may end either way.
* Which starts a node refuses follows the mock rollup: it must not start above
  the next height, its stop height must be ahead, the port must be free; it may
  or may not insist on starting exactly at its start height.
* SIGTERM and SIGQUIT are alike. SIGKILL, SIGINT, SIGHUP and panics are all
  `ManagerKilled`. (README:61 says that other signals are swallowed; in fact
  SIGINT and SIGHUP kill the manager and leave the node running.)
* `terminate_process` after `handle_process_exit` has failed signals a child
  that has been reaped; that is a no-op here. Reuse of its pid is not modelled.
* Without a checkpoint file the manager promises nothing across restarts: the
  properties about the file are conditional on `useCheckpoint`, and the
  refinement mapping is constant otherwise.

### SoakCoordinator

`task` is the await at which `run_soak_coordinator` is suspended; everything up
to the next await is one action.

| `task` | await | actions |
|---|---|---|
| `ready`, `height` | the two polls of `wait_for_sequencer_ready_and_height_gt` | `SequencerReady`, `HeightAdvanced`, `NotReady`, then `StartWorker`, `StartFails` |
| `soaking` | the select on worker exit and `wait_for_height` | `StopNear`, `StopFar`, `WorkerEndedEarly`, `WaitFails` |
| `stopping`, `grace` | `stop_soak_process`: `try_wait` and SIGTERM; one second; SIGKILL | `TryWaitFindsExit`, `Terminate`, `GraceReaps`, `GraceKills` |
| `final` | waiting for the nodes after the last version | `FinalWaitEnds` |

Both selects are `biased` with the shutdown first, so every other step is
guarded by `~shutdown` (`ReceiveShutdown` is what happens instead). `phase`,
`nodes` and `test` are `run_test_phases` and `run_with_soak`, which join the
coordinator to `run_nodes`, first for the initial run, then with `for_resync`
for the resync. Salts are added in u32: a release build wraps, a debug build
panics, in the coordinator's task (a branch of `Stopped`; the panic is only
logged) or in `for_resync` (`ResyncPanics`, which ends the simulator). When a
node fails, its own or another's manager, the master may live on through the
grace period of `run_nodes` (`NodeFails`, `MasterEnds`, `NodesEnd`). The node's
API answers exactly while the node is up; a query that never returns is excluded.

### UpgradeSimulator

`main` is where `run_test_case` is, `runner` where `run_nodes` is. They are
separate because with soak testing `run_nodes` is a detached task, and without
it it is part of the future that the Ctrl+C `select!` drops: dropping the
`JoinSet` drops the `Child` handles, whose `kill_on_drop` sends SIGKILL
(`KillManagers`), and a killed manager leaves its node behind (`left`).
`registry` is the process registry, `termed` who has been sent SIGTERM. What the
managers do (`LaunchNode`, `NodeEnds`, `ManagerEnds`) are the steps of
`ManagerProcess`, which `RollupManager` is shown to implement; so the two
models fit together without being run as one.

Ctrl+C before tokio has installed its handler kills the simulator
(`InterruptKills`); after, it is noted while the select is on and swallowed
otherwise (`InterruptArrives`), also during the set-up of a second test case.
Building, interpolating and clearing storage succeed or fail here; what they do
is in `TestCase` and `ArtifactCache`. The soak coordinator only has a result.

`pg`, `seqDb` and `daDb` are the container and its databases. `docker run`
needs the name to be free (`StartPostgres`); failing, it may leave a container
(`PostgresFails`), and so may a failing `docker rm`, which is only logged
(`Removed`). `CreateDatabases` is the readiness loop with both databases;
`DropSequencerDb` and `StartResync` are the DROP and the CREATE of
`reset_sequencer_db`, whose failures return with the database gone
(`ResetFails`). Nodes, also those left behind, write to the sequencer database
(`NodeWrites`). The mock DA server writes its blocks to the other from its
start; it may crash (`MockDaCrashes`), which nobody notices, is sent SIGTERM
while the registry lists it, and is killed when its handle is dropped
(`DropMockDa`).

### TestCase

The input is a directory: `test_case.toml`, per version directory a config for
a single node, one for a master and some for replicas, and perhaps migration
scripts. A config file is what the code reads of it (port and storage path),
the directory it is in once links are resolved, and its connection string.

| `at` | code | actions |
|---|---|---|
| `load` | `load_test_case` | `LoadTestCase` (guard `Loadable`), `LoadFails` |
| `versions` | `build_node_versions`, `discover_version_migration` | `BuildNodeVersions` |
| `interpolate` | `interpolate_node_configs` | `InterpolateConfigs` |
| `soak` | `build_soak_config` | `BuildSoakConfig` |
| `clear` | `clear_storage_dir` for every node | `ClearForInitialRun` |
| `initial`, `resync` | `run_with_soak` | `PhaseSucceeds`, `PhaseFails` |
| `reset` | clearing, `build_resync_versions`, `for_resync` | `StartResync`, `ResetFails` |

`SetupFails` is every error from `versions` to `clear`. A phase succeeds only
if every manager accepts its config (`ManagerConfig`'s `Validate`; the simulator
builds the managers for release, so the build only matters for its own sums)
and finds its config files; it leaves data (`dirty`) wherever the config files
it was run with say, one version at a time. `written` are the interpolated
files in the run directory. The storage directories are in the run directory
too: clearing one that is the directory of a node's configs removes them, which
the code does not exclude (`ClearStorage`).

### ArtifactCache, VersionedSetup

| `at` | code | actions |
|---|---|---|
| `check` | the existence check in `get_target_binary` | `UseCached`, `StartBuilding`, `TargetDisabled` |
| `ensure` | `ensure_repo` | `Clone`, `Fetch` and their failures |
| `checkout` | `checkout` | `Checkout`, `CheckoutFails` |
| `build` | `cargo build` in `build_target` | `Build`, `BuildFails` |
| `store`, `copying` | `fs::copy`: the file is created, then filled | `StartCopy`, `EndCopy`, `CopyFails` |
| `returned` | the caller has all its binaries | `JobDone`, `CallerFails` (which may also come at `check`, between two binaries) |

`Killed` may come at every step and takes the running git or cargo along; it
leaves half a clone (`whole`), a checkout that was or was not moved, git's
`index.lock`, or a torn copy. A fetch in half a clone may complete it or, where
git has not yet recorded a remote, succeed and get nothing (`Fetch`); a checkout
needs the whole. `ReadTextFile` only clones or fetches. A build is
a record of the commit and the target it was made from, so the model can tell a
binary from another of the same name; the code cannot, its cache key is
commit and `cache_name`.

`VersionedSetup` gives the process its jobs: the requests of
`prepare_artifacts`, of `run_test_case`, and of `prepare_rollup_binaries` on the
versions `load_versions_replacing_last_with_local_head` has read, for a target
its caller chooses (`SetupTargets`). `run_test_case` may fail between two
binaries, at a config or a migration (`TestCaseFails`). The code takes
the artifacts from an iterator, one for every version that is not the working
tree's; here such a version takes the one whose number is the count of such
versions up to it (`RemoteUpTo`). One process works at a time: the
simulator's fixed container name and ports keep two of them apart, and nothing
in the code locks the cache against others (see section 6).

## 3 Runs

Each property of a passing run is paired in `PROJECT.json` with a mutant: a
plausible bug in the code under which TLC finds that property violated.

| Run | Module | Distinct states | Question |
|---|---|---|---|
| `manager_safety` | `MCRollupManager` | 766,666 | Does the manager keep its order, its storage, its file and its promises through a crash, an edit of the config and a signal? |
| `manager_liveness` | `MCRollupManager` | 24,373 | Does what must happen happen? |
| `config_validate` | `MCTestCase` | 308,594 | Is what `validate` accepts sound, and what it reports right? Do the configs made from a test case's directory fit together in both phases? |
| `soak_test` | `MCSoakCoordinator` | 4,852 | Do workers meet their node, and does every phase end? |
| `upgrade_test` | `UpgradeSimulator` | 159,828 | Do phases and processes stay apart, do they find their databases, and is everything cleaned up? |
| `artifact_cache` | `MCVersionedSetup` | 216,183 | Is what is cached what its key says, and does it reach the version it was built for? |
| `manager_migration_rerun`, `manager_resume_finished`, `manager_signal_dropped`, `soak_resync`, `upgrade_interrupt`, `artifact_contract` | | | The findings of section 5: one property each, violated |

### What they show

**manager_safety.** `CheckpointNamesRunner`: while a node is or may be alive the
file names it. `UpgradedNearStop`: no version is left while the chain is short
of its stop height by more than the slack, although the manager knows heights
only from polls. `MigratedBeforeRun`: a node runs on storage with exactly the
migrations of its version. `ZeroMeansDone`: status 0 only when all versions are
completed. `NoNodeLeftBehind`, `BinaryPinned`.
`ImplementsUpgradeSequence` and `ImplementsManagerProcess` are the refinements.
`ManagerInv` is the inductive invariant, type invariant included.

*Bounds.* Three versions (0–2, 2–4, 4–5), because two boundaries are needed to
tell a skipped version from a repeated one. All of them stop, so that the manager
can end with 0; while the operator has listed fewer, the last one listed does not
stop. Version 1 migrates, so there is a version before and one after a migration.
Slack 1 and heights up to 6 reach below, at, within the slack of, and above
every stop height. Two manager processes give one crash at every point and the
restart after it; a second crash meets the states of the first, since all that
outlives a manager is the file, the storage and strays. One edit is enough for
each mismatch of file and config, two paths for a moved binary, one signal for
each place where it can be lost. (That none of these numbers matters for the
safety properties is proved, section 4.)

**manager_liveness.** `ExitIsHandled`, `OvershootIsStopped`,
`CompletionHandsOver`. `PendingIsForwarded`: a noted signal reaches the node,
unless the node has exited or the manager is down; that a signal noted while the
node exits is dropped is the finding of `manager_signal_dropped`. Two versions that both stop, so
that the manager can complete. *Fairness*: the manager's thread goes on
(`WF_vars(ManagerStep)`: its sleeps and the timeout of `terminate_process` pass
and its system calls return), a migration ends, a starting node comes up or
gives up. Nothing else: no block need be produced, no query need succeed, no
node need exit, no signal need come. A migration that hangs does hang the
manager; the code has no timeout for it.

**config_validate.** Two questions, which share `Validate`. First, every config
written by hand of up to three versions over all heights of two bits, in both
builds (overflow panics in debug, wraps in release). `NeverUnwrapsNone`, `AcceptedPartitionsHeights`, `FirstFaultIsNamed`. Three
versions give a first, a middle and a last; two bits give 0, the maximum and two
heights in between. `AcceptedPartitionsHeights` is an equivalence: `validate`
lets two faults pass, a version that stops below the stop height of the one
before it and, in a release build, a stop height whose successor wraps. An
accepted config without them puts exactly one version in charge of every height,
and with either of them some height has two. (The last version must
have heights of its own.)

Second, test cases. `PhasesStartFresh`: in neither phase does a version find
data of a node on its storage path, although one path per node is cleared. (Only
storage paths: `evm_pinned_cache.json`, which a rollup writes beside its config
file, stays in the run directory between the phases and is not modelled.)
`NodesKeepApart`: no two nodes share a port or a storage path, whichever
versions they have come to. `ConfigsInPlace`: every manager finds its node's
configs, interpolated, in both phases, except when some node's storage path is
the node's config directory, and then it finds none. `MigratesWithItsVersion`:
every node runs the one script of the directory its config file really is in, and
none exactly if there is none; that is the version's own directory, unless the
file is a link out of it. `ResyncIsAccepted`: what was
accepted in the initial run is accepted with extra blocks, also when the sum
wraps. `SoakStopsWithNodes`: the soak manager, which does its own sum, stops
where the nodes do. `SimInv` is the inductive invariant.

*Bounds.* Directories differ from a plain one (a master, a replica, two
versions) in one of three ways: the layout of both version directories (no,
unreadable or any master config; replica configs with every port and one of
three storage paths, one of them the name of the master's directory; gaps; a
single node's config), the heights (every pair of two-bit start and stop
heights, 0 to 2 extra blocks, none or one version, an unreadable
`test_case.toml`), or links and scripts (every home for three of the files,
every set of scripts in both directories). The three are read by different
functions and meet only in `versions`, so varying them together would add
combinations and no cases. Two versions suffice to differ, two nodes to
conflict; the proofs have no such bounds.

**soak_test.** `WorkersMeetTheirNode`: workers run only against the node of
their version, while it is up, until the master's manager is gone. That depends on the test case: `Margins` asks for
a safety margin of `Pace` blocks for each of three steps (poll, SIGTERM, reap)
and for versions longer than the warm-up and five steps, from the first query to
the end of a worker. Nothing in the code checks either. With the `Margins` it is
proved; the instance is as tight as they allow, and margin 2, `Pace` 2 or
`Warmup` 2 each violates it. `Pace = 1` reflects the mock DA's block
time (1000 ms by default) against the coordinator's 100 ms polls and one second
of grace; `Warmup` bounds the blocks a node produces before its sequencer is
ready. `EarlyFailureFailsTest`: a worker that fails before `try_wait` looks
fails the test whatever comes first. `NoSaltReused`: over versions and phases,
also when salts wrap (3 bits, starting at 5, eight salts in all, as many as three
versions and the resync take). `NoWorkerAcrossPhases`. `CoordinatorInv` is the inductive
invariant, type invariant included. Three versions, so that one has a
predecessor and a successor.
`NodesDoneEndsPhase`, under *fairness* of the coordinator's task and of
`run_test_phases` alone: the worker may ignore SIGTERM and nodes may do
anything. The 5 s `SOAK_SHUTDOWN_TIMEOUT` is never reached, as a coordinator
that has been told needs at most its second of grace.

**upgrade_test.** `NothingRunsOnClearedStorage`: nothing of a run is alive when
its storage is cleared. `PhaseStartsOnItsData`: both phases start on a fresh
sequencer database, on the DA data of their test case and with the DA server
not told to stop. `NoContainerLeft` (up to a failing `docker rm`),
`NoProcessLeft`, `TermBeforeKill`, `OneFailureEndsAll`, and `UpgradeTestInv`, the inductive
invariant. Three nodes, so that with one failed there are still two in different states; two test cases, so that what one
leaves behind meets the next; two Ctrl+C; soak testing on or off. *Fairness*:
the tasks are polled and their timers fire; of the managers nothing is assumed,
not even that they react to SIGTERM.

**artifact_cache.** `CacheHoldsOwnCommit`: a complete cached binary was built
from the commit it is cached under, although all commits share one checkout and
one `target/release`. `ImplementsBinaryStore`: once complete, it is never
written to again, so a binary that a manager executes does not change under it.
`VersionsGetTheirBinaries`: the last version listed runs the working tree's
binary, every other one a binary cached for its own commit, after its own migration
(one that a killed copy has left torn included, see section 5).
`SetupInv` is the inductive invariant, that of the cache (`CacheInv`) included.
*Bounds.* Three processes, so that what one
leaves when killed is met by a second whose leavings are met by a third; two
repositories that share a commit and have one more each; five targets, three of
them of one binary with different features, of which two share a cache name;
calls of `prepare_artifacts` with and
without a soak target, test cases in either repository, and `versions.yaml`
absent, empty, with two and with four versions, a repeated commit and a missing
one among them.

Deadlock is not checked for the manager's and the artifact cache's runs (the
bounded supervisor stops starting processes) and for `config_validate` (one
step, and test cases that end); the other modules have an explicit final
stutter and are checked for deadlock.

## 4 Proofs

Proved with TLAPS for all values of the constants that meet the `ASSUME`s of the
component's module. The assumptions on `RollupManager` are what `validate`
guarantees (every version but the last has a stop height), that there is at
least one version and one path, that exit codes are 1–255, and that the values
standing for "absent" and "by signal" are not numbers or paths. Nothing is
assumed about start heights, slack, bounds, or which versions migrate.

| Theorem | Statement |
|---|---|
| `RollupManagerProofs!IInvHolds` | `Spec => []ManagerInv` |
| `TypeCorrect` | `Spec => []TypeOK` |
| `CheckpointSafe` | `Spec => []CheckpointNamesRunner` |
| `UpgradeSafe` | `Spec => []UpgradedNearStop` |
| `MigrationSafe` | `Spec => []MigratedBeforeRun` |
| `ExitSafe` | `Spec => []ZeroMeansDone` |
| `BinarySafe` | `Spec => BinaryPinned` |
| `NoNodeLeft` | `Spec => NoNodeLeftBehind` |
| `Refinement` | `Spec => ImplementsUpgradeSequence` |
| `ProcessRefinement` | `Spec => ImplementsManagerProcess` |
| `UpgradeSimulatorProofs!IInvHolds` | `Spec => []UpgradeTestInv` |
| `ClearedStorageSafe` | `Spec => []NothingRunsOnClearedStorage` |
| `DataSafe` | `Spec => []PhaseStartsOnItsData` |
| `ContainerRemoved` | `Spec => []NoContainerLeft` |
| `ProcessesEnded` | `Spec => []NoProcessLeft` |
| `TermBeforeKillHolds` | `Spec => TermBeforeKill` |
| `ManagerConfigProofs!NoUnwrapOfNone` | `Spec => []NeverUnwrapsNone` |
| `AcceptedIsPartition` | `Spec => []AcceptedPartitionsHeights` |
| `AcceptedIsConsecutive` | `Spec => []Consecutive` |
| `WellFormedIsAccepted` | `Spec => []WellFormedAccepted` |
| `FirstFaultNamed` | `Spec => []FirstFaultIsNamed` |
| `SoakCoordinatorProofs!CoordinatorInvariant` | `Spec => []CoordinatorInv` |
| `EarlyFailureCounts` | `Spec => []EarlyFailureFailsTest` |
| `SaltsAreFresh` | `Spec => NoSaltReused` |
| `PhasesEndWithoutWorker` | `Spec => NoWorkerAcrossPhases` |
| `WorkersFollowTheirNode` | `Margins` implies `Spec => []WorkersMeetTheirNode` |
| `ArtifactCacheProofs!IInvHolds` | `CacheSpec => []CacheInv` |
| `CacheSafe` | `CacheSpec => []CacheHoldsOwnCommit` |
| `StoreRefinement` | `CacheSpec => ImplementsBinaryStore` |
| `RequestsAreAnswered` | `CacheSpec => []HandedOut` |
| `VersionedSetupProofs!CallersUseCache` | `Spec => CacheSpec` |
| `SetupCacheSafe`, `SetupStoreRefinement` | `Spec => []CacheHoldsOwnCommit`, `Spec => ImplementsBinaryStore`: as the run checks them |
| `SetupInvariant` | `Spec => []SetupInv` |
| `VersionsPrepared` | `Spec => []VersionsGetTheirBinaries` |
| `TestCaseProofs!SimInvHolds` | `SimSpec => []SimInv` |
| `StorageFresh` | `SimSpec => []PhasesStartFresh` |
| `NodesApart` | `SimSpec => []NodesKeepApart` |
| `ConfigsFound` | `SimSpec => []ConfigsInPlace` |
| `MigrationsMatch` | `SimSpec => []MigratesWithItsVersion` |
| `ResyncAccepted` | `SimSpec => []ResyncIsAccepted` |
| `SoakFollows` | `SimSpec => []SoakStopsWithNodes` |

**The manager.** None of its properties is inductive. That no version is left
early rests on `PolledInv` (what has been polled is never above the storage) and
on `AloneInv`: heights may be polled from a node left behind by an earlier
manager, but then the manager's own node cannot have come up, so it cannot exit
with 0. That the checkpoint names the runner rests on `FileInv`, which follows
the file from before its write (it names the version or its predecessor, and in
the second case nothing runs and all migrations are done) to after. That
migrations are exact rests on `MigrationInv`: those before the file's version
are all applied, that version's own perhaps, from the launch on certainly, and
no migration still running belongs to a later version. `StrayInv` ties a node
left behind to the file, `ExitInv` and `OrderInv` tie the exit status and the
loop to the heights. One lemma per part shows that each step preserves it,
citing the other parts. The refinements map each step to a step of the abstract
specification or a stutter; `WriteCheckpoint` is the abstract `Upgrade`.

**The upgrade test.** `RunnerInv` and `ResultInv` say that main goes on only
after a run that was ok, and that in such a run every manager has been reaped;
`NodeInv` that a node needs a live manager and that nodes are left behind by
failed or dropped runs only. Together they leave nothing to be alive when the
storage is cleared. `RegistryInv` says that whoever is watched is registered,
hence has had SIGTERM when the grace period ends; it is why `run_nodes` must
register all managers before it watches any. `DataInv` follows the container
and the databases: from `docker run` to the end of the phases the container is
this test case's, whatever an earlier one has left; the sequencer database is
fresh until a node can write to it, and no node can when it is recreated;
nobody sends the DA server SIGTERM while a run goes well. `EndInv` says that
whatever is left to start something is gone when the simulator ends.

**The artifact cache.** A cached binary is right because of what holds between
`checkout` and the copy: `CheckoutInv` says that the checkout stands at the
requested commit and that the build output is that of this request, not of an
earlier one, `WriterInv` that the process found nothing cached and is the only
writer, `RequestInv` that it is there on behalf of a request with a target. A
kill breaks none of them, as a process starts over with `check`. In the
refinement a process killed while it copies leaves the abstract writer without
its file complete, which is a step of `BinaryStore`.

**Test cases.** `LoadedFacts` says what the checks of `load_test_case` are good
for: ports and paths are compared for the first version only, but every other
version's have been checked to be the same. `SimInv` carries the test case
(`LoadedInv`), the configs made from it (`VersionsInv`), the soak manager's
heights (`SoakInv`) and the files and data (`FilesInv`) through the phases.
`ResyncAccepted` rests on `LastStopUnchecked`: `validate` compares a stop height
with the next version's start height only, so the last one may be anything but
missing. It is assumed that `None` is no migration path and that the bound on
replicas is a number.

**The manager's config.** `RestChecked` says what a verdict of `validate` stands
for: the version named is the first that is wrong, or all were looked at. That
there is a first one for a list of any length (`MinIsMember`) is proved from the
well-foundedness of finite sets under inclusion, as the library's induction
cannot be used. `NoUnwrapOfNone` follows: the stop height unwrapped for a version
is the one whose absence the version before it would have been refused for. For
the heights, without the two faults `StartsRise` and `RangesCover` argue with
least counterexamples: the first version that does not start above an earlier one
would start right above one that does, and the first version that reaches a
height begins at or below it. With a fault two versions are in charge of some
height: after a stop height that wraps the next version starts
at 0, where the first one is (`WrapShares`), and the last version that stops below
its predecessor's stop hands its successor a height that an earlier version has
(`FallBackShares`). `NothingShared` is the other direction: without a fault no two
versions share a height.
`FirstFaultNamed` cuts the config before the version named and finds that none of
its checks has changed. `AcceptedIsConsecutive` is what the schedule of
`RollupManager` is assumed to be; `WellFormedIsAccepted` is the converse:
`validate` refuses no config whose versions follow each other without overflow,
such as those `RollupManager`'s operator writes. Heights have any width and lists any length.

**The soak coordinator.** `CoordinatorInv` has five parts. `TaskInv`: there is a worker
exactly while the coordinator soaks, so none can be alive when it returns; that
is `NoWorkerAcrossPhases`. `EarlyInv`: a failure is with the worker, still to be
reaped, or it is the coordinator's result, and both fail the test. `SaltInv`:
the salts taken so far are the `Workers * n` first ones from the starting salt
on, the resync counted after the initial run; as all of them together are at
most `2^SaltBits` (an assumption: 32 bits in the code), the next ones are others,
wrapped or not (`WrapApart`). `NodeInv` and `FollowInv` are for
`WorkersMeetTheirNode`: until the master is gone, it is at the coordinator's
version or, while the coordinator has no worker, at the one before. `FollowInv`
counts blocks: how far the node can be at each step, given that it makes at most
`Pace` between two steps of the coordinator. It is inductive with the `Margins`
only and part of `CoordinatorInv` under that hypothesis, as nothing in the code
guarantees them; the other four parts hold without.

**The versioned setup.** Its three callers only ever start jobs of the kind
`CacheSpec` allows and leave the cache alone otherwise, so they implement it
(`CallersUseCache`) and what is proved of the cache holds with them.
`VersionsPrepared` takes three more facts: `RequestsAreAnswered`, what has been
handed out are the requests' keys in their order, and they stay cached; `ListInv`,
the requests are those of the list read, until the next caller comes; and
`DealtOut`, a lemma on lists: `RemoteUpTo` increases with every version that is
not the working tree's, so it counts that version's request and no other
(`PreparedInv` keeps the result). It is assumed that every job the callers make
has targets and commits of the cache's constants, that `LocalHead` is no commit,
and that versions are listed with a commit or none.

Not proved, and left to TLC: the six liveness properties (`ExitIsHandled`,
`OvershootIsStopped`, `CompletionHandsOver`, `PendingIsForwarded`,
`NodesDoneEndsPhase`, `OneFailureEndsAll`), as proofs under fairness need
`ENABLED`, and the violated properties of section 5. Every other property of a
passing run is proved for all values of the constants.

## 5 Findings

Each is a run TLC must find violated; `PROJECT.json` quotes the lines.

* `manager_migration_rerun`: a migration runs again on every restart of its
  version, on storage that version has already written to (`runner.rs:221`;
  `config.rs:15` says between the previous version's stop and this one's start).
  A migration that is not idempotent keeps its version from restarting.
* `manager_resume_finished`: after a crash between a version's end and the next
  checkpoint the manager resumes at the finished version, which refuses to
  start, on this restart and every later one (`runner.rs:165`; `checkpoint.rs:3`).
* `manager_signal_dropped`: a SIGTERM between two versions is lost and the next
  version is launched regardless (`runner.rs:308`; README:61).
* `soak_resync`: in the resync the last version's soak workers are started
  against the first version's node (`sov-soak-manager/src/lib.rs:74`; the
  simulator's README:31).
* `upgrade_interrupt`: without soak testing Ctrl+C kills all managers at once,
  leaving their nodes, before the SIGTERM it is said to send
  (`upgrade-simulator/src/lib.rs:158`, its own doc comment at 55).
* `artifact_contract`: in a cache directory that holds another repository's clone
  a commit that the configured repository has cannot be built
  (`sov-versioned-artifact-builder/src/lib.rs:260`, its doc comments at 256 and
  418). The same property also fails for the copy that a killed process left
  incomplete, which is handed out from then on, and for a binary that was cached
for another target under the same cache name. It excepts what a killed git has
  left, which fails but gives nothing wrong.

Noted while modelling, without a run: a node that exits with 0 within the slack
below its stop height (a forwarded SIGTERM at that moment, say) counts as
completed and the next version is started (`runner.rs:474`; README:60 promises
a non-zero exit), while one that stops exactly at its stop height is refused as
premature if the last successful poll was more than the slack behind
(`runner.rs:487`; README:28); both follow from judging an exit by a polled
height. A test case that does not load is logged and left out, and the simulator
ends with 0 if the others pass (`upgrade-simulator/src/main.rs:104`, 121). A
replica config after a gap in the numbering is ignored, not refused
(`test_case.rs:401`, whose comment requires contiguous numbers). A config that
is a link takes the migration of the directory it points to
(`test_case.rs:178`). A storage path that is the name of a node (`master`) has
its config files removed before the first run. `validate` never compares a version's stop
height with its own start height; the comment at `upgrade-simulator/src/lib.rs:366`
takes dropping a `JoinHandle` for killing the task, but it detaches it;
`registry.clear()` between the phases forgets the mock DA server, which from
then on gets SIGKILL only; a test case passes if its nodes finish before any
soak worker was started; a worker that fails because of the coordinator's
SIGTERM cannot be told from one that failed just before, and is only logged.

## 6 Limits

Not modelled inside the modelled components: log output, argument and file
parsing, TOML and JSON, HTTP beyond "answers or fails", a query that never
returns, reuse of a pid after its process was reaped, real time (except as
`Pace` and `Warmup`), a panicking node task or a failing `wait()` of the node
runner as distinct from a failing manager, a failing `try_wait` or `wait` in
`stop_soak_process` (only logged in the code), SIGTERM sent to a worker that
exits between `try_wait` and `kill` (no other task of the coordinator's runs
there), managers killed from outside during an upgrade test. An
overshoot after the last poll is not forbidden by any property: the code cannot
see it, and `UpgradedNearStop` bounds heights from below only.

In the artifact cache: one process at a time. Two at once could move the
checkout under each other's build; the simulator's container name and ports
keep two simulators apart, and for other callers the code makes no promise. A
kill takes git and cargo along (they are in the process group of an interrupt);
one that outlived its parent would be such a second process. Commits are full
hashes, never branches, so that a cached binary does not go stale. Disk
corruption and someone editing the cache are left out.

In test cases: storage paths are compared as spelled, as in the code, and two
spellings of one path are two paths; the run directory is removed at the start.
Which error a directory is refused with makes no difference, as it is logged
only.

Not modelled at all:

* *`build_rollup_manager_binary`* of the versioned setup: a clone and a build in
  a directory of its own, used by nothing in the repository but its callers
  outside.
* git, cargo and docker are external programs, modelled by what the code relies
  on.
* *Deleting the checkpoint and the state* to resync a node under the manager;
  the simulator's resync, which starts anew on cleared storage, is in
  `UpgradeSimulator`.
* *Tests and their utilities*: no logic of their own.

## 7 Plan

The order is by importance: first what runs in production, then what tests it.

| | Module | State |
|---|---|---|
| 1 | `RollupManager`, `UpgradeSequence`, `RollupManagerProofs` | done |
| 2 | `ManagerConfig`, tied to 1 by `ScheduleIsValid`; `ManagerConfigProofs` | done |
| 3 | `ManagerProcess`, as the interface between 1 and 5 | done |
| 4 | `SoakCoordinator`, `SoakCoordinatorProofs` | done |
| 5 | `UpgradeSimulator`, `UpgradeSimulatorProofs`, databases and container included | done |
| 6 | `ArtifactCache`, `BinaryStore`, `ArtifactCacheProofs` | done |
| 7 | `TestCase`, `TestCaseProofs` | done |
| 8 | `VersionedSetup`, `VersionedSetupProofs` | done |
| 9 | a resync action in `RollupManager` (checkpoint and state deleted, together or not) | next; the invariant has to be extended with it |
