-------------------------- MODULE SoakCoordinator --------------------------
(***************************************************************************)
(* Soak testing beside an upgrade test: run_soak_coordinator               *)
(* (src/crates/sov-soak-manager/src/lib.rs) starts one worker binary per   *)
(* version while the nodes go through their versions, and run_with_soak    *)
(* and run_test_phases (src/crates/upgrade-simulator/src/lib.rs) join it   *)
(* to the nodes, first for the initial run and then for the resync.        *)
(*                                                                         *)
(* The coordinator is an async task: task names the await it is suspended  *)
(* at, and everything between two awaits is one action.  The other actors  *)
(* are the master node, which goes through its versions and is polled over *)
(* HTTP, the node runner, which reports the end of all nodes through the   *)
(* shutdown channel, and the worker process.                               *)
(***************************************************************************)
EXTENDS Integers, FiniteSets

CONSTANTS
    K,          \* versions of the test case; 0 .. K-1
    Stop,       \* Stop[k]: stop_height of version k
    Safety,     \* safety_stop_blocks
    Extra,      \* extra_blocks_after_resync
    Workers,    \* num_workers
    Salt0,      \* salt of the test case
    SaltBits,   \* bits of a salt (32 in the code)
    Pace,       \* bound: blocks produced between two steps of the coordinator
    Warmup,     \* bound: blocks a node produces before its sequencer is ready
    None        \* stands for an absent optional value

Versions == 0 .. K - 1
Salts    == 0 .. 2^SaltBits - 1

ASSUME VersionAssumption ==
    /\ K \in Nat \ {0}
    /\ Stop \in [Versions -> Nat]
ASSUME SoakAssumption ==
    /\ {Safety, Extra, Workers, Pace, Warmup, SaltBits} \subseteq Nat
    /\ Salt0 \in Salts
    /\ Workers * (K + 1) <= 2^SaltBits

VARIABLES
    \* run_test_phases
    phase,      \* "initial" or "resync"
    test,       \* verdict on the test case
    \* The nodes, as their runner and their API show them.
    nodes,      \* run_nodes: running, failing with or without the master, or its result
    node,       \* the version the master runs or will run next
    up,         \* its API answers
    height,     \* its rollup height
    \* The channel from run_nodes to the coordinator.
    shutdown,   \* the sender has sent, or was dropped
    \* The coordinator.
    task,       \* where the task is suspended
    idx,        \* index of its loop
    salt,       \* current_salt
    prevStop,   \* previous_stop_height
    leaving,    \* the worker is being stopped because of the shutdown
    result,     \* what the task returned
    \* The worker process.
    worker,     \* its status
    code,       \* its exit code once it has exited
    \* Bounds and history.
    due,        \* blocks produced since the coordinator's last step
    used,       \* salts used by workers so far
    early       \* a worker failed before the coordinator turned to stopping it

nodeVars == <<nodes, node, up, height, shutdown>>
loopVars == <<idx, salt, prevStop, leaving>>
vars == <<phase, test, nodeVars, task, loopVars, result, worker, code, due, used, early>>

Tasks   == {"ready", "height", "soaking", "stopping", "grace", "final", "ended"}
Errors  == {"SoakTestStartFailed", "SoakTestWaitFailed", "SoakTestFailed"}
Results == Errors \cup {"Ok", "Panicked"}

ASSUME NoneAssumption == None \notin Results

\* The stop height the nodes' configs give version k: build_resync_versions
\* puts the last version's off by the extra blocks.
NodeStop(k) == IF phase = "resync" /\ k = K - 1 THEN Stop[k] + Extra ELSE Stop[k]

\* The height at which version k takes over from the one before it.
StartOf(k) == IF k = 0 THEN 0 ELSE Stop[k - 1]

\* The coordinator's config: that of build_soak_config, or its for_resync.
SoakLen       == IF phase = "initial" THEN K ELSE 1
BinaryOf(i)   == IF phase = "initial" THEN i ELSE K - 1
SoakStopOf(i) == NodeStop(BinaryOf(i))

\* stop_height.saturating_sub(safety_stop_blocks)
SafelyBefore(stop) == IF stop > Safety THEN stop - Safety ELSE 0

Target(i) == SafelyBefore(SoakStopOf(i))

\* The salts of the workers of a process started with salt s.
WorkerSalts(s) == {(s + w) % 2^SaltBits : w \in 0 .. Workers - 1}

\* Mutant: the salt is not kept to its width.
NextSalt_Unbounded(s) == s + Workers

NextSalt(s) == (s + Workers) % 2^SaltBits

\* Mutant: the resync starts from the test case's salt again.
ResyncSalt_Same == Salt0

ResyncSalt == (Salt0 + Workers * K) % 2^SaltBits

TypeOK ==
    /\ phase \in {"initial", "resync"}
    /\ test \in {"running", "passed", "failed"}
    /\ nodes \in {"running", "failing", "gone", "ok", "failed"}
    /\ node \in 0 .. K
    /\ up \in BOOLEAN
    /\ height \in Nat
    /\ shutdown \in BOOLEAN
    /\ task \in Tasks
    /\ idx \in Versions
    /\ salt \in Salts
    /\ prevStop \in Nat
    /\ leaving \in BOOLEAN
    /\ result \in Results \cup {None}
    /\ worker \in {"none", "running", "exited"}
    /\ code \in {0, 1}
    /\ due \in 0 .. Pace
    /\ used \subseteq Salts
    /\ early \in BOOLEAN

Init ==
    /\ phase = "initial" /\ test = "running"
    /\ nodes = "running" /\ node = 0 /\ up = FALSE /\ height = 0
    /\ shutdown = FALSE
    /\ task = "ready" /\ idx = 0 /\ salt = Salt0 /\ prevStop = 0
    /\ leaving = FALSE /\ result = None
    /\ worker = "none" /\ code = 0
    /\ due = 0 /\ used = {} /\ early = FALSE

-----------------------------------------------------------------------------
(* Waiting for the version's node.  Both selects are biased: a shutdown     *)
(* that has been sent is taken before anything else.                        *)

Return(r) ==
    /\ task' = "ended"
    /\ result' = r

\* The ready query, then the height query, else 100 ms of sleep.
SequencerReady ==
    /\ task = "ready"
    /\ ~shutdown
    /\ up
    /\ task' = "height"
    /\ due' = 0
    /\ UNCHANGED <<phase, test, nodeVars, loopVars, result, worker, code, used, early>>

\* Mutant: the node may still stand at the previous stop height.
HeightAdvanced_NotStrictly == up /\ height >= prevStop

HeightAdvanced == up /\ height > prevStop

\* The sequencer may be syncing for the first blocks of its node.
MayBeUnready == ~up \/ height <= StartOf(node) + Warmup

NotReady ==
    /\ task \in {"ready", "height"}
    /\ ~shutdown
    /\ task = "ready" => MayBeUnready
    /\ task = "height" => ~HeightAdvanced
    /\ task' = "ready"
    /\ due' = 0
    /\ UNCHANGED <<phase, test, nodeVars, loopVars, result, worker, code, used, early>>

\* start_soak_process
StartWorker ==
    /\ task = "height"
    /\ ~shutdown
    /\ HeightAdvanced
    /\ worker' = "running"
    /\ used' = used \cup WorkerSalts(salt)
    /\ task' = "soaking"
    /\ due' = 0
    /\ UNCHANGED <<phase, test, nodeVars, loopVars, result, code, early>>

StartFails ==
    /\ task = "height"
    /\ ~shutdown
    /\ HeightAdvanced
    /\ Return("SoakTestStartFailed")
    /\ due' = 0
    /\ UNCHANGED <<phase, test, nodeVars, loopVars, worker, code, used, early>>

-----------------------------------------------------------------------------
(* Soaking, until the stop height is near, the worker ends or all is over.  *)

ReceiveShutdown ==
    /\ task \in {"ready", "height", "soaking"}
    /\ shutdown
    /\ IF worker = "none"
         THEN Return("Ok") /\ UNCHANGED leaving
         ELSE task' = "stopping" /\ leaving' = TRUE /\ UNCHANGED result
    /\ due' = 0
    /\ UNCHANGED <<phase, test, nodeVars, idx, salt, prevStop, worker, code, used, early>>

StopNear ==
    /\ task = "soaking"
    /\ ~shutdown
    /\ up
    /\ height >= Target(idx)
    /\ task' = "stopping"
    /\ due' = 0
    /\ UNCHANGED <<phase, test, nodeVars, loopVars, result, worker, code, used, early>>

StopFar ==
    /\ task = "soaking"
    /\ ~shutdown
    /\ ~up \/ height < Target(idx)
    /\ due' = 0
    /\ UNCHANGED <<phase, test, nodeVars, task, loopVars, result, worker, code, used,
                   early>>

\* A worker that ends by itself is an error, whatever its exit code.
WorkerEndedEarly ==
    /\ task = "soaking"
    /\ ~shutdown
    /\ worker = "exited"
    /\ worker' = "none"
    /\ Return("SoakTestFailed")
    /\ due' = 0
    /\ UNCHANGED <<phase, test, nodeVars, loopVars, code, used, early>>

\* wait() itself fails; the worker is killed as its handle is dropped.
WaitFails ==
    /\ task = "soaking"
    /\ ~shutdown
    /\ worker' = "none"
    /\ Return("SoakTestWaitFailed")
    /\ due' = 0
    /\ UNCHANGED <<phase, test, nodeVars, loopVars, code, used, early>>

-----------------------------------------------------------------------------
(* stop_soak_process, and the turn of the loop after it.                    *)

\* The worker is gone: return, or go on to the next version.  Salts are added
\* with overflow: a debug build panics there.
Stopped ==
    /\ worker' = "none"
    /\ IF leaving THEN Return("Ok") /\ UNCHANGED <<idx, salt, prevStop>>
       ELSE \/ /\ salt' = NextSalt(salt)
               /\ prevStop' = SoakStopOf(idx)
               /\ IF idx + 1 < SoakLen
                    THEN idx' = idx + 1 /\ task' = "ready"
                    ELSE idx' = idx /\ task' = "final"
               /\ UNCHANGED result
            \/ /\ salt + Workers >= 2^SaltBits
               /\ Return("Panicked")
               /\ UNCHANGED <<idx, salt, prevStop>>
    /\ UNCHANGED leaving

\* Mutant: the status try_wait returns is only logged.
TryWaitFindsExit_Logged ==
    /\ task = "stopping"
    /\ worker = "exited"
    /\ Stopped
    /\ due' = 0
    /\ UNCHANGED <<phase, test, nodeVars, code, used, early>>

TryWaitFindsExit ==
    /\ task = "stopping"
    /\ worker = "exited"
    /\ IF code = 0 THEN Stopped
       ELSE worker' = "none" /\ Return("SoakTestFailed") /\ UNCHANGED loopVars
    /\ due' = 0
    /\ UNCHANGED <<phase, test, nodeVars, code, used, early>>

\* try_wait finds the worker running; it is sent SIGTERM.
Terminate ==
    /\ task = "stopping"
    /\ worker = "running"
    /\ task' = "grace"
    /\ due' = 0
    /\ UNCHANGED <<phase, test, nodeVars, loopVars, result, worker, code, used, early>>

\* The worker ends within the second it is given, with whatever status.
GraceReaps ==
    /\ task = "grace"
    /\ worker = "exited"
    /\ Stopped
    /\ due' = 0
    /\ UNCHANGED <<phase, test, nodeVars, code, used, early>>

\* Mutant: there is no timeout.
GraceKills_Waits ==
    task = "grace" /\ worker = "running" /\ UNCHANGED vars

\* It does not; it is sent SIGKILL and reaped.
GraceKills ==
    /\ task = "grace"
    /\ worker = "running"
    /\ Stopped
    /\ due' = 0
    /\ UNCHANGED <<phase, test, nodeVars, code, used, early>>

\* The last select: the shutdown, or one second.
FinalWaitEnds ==
    /\ task = "final"
    /\ Return("Ok")
    /\ due' = 0
    /\ UNCHANGED <<phase, test, nodeVars, loopVars, worker, code, used, early>>

Coordinator ==
    \/ SequencerReady \/ NotReady \/ StartWorker \/ StartFails
    \/ ReceiveShutdown \/ StopNear \/ StopFar \/ WorkerEndedEarly \/ WaitFails
    \/ TryWaitFindsExit \/ Terminate \/ GraceReaps \/ GraceKills \/ FinalWaitEnds

-----------------------------------------------------------------------------
(* run_with_soak and run_test_phases.                                       *)

\* Mutant: the coordinator is not waited for.
PhaseDone_NodesOnly == nodes \in {"ok", "failed"}

\* run_with_soak has awaited the nodes and then the coordinator.
PhaseDone == nodes \in {"ok", "failed"} /\ task = "ended"

\* What it returns: a coordinator's error unless the nodes have one; a panic
\* of the coordinator is only logged.
PhaseOk == nodes = "ok" /\ result \notin Errors

\* The storage is cleared and the nodes start over, with a coordinator for the
\* last version if there are extra blocks.
StartResync ==
    /\ test = "running" /\ phase = "initial"
    /\ PhaseDone /\ PhaseOk
    /\ phase' = "resync"
    /\ nodes' = "running" /\ node' = 0 /\ up' = FALSE /\ height' = 0
    /\ shutdown' = FALSE
    /\ IF Extra = 0 THEN task' = "ended" /\ result' = "Ok"
                    ELSE task' = "ready" /\ result' = None
    /\ idx' = 0 /\ salt' = ResyncSalt /\ prevStop' = 0 /\ leaving' = FALSE
    /\ due' = 0
    /\ UNCHANGED <<test, worker, code, used, early>>

\* for_resync adds up the salt before: a debug build panics where it wraps, and
\* the simulator with it.
ResyncPanics ==
    /\ test = "running" /\ phase = "initial"
    /\ PhaseDone /\ PhaseOk
    /\ Extra > 0
    /\ Salt0 + (Workers * K) >= 2^SaltBits
    /\ test' = "failed"
    /\ UNCHANGED <<phase, nodeVars, task, loopVars, result, worker, code, due, used, early>>

EndTest ==
    /\ test = "running"
    /\ PhaseDone
    /\ ~PhaseOk \/ phase = "resync"
    /\ test' = IF PhaseOk THEN "passed" ELSE "failed"
    /\ UNCHANGED <<phase, nodeVars, task, loopVars, result, worker, code, due, used, early>>

-----------------------------------------------------------------------------
(* The worker process and the nodes.                                        *)

WorkerExits ==
    /\ worker = "running"
    /\ worker' = "exited"
    /\ code' \in {0, 1}
    /\ early' = (early \/ (code' # 0 /\ task \in {"soaking", "stopping"}))
    /\ UNCHANGED <<phase, test, nodeVars, task, loopVars, result, due, used>>

NodeUp ==
    /\ nodes \in {"running", "failing"} /\ node < K /\ ~up
    /\ up' = TRUE
    /\ UNCHANGED <<phase, test, nodes, node, height, shutdown, task, loopVars, result,
                   worker, code, due, used, early>>

\* One block per --block-time-ms of the mock DA server: no more than Pace of
\* them between two steps of the coordinator, which sleep 100 ms or wait 1 s.
ProduceBlock ==
    /\ up
    /\ height < NodeStop(node)
    /\ due < Pace
    /\ height' = height + 1
    /\ due' = due + 1
    /\ UNCHANGED <<phase, test, nodes, node, up, shutdown, task, loopVars, result,
                   worker, code, used, early>>

\* The node stops at its stop height; its manager goes on to the next version.
NodeStops ==
    /\ up
    /\ height = NodeStop(node)
    /\ up' = FALSE
    /\ node' = node + 1
    /\ UNCHANGED <<phase, test, nodes, height, shutdown, task, loopVars, result,
                   worker, code, due, used, early>>

\* A manager fails, the master's or a replica's: run_nodes sends the others SIGTERM
\* and gives them its grace period.
NodeFails ==
    /\ nodes = "running"
    /\ \/ nodes' = "failing" /\ UNCHANGED up
       \/ nodes' = "gone" /\ up' = FALSE
    /\ UNCHANGED <<phase, test, node, height, shutdown, task, loopVars, result,
                   worker, code, due, used, early>>

\* The master ends in the grace period, by the SIGTERM or by itself.
MasterEnds ==
    /\ nodes = "failing"
    /\ nodes' = "gone"
    /\ up' = FALSE
    /\ UNCHANGED <<phase, test, node, height, shutdown, task, loopVars, result,
                   worker, code, due, used, early>>

\* run_nodes returns: tx.send, or the sender dropped on an early return.  A node
\* that is still up is asked by nobody any more: the shutdown goes first.
NodesEnd ==
    /\ \/ nodes = "running" /\ node = K /\ nodes' = "ok"
       \/ nodes \in {"failing", "gone"} /\ nodes' = "failed"
    /\ up' = FALSE
    /\ shutdown' = TRUE
    /\ UNCHANGED <<phase, test, node, height, task, loopVars, result,
                   worker, code, due, used, early>>

\* The test case has its verdict: nothing is left to do.
Over == test # "running" /\ UNCHANGED vars

Next ==
    \/ Coordinator
    \/ StartResync \/ ResyncPanics \/ EndTest
    \/ WorkerExits
    \/ NodeUp \/ ProduceBlock \/ NodeStops \/ NodeFails \/ MasterEnds \/ NodesEnd
    \/ Over

Spec == Init /\ [][Next]_vars

\* The executor polls a task that has been woken, the sleeps and the grace
\* second pass; nothing is assumed of the nodes or of the worker.
Fairness == WF_vars(Coordinator) /\ WF_vars(StartResync \/ ResyncPanics \/ EndTest)

FairSpec == Spec /\ Fairness

-----------------------------------------------------------------------------
(* What must hold.                                                          *)

\* What a test case needs for that: a safety margin of Pace blocks for each of
\* three steps (poll, SIGTERM, reap), and versions that are longer than Warmup and
\* the five steps from the first query to the end of a worker.  Nothing in the code
\* sees to it.
Margins ==
    /\ 3 * Pace <= Safety
    /\ \A k \in Versions : StartOf(k) + Warmup + 5 * Pace < Stop[k]

\* In the initial run, as long as the master has a manager, the workers of a version
\* only ever work against a node of that version that is up, and have ended before it
\* stops: they start after the restart and end before the stop height.  This needs
\* the Margins.
WorkersMeetTheirNode ==
    (phase = "initial" /\ worker = "running" /\ nodes \notin {"gone", "failed"}) =>
        up /\ node = BinaryOf(idx)

\* A worker that fails before the try_wait of the coordinator that stops it fails
\* the test case, even when the stop height or the shutdown come first.
EarlyFailureFailsTest == test = "passed" => ~early

\* No salt is given to workers twice, over all versions and both phases.
NoSaltReused ==
    [][task = "height" /\ task' = "soaking" => WorkerSalts(salt) \cap used = {}]_vars

\* No worker lives on while the storage is cleared for the resync or after the
\* verdict.  (run_with_soak waits for the coordinator, the coordinator for the
\* worker.)
NoWorkerAcrossPhases ==
    [][phase' # phase \/ test' # test => worker = "none" /\ worker' = "none"]_vars

\* Once the nodes have ended the phase ends, whatever the worker does.
NodesDoneEndsPhase ==
    \A p \in {"initial", "resync"} :
        (phase = p /\ nodes \in {"ok", "failed"}) ~> (phase # p \/ test # "running")

-----------------------------------------------------------------------------
(* The inductive invariant.                                                 *)

Waiting  == {"ready", "height"}
Soaking  == {"soaking", "stopping", "grace"}

\* The coordinator has a worker exactly while it soaks, and returns once.
TaskInv ==
    /\ worker # "none" <=> task \in Soaking
    /\ result # None <=> task = "ended"
    /\ phase = "resync" => idx = 0
    /\ test = "passed" => PhaseDone /\ PhaseOk

\* A failure is still to be found by wait(), or has been reported.
EarlyInv ==
    early => \/ task \in {"soaking", "stopping"} /\ worker = "exited" /\ code # 0
             \/ result \in {"SoakTestWaitFailed", "SoakTestFailed"}

\* Only a node whose manager runs answers; the shutdown is sent when no node runs.
NodeInv ==
    /\ up => nodes \in {"running", "failing"} /\ node < K
    /\ nodes = "ok" => node = K
    /\ shutdown => nodes \in {"ok", "failed"}

\* The salts n versions take, one version after the other.
SaltAfter(n)  == (Salt0 + Workers * n) % 2^SaltBits
SaltsUpTo(n)  == {(Salt0 + j) % 2^SaltBits : j \in 0 .. Workers * n - 1}

\* The versions soaked before the one at idx, in both phases.
Soaked == IF phase = "initial" THEN idx ELSE K

SaltInv ==
    /\ task \in Waiting \cup Soaking => salt = SaltAfter(Soaked)
    /\ used \subseteq SaltsUpTo(IF task \in Waiting THEN Soaked ELSE Soaked + 1)

\* Until the master is gone, it is at the version the coordinator is at, or at
\* the one before it while that has no worker any more.  The coordinator's last
\* step was at most `due` blocks ago: it starts the worker within two steps of the
\* warm-up, and has three steps left when it sees the stop height near.
FollowInv ==
    (phase = "initial" /\ nodes \notin {"gone", "failed"}) =>
        /\ StartOf(node) <= height
        /\ node < K => height <= Stop[node]
        /\ ~up => height = StartOf(node)
        /\ task \in Waiting => node \in {idx - 1, idx} /\ prevStop = StartOf(idx)
        /\ task \in Soaking => up /\ node = idx
        /\ LET begin == StartOf(idx) + Warmup + due
               near  == SafelyBefore(Stop[idx]) + due
           IN  /\ task = "ready"    => height <= begin
               /\ task = "height"   => height <= begin + Pace
               /\ task = "soaking"  => height <= begin + 2 * Pace \/ height < near
               /\ task = "stopping" => height <= begin + 3 * Pace \/ height < near + Pace
               /\ task = "grace"    => height <= begin + 4 * Pace \/ height < near + 2 * Pace

CoordinatorInv ==
    /\ TypeOK
    /\ TaskInv /\ EarlyInv /\ NodeInv /\ SaltInv
    /\ Margins => FollowInv

-----------------------------------------------------------------------------
(* What the documentation says and the code does not do.                    *)

\* In the resync the soak binary is spawned once the last version is reached
\* (upgrade-simulator README).
ResyncSoaksLastVersion ==
    [][(phase = "resync" /\ worker = "none" /\ worker' = "running") => node = K - 1]_vars

=============================================================================
