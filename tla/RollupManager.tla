--------------------------- MODULE RollupManager ---------------------------
(***************************************************************************)
(* The rollup manager (src/src/runner.rs, checkpoint.rs, main.rs): it runs *)
(* the configured versions of a rollup node one after the other, saving    *)
(* the current version in a checkpoint file, running each version's        *)
(* migration first, and watching the node's height to tell a completed     *)
(* version from a node that merely stopped.                                *)
(*                                                                         *)
(* The manager is one sequential thread: the variable mgr is its program   *)
(* counter and there is one action per step another actor can come between *)
(* (file truncation and file write, spawn and exit, height query and       *)
(* try_wait).  The other actors are the node process, the migration        *)
(* process, whoever sends the manager signals or kills it, the service     *)
(* supervisor that restarts it, and the operator who edits the config file *)
(* between two runs.                                                       *)
(***************************************************************************)
EXTENDS Integers

CONSTANTS
    N,          \* number of versions the operator ever configures; 0 .. N-1
    Stop,       \* Stop[v]: the stop_height of version v
    Migrating,  \* the versions configured with a migration_path
    Slack,      \* --height-slack
    Paths,      \* the rollup binary paths in use
    None,       \* stands for an absent optional value
    BySignal,   \* exit status of a process terminated by a signal
    FailCodes,  \* the non-zero exit codes of nodes and migrations
    MaxHeight,  \* bound: blocks ever produced
    MaxStarts,  \* bound: manager processes ever started
    MaxSignals, \* bound: signals ever sent to the manager
    MaxEdits    \* bound: operator's edits of the config file

Versions == 0 .. N - 1

\* What ManagerConfig::validate guarantees of a loaded config: every version
\* but the last has a stop height.
ASSUME NAssumption == N \in Nat \ {0}
ASSUME StopAssumption ==
    /\ Stop \in [Versions -> Nat \cup {None}]
    /\ \A v \in Versions : v < N - 1 => Stop[v] # None
ASSUME ConfigAssumption ==
    /\ Migrating \subseteq Versions
    /\ Slack \in Nat
    /\ Paths # {}
ASSUME ValueAssumption ==
    /\ None \notin Nat \cup Paths
    /\ FailCodes \subseteq 1 .. 255
    /\ BySignal \notin Nat
    /\ BySignal # None
ASSUME BoundAssumption ==
    {MaxHeight, MaxStarts, MaxSignals, MaxEdits} \subseteq Nat

VARIABLES
    \* The command line and the config file, fixed while a manager runs.
    useCheckpoint,  \* --checkpoint-file given, or --no-checkpoint-file
    count,          \* versions listed in the config file now
    path,           \* path[v]: the rollup_binary of version v
    \* The manager process.
    mgr,            \* where its thread is
    cur,            \* loop index i of run()
    lastKnown,      \* last_known_height
    exit,           \* exit status of the last manager process, None if it runs
    handler,        \* disposition of SIGTERM and SIGQUIT in the process
    pending,        \* a signal the next signals.pending() will return
    owed,           \* a signal came and no live node has been sent it yet
    \* The checkpoint file.
    ckpt,
    \* The node process the manager has spawned.
    child,          \* its status
    code,           \* its exit status once it has exited
    \* The node's storage, which outlives every process.
    height,         \* rollup height
    migrated,       \* the migrations that have been applied
    \* Processes a dead manager left behind.
    stray,          \* version of a running node, or None
    strayMigs,      \* versions whose migration is still running
    \* How often the environment has acted.
    starts, signals, edits

configVars == <<useCheckpoint, count, path>>
loopVars   == <<mgr, cur, lastKnown, exit>>
sigVars    == <<handler, pending, owed>>
childVars  == <<child, code>>
storeVars  == <<height, migrated>>
strayVars  == <<stray, strayMigs>>
budgetVars == <<starts, signals, edits>>
vars == <<configVars, loopVars, sigVars, ckpt, childVars, storeVars, strayVars,
          budgetVars>>

-----------------------------------------------------------------------------
(* States of the parts.                                                     *)

\* Where the monitoring loop's thread can be between two steps.
Monitoring == {"signals", "poll", "reap", "terminating"}
MgrStates  == {"down", "load", "checkpoint", "writing", "migrate",
               "migrating", "launch"} \cup Monitoring

\* "none": not spawned, or reaped; "exited": a zombie not waited for yet.
ChildStates == {"none", "starting", "running", "exited"}
Alive       == {"starting", "running"}

ExitStatuses == {0, 1, BySignal} \cup FailCodes

\* In a torn file (truncated, not written yet) index and binary are what the
\* file last held; the code reads neither from it.
Checkpoints ==
    [status : {"absent", "torn", "intact"}, index : Versions,
     binary : Paths \cup {None}]

TypeOK ==
    /\ useCheckpoint \in BOOLEAN
    /\ count \in 1 .. N
    /\ path \in [Versions -> Paths]
    /\ mgr \in MgrStates
    /\ cur \in Versions
    /\ lastKnown \in Nat \cup {None}
    /\ exit \in ExitStatuses \cup {None}
    /\ handler \in {"default", "registered", "unread"}
    /\ pending \in BOOLEAN
    /\ owed \in BOOLEAN
    /\ ckpt \in Checkpoints
    /\ child \in ChildStates
    /\ code \in ExitStatuses
    /\ height \in Nat
    /\ migrated \in SUBSET Versions
    /\ stray \in Versions \cup {None}
    /\ strayMigs \in SUBSET Versions
    /\ starts \in 0 .. MaxStarts
    /\ signals \in 0 .. MaxSignals
    /\ edits \in 0 .. MaxEdits

-----------------------------------------------------------------------------
(* Heights.                                                                 *)

\* The last version listed runs without a stop height until the operator
\* schedules its successor; only version N - 1 has its own optional one.
StopOf(v) == IF v = count - 1 /\ v < N - 1 THEN None ELSE Stop[v]

\* stop.saturating_sub(height_slack)
MinAcceptable(stop) == IF stop > Slack THEN stop - Slack ELSE 0

\* The migrations the storage must have had for version v to run on it.
Required(v) == {m \in Migrating : m <= v}

\* A node starts if it has no earlier node in its way (it binds the HTTP port),
\* it does not start past the next height, and its stop height is ahead.
StartPossible(v) ==
    /\ stray = None
    /\ v > 0 => Stop[v - 1] <= height
    /\ StopOf(v) # None => StopOf(v) > height

\* It refuses to start when that fails; one that was already started in its
\* range may also insist on starting at exactly its start height.
StartRefused(v) ==
    \/ ~StartPossible(v)
    \/ v > 0 /\ Stop[v - 1] # height

\* Something answers the height query on the node's port.
Answering == child = "running" \/ stray # None

-----------------------------------------------------------------------------
(* The manager process: start, load, end.                                   *)

Init ==
    /\ useCheckpoint \in BOOLEAN
    /\ count \in 1 .. N
    /\ \E p \in Paths : path = [v \in Versions |-> p]
    /\ mgr = "down" /\ cur = 0 /\ lastKnown = None /\ exit = None
    /\ handler = "default" /\ pending = FALSE /\ owed = FALSE
    /\ ckpt = [status |-> "absent", index |-> 0, binary |-> None]
    /\ child = "none" /\ code = 0
    /\ height = 0 /\ migrated = {}
    /\ stray = None /\ strayMigs = {}
    /\ starts = 0 /\ signals = 0 /\ edits = 0

\* The supervisor starts the manager, which loads its config.
StartManager ==
    /\ mgr = "down"
    /\ starts < MaxStarts
    /\ starts' = starts + 1
    /\ mgr' = "load"
    /\ exit' = None
    /\ UNCHANGED <<configVars, cur, lastKnown, sigVars, ckpt, childVars, storeVars,
                   strayVars, signals, edits>>

\* The process ends with exit status e.  A node that still runs stays behind.
End(e, left) ==
    /\ mgr' = "down"
    /\ exit' = e
    /\ handler' = "default" /\ pending' = FALSE /\ owed' = FALSE
    /\ child' = "none"
    /\ stray' = left
    /\ lastKnown' = None
    /\ UNCHANGED <<configVars, cur, ckpt, code, storeVars, budgetVars>>

LeftBehind == IF child = "running" THEN cur ELSE stray

\* main() returns from run(): nothing of the manager's own is running then.
Quit(e) == End(e, LeftBehind) /\ UNCHANGED strayMigs

\* RunnerError::exit_code, else ExitCode::FAILURE.
ManagerExit(c) == IF c = BySignal THEN 1 ELSE c

\* A config that does not load or validate, or any file system, spawn or
\* registration error on the way to launching.
StepFails ==
    /\ mgr \in {"load", "checkpoint", "writing", "migrate", "launch"}
    /\ mgr = "checkpoint" => useCheckpoint
    /\ mgr = "migrate" => cur \in Migrating
    /\ Quit(1)

\* Mutant: a file that does not parse is taken for a missing one.
LoadRejected_TornIsAbsent ==
    ckpt.status = "intact" /\ (ckpt.index >= count \/ ckpt.binary # path[ckpt.index])

\* Mutant: the binary path of the checkpoint is not compared.
LoadRejected_AnyBinary ==
    ckpt.status = "torn" \/ (ckpt.status = "intact" /\ ckpt.index >= count)

LoadRejected ==
    \/ ckpt.status = "torn"
    \/ /\ ckpt.status = "intact"
       /\ \/ ckpt.index >= count
          \/ ckpt.binary # path[ckpt.index]

\* Where run() starts: at the checkpoint's version, or at version 0.
LoadCheckpoint ==
    /\ mgr = "load"
    /\ ~(useCheckpoint /\ LoadRejected)
    /\ cur' = IF useCheckpoint /\ ckpt.status = "intact" THEN ckpt.index ELSE 0
    /\ mgr' = "checkpoint"
    /\ UNCHANGED <<configVars, lastKnown, exit, sigVars, ckpt, childVars, storeVars,
                   strayVars, budgetVars>>

\* CheckpointRead, CheckpointIndexOutOfBounds or CheckpointBinaryMismatch.
RejectCheckpoint ==
    /\ mgr = "load"
    /\ useCheckpoint
    /\ LoadRejected
    /\ Quit(1)

-----------------------------------------------------------------------------
(* Before a version runs: its checkpoint, its migration, its process.       *)

SkipCheckpoint ==
    /\ mgr = "checkpoint"
    /\ ~useCheckpoint
    /\ mgr' = "migrate"
    /\ UNCHANGED <<configVars, cur, lastKnown, exit, sigVars, ckpt, childVars,
                   storeVars, strayVars, budgetVars>>

\* fs::write opens and truncates the file before it writes it.
TruncateCheckpoint ==
    /\ mgr = "checkpoint"
    /\ useCheckpoint
    /\ mgr' = "writing"
    /\ ckpt' = [ckpt EXCEPT !.status = "torn"]
    /\ UNCHANGED <<configVars, cur, lastKnown, exit, sigVars, childVars, storeVars,
                   strayVars, budgetVars>>

WriteCheckpoint ==
    /\ mgr = "writing"
    /\ mgr' = "migrate"
    /\ ckpt' = [status |-> "intact", index |-> cur, binary |-> path[cur]]
    /\ UNCHANGED <<configVars, cur, lastKnown, exit, sigVars, childVars, storeVars,
                   strayVars, budgetVars>>

\* Mutant: the migration is run on an upgrade but not on a restart.
StartMigration_OnUpgradeOnly ==
    /\ mgr = "migrate"
    /\ mgr' = IF cur \in Migrating /\ handler = "unread" THEN "migrating" ELSE "launch"
    /\ UNCHANGED <<configVars, cur, lastKnown, exit, sigVars, ckpt, childVars,
                   storeVars, strayVars, budgetVars>>

\* run() spawns the migration of every version that has one, on every start.
StartMigration ==
    /\ mgr = "migrate"
    /\ mgr' = IF cur \in Migrating THEN "migrating" ELSE "launch"
    /\ UNCHANGED <<configVars, cur, lastKnown, exit, sigVars, ckpt, childVars,
                   storeVars, strayVars, budgetVars>>

\* The migration ends well and run_migration returns from wait().
MigrationSucceeds ==
    /\ mgr = "migrating"
    /\ migrated' = migrated \cup {cur}
    /\ mgr' = "launch"
    /\ UNCHANGED <<configVars, cur, lastKnown, exit, sigVars, ckpt, childVars, height,
                   strayVars, budgetVars>>

\* It fails, changing nothing, and the manager ends with its exit code.
MigrationFails ==
    /\ mgr = "migrating"
    /\ \E c \in ExitStatuses \ {0} : Quit(ManagerExit(c))

\* Register the signal handlers, spawn the node, enter the monitoring loop.
Launch ==
    /\ mgr = "launch"
    /\ mgr' = "signals"
    /\ lastKnown' = None
    /\ handler' = "registered"
    /\ child' = "starting"
    /\ UNCHANGED <<configVars, cur, exit, pending, owed, ckpt, code, storeVars,
                   strayVars, budgetVars>>

-----------------------------------------------------------------------------
(* The monitoring loop of monitor_rollup.                                   *)

\* Mutant: signals are held back until the API has answered once.
ForwardSignals_OnceUp ==
    /\ mgr = "signals"
    /\ mgr' = "poll"
    /\ pending' = (pending /\ lastKnown = None)
    /\ owed' = (owed /\ lastKnown = None)
    /\ UNCHANGED <<configVars, cur, lastKnown, exit, handler, ckpt, childVars,
                   storeVars, strayVars, budgetVars>>

\* Forward the pending signals; one sent to a zombie has no effect.
ForwardSignals ==
    /\ mgr = "signals"
    /\ mgr' = "poll"
    /\ pending' = FALSE
    /\ owed' = (owed /\ ~(pending /\ child \in Alive))
    /\ UNCHANGED <<configVars, cur, lastKnown, exit, handler, ckpt, childVars,
                   storeVars, strayVars, budgetVars>>

TooHigh(h) == StopOf(cur) # None /\ h > StopOf(cur)

\* The query returns the height; one above the stop height makes the manager
\* send SIGTERM to the node.
PollHeight ==
    /\ mgr = "poll"
    /\ Answering
    /\ lastKnown' = height
    /\ mgr' = IF TooHigh(height) THEN "terminating" ELSE "reap"
    /\ UNCHANGED <<configVars, cur, exit, sigVars, ckpt, childVars, storeVars,
                   strayVars, budgetVars>>

\* The query fails: the API is not up yet, no longer up, or does not answer.
PollFails ==
    /\ mgr = "poll"
    /\ mgr' = "reap"
    /\ UNCHANGED <<configVars, cur, lastKnown, exit, sigVars, ckpt, childVars,
                   storeVars, strayVars, budgetVars>>

\* try_wait finds the node running; the manager sleeps and goes round.
StillRunning ==
    /\ mgr = "reap"
    /\ child \in Alive
    /\ mgr' = "signals"
    /\ UNCHANGED <<configVars, cur, lastKnown, exit, sigVars, ckpt, childVars,
                   storeVars, strayVars, budgetVars>>

\* Mutant: the lower bound on the last height is not checked.
CompletedBy_AnyHeight(status, known, stop) ==
    status = 0 /\ stop # None /\ known # None /\ known <= stop

\* Mutant: the height decides, whatever the exit status.
CompletedBy_AnyStatus(status, known, stop) ==
    stop # None /\ known # None /\ MinAcceptable(stop) <= known /\ known <= stop

\* handle_process_exit returns Ok.
CompletedBy(status, known, stop) ==
    /\ status = 0
    /\ stop # None
    /\ known # None
    /\ MinAcceptable(stop) <= known
    /\ known <= stop

Completed == CompletedBy(code, lastKnown, StopOf(cur))

\* Mutant: the checkpoint is written at the start of run() only.
NextVersion_NoCheckpoint ==
    /\ mgr = "reap" /\ child = "exited" /\ Completed /\ cur < count - 1
    /\ cur' = cur + 1
    /\ mgr' = "migrate"
    /\ child' = "none"
    /\ handler' = "unread"
    /\ pending' = FALSE
    /\ UNCHANGED <<configVars, lastKnown, exit, owed, ckpt, code, storeVars, strayVars,
                   budgetVars>>

\* Mutant: an exit within the slack is no failure but does not move on either.
NextVersion_AtStopOnly ==
    /\ mgr = "reap" /\ child = "exited" /\ Completed /\ cur < count - 1
    /\ lastKnown = StopOf(cur)
    /\ cur' = cur + 1
    /\ mgr' = "checkpoint"
    /\ child' = "none"
    /\ handler' = "unread"
    /\ pending' = FALSE
    /\ UNCHANGED <<configVars, lastKnown, exit, owed, ckpt, code, storeVars, strayVars,
                   budgetVars>>

\* The loop of run() goes on to the next version.  The Signals instance is
\* dropped, but the process keeps its handlers and no longer reads them.
NextVersion ==
    /\ mgr = "reap"
    /\ child = "exited"
    /\ Completed
    /\ cur < count - 1
    /\ cur' = cur + 1
    /\ mgr' = "checkpoint"
    /\ child' = "none"
    /\ handler' = "unread"
    /\ pending' = FALSE
    /\ UNCHANGED <<configVars, lastKnown, exit, owed, ckpt, code, storeVars, strayVars,
                   budgetVars>>

\* Mutant: run() returns after the first version that completes.
AllCompleted_FirstEnough ==
    mgr = "reap" /\ child = "exited" /\ Completed /\ Quit(0)

AllCompleted ==
    /\ mgr = "reap"
    /\ child = "exited"
    /\ Completed
    /\ cur = count - 1
    /\ Quit(0)

\* Mutant: exits with status 0 are not looked at further.
VersionFailed_NonZeroOnly ==
    mgr = "reap" /\ child = "exited" /\ ~Completed /\ code # 0 /\ Quit(ManagerExit(code))

\* NonZeroExit, UnexpectedExit, UnknownExitHeight, PrematureExit.  (The SIGTERM
\* of the final terminate_process finds no process: the node is reaped.)
VersionFailed ==
    /\ mgr = "reap"
    /\ child = "exited"
    /\ ~Completed
    /\ Quit(IF code = 0 THEN 1 ELSE ManagerExit(code))

\* terminate_process, called for a node above its stop height: it is reaped
\* once it exits, or killed after GRACEFUL_SHUTDOWN_TIMEOUT.
TerminateReaps ==
    /\ mgr = "terminating"
    /\ child = "exited"
    /\ Quit(1)

\* Mutant: after the timeout the manager gives up on the node.
TerminateKills_GivesUp ==
    mgr = "terminating" /\ child \in Alive /\ Quit(1)

\* Mutant: a node killed above its stop height counts as completed.
TerminateKills_Completed ==
    mgr = "terminating" /\ child \in Alive /\ End(0, stray) /\ UNCHANGED strayMigs

\* Mutant: there is no timeout.
TerminateKills_Waits ==
    mgr = "terminating" /\ child \in Alive /\ UNCHANGED vars

TerminateKills ==
    /\ mgr = "terminating"
    /\ child \in Alive
    /\ End(1, stray)
    /\ UNCHANGED strayMigs

ManagerStep ==
    \/ LoadCheckpoint \/ RejectCheckpoint
    \/ SkipCheckpoint \/ TruncateCheckpoint \/ WriteCheckpoint
    \/ StartMigration \/ Launch
    \/ ForwardSignals \/ PollHeight \/ PollFails \/ StillRunning
    \/ NextVersion \/ AllCompleted \/ VersionFailed
    \/ TerminateReaps \/ TerminateKills

-----------------------------------------------------------------------------
(* The node and migration processes.                                        *)

NodeStarts ==
    /\ child = "starting"
    /\ StartPossible(cur)
    /\ child' = "running"
    /\ UNCHANGED <<configVars, loopVars, sigVars, ckpt, code, storeVars, strayVars,
                   budgetVars>>

NodeRefuses ==
    /\ child = "starting"
    /\ StartRefused(cur)
    /\ child' = "exited"
    /\ code' = 1
    /\ UNCHANGED <<configVars, loopVars, sigVars, ckpt, storeVars, strayVars,
                   budgetVars>>

\* The running node, the manager's or a stray one, adds a block.  Nothing but
\* the node itself keeps it from going past its stop height.
ProduceBlock ==
    /\ Answering
    /\ height < MaxHeight
    /\ height' = height + 1
    /\ UNCHANGED <<configVars, loopVars, sigVars, ckpt, childVars, migrated, strayVars,
                   budgetVars>>

\* A node may end at any time: with 0 at its stop height, after a SIGTERM or
\* on its own account; with an error code; or killed by a signal.
NodeExits ==
    /\ child \in Alive
    /\ child' = "exited"
    /\ \E c \in ExitStatuses :
          /\ c = 0 => child = "running"
          /\ code' = c
    /\ UNCHANGED <<configVars, loopVars, sigVars, ckpt, storeVars, strayVars,
                   budgetVars>>

StrayNodeExits ==
    /\ stray # None
    /\ stray' = None
    /\ UNCHANGED <<configVars, loopVars, sigVars, ckpt, childVars, storeVars, strayMigs,
                   budgetVars>>

\* A migration nobody waits for ends, having done its work or not.
StrayMigrationEnds ==
    \E v \in strayMigs :
       /\ strayMigs' = strayMigs \ {v}
       /\ migrated' \in {migrated, migrated \cup {v}}
       /\ UNCHANGED <<configVars, loopVars, sigVars, ckpt, childVars, height, stray,
                      budgetVars>>

-----------------------------------------------------------------------------
(* Signals and crashes of the manager; the operator.                        *)

\* The manager dies and what it has spawned lives on.  A node that is still
\* starting may or may not come up.
Die ==
    /\ strayMigs' = IF mgr = "migrating" THEN strayMigs \cup {cur} ELSE strayMigs
    /\ \/ End(BySignal, LeftBehind)
       \/ child = "starting" /\ StartPossible(cur) /\ End(BySignal, cur)

\* SIGKILL, SIGINT, SIGHUP, a panic or, before the first Signals::new, also
\* SIGTERM and SIGQUIT.  The last of the MaxStarts managers is not killed.
ManagerKilled ==
    /\ mgr # "down"
    /\ starts < MaxStarts
    /\ Die

\* SIGTERM or SIGQUIT while Signals is registered: kept for signals.pending().
SignalArrives ==
    /\ mgr # "down"
    /\ signals < MaxSignals
    /\ handler = "registered"
    /\ signals' = signals + 1
    /\ pending' = TRUE /\ owed' = TRUE
    /\ UNCHANGED <<configVars, loopVars, handler, ckpt, childVars, storeVars, strayVars,
                   starts, edits>>

\* Between two versions the handler runs and nobody reads what it noted.
SignalUnread ==
    /\ mgr # "down"
    /\ signals < MaxSignals
    /\ handler = "unread"
    /\ signals' = signals + 1
    /\ owed' = TRUE
    /\ UNCHANGED <<configVars, loopVars, handler, pending, ckpt, childVars, storeVars,
                   strayVars, starts, edits>>

\* Between two runs the operator appends a version, withdraws the last one,
\* or moves a binary.
EditConfig ==
    /\ mgr = "down"
    /\ edits < MaxEdits
    /\ edits' = edits + 1
    /\ \/ count < N /\ count' = count + 1 /\ UNCHANGED path
       \/ count > 1 /\ count' = count - 1 /\ UNCHANGED path
       \/ /\ \E v \in Versions, p \in Paths : path' = [path EXCEPT ![v] = p]
          /\ UNCHANGED count
    /\ UNCHANGED <<useCheckpoint, loopVars, sigVars, ckpt, childVars, storeVars,
                   strayVars, starts, signals>>

Environment ==
    \/ StartManager \/ StepFails \/ MigrationSucceeds \/ MigrationFails
    \/ NodeStarts \/ NodeRefuses \/ ProduceBlock \/ NodeExits
    \/ StrayNodeExits \/ StrayMigrationEnds
    \/ ManagerKilled \/ SignalArrives \/ SignalUnread \/ EditConfig

Next == ManagerStep \/ Environment

Spec == Init /\ [][Next]_vars

-----------------------------------------------------------------------------
(* What must hold.                                                          *)

\* With a checkpoint file in use, whenever a node of some version is or may be
\* alive, the manager's or one left behind, the file is whole and names that
\* version and its binary, so that a crash at that moment loses nothing; only a
\* manager that rewrites it while a node is left behind has it torn.
\* (write_checkpoint before the launch in run().)
CheckpointNamesRunner ==
    useCheckpoint =>
        /\ child # "none" =>
              ckpt = [status |-> "intact", index |-> cur, binary |-> path[cur]]
        /\ stray # None => ckpt.index = stray /\ ckpt.status # "absent"

\* No version before the current one was left early: its stop height is within
\* the slack of the chain's height, although the manager judges by the height
\* it last polled and not by the storage.  (handle_process_exit.)
UpgradedNearStop ==
    \A v \in Versions :
        (v < ckpt.index \/ (mgr # "down" /\ v < cur)) =>
            Stop[v] # None /\ MinAcceptable(Stop[v]) <= height

\* With a checkpoint file, a node only ever runs on storage that has had
\* exactly the migrations up to its version, across crashes in the middle of
\* a migration and restarts.  (run() migrates before every launch.)
MigratedBeforeRun ==
    useCheckpoint =>
        /\ child # "none" => migrated = Required(cur)
        /\ stray # None => migrated = Required(stray)

\* The manager ends with status 0 only after every version configured has been
\* completed.  (main() and run().)
ZeroMeansDone ==
    exit = 0 =>
        /\ cur = count - 1 \/ edits > 0
        /\ \A v \in Versions : v <= cur =>
              Stop[v] # None /\ MinAcceptable(Stop[v]) <= height

\* A manager that ends on its own account leaves no node of its own running,
\* the one that went past its stop height included.  (terminate_process.)
NoNodeLeftBehind == [][exit' \notin {None, BySignal} => stray' \in {stray, None}]_vars

\* The file never comes to name another binary for the same version: a moved
\* or replaced binary is refused, not adopted.  (CheckpointBinaryMismatch.)
BinaryPinned ==
    [][ckpt'.index = ckpt.index /\ ckpt.binary # None => ckpt'.binary = ckpt.binary]_vars

\* With a checkpoint file the manager implements the upgrade sequence; without
\* one it promises nothing across restarts.
ActiveNodes ==
    (IF child = "running" THEN {cur} ELSE {}) \cup (IF stray # None THEN {stray} ELSE {})

Promise == INSTANCE UpgradeSequence WITH
    version <- IF useCheckpoint THEN ckpt.index ELSE 0,
    active  <- IF useCheckpoint THEN ActiveNodes ELSE {},
    height  <- IF useCheckpoint THEN height ELSE 0

ImplementsUpgradeSequence == Promise!Spec

\* To whoever starts it the manager is a ManagerProcess.
Process == INSTANCE ManagerProcess WITH
    up     <- mgr # "down",
    node   <- child \in Alive,
    left   <- stray # None,
    status <- exit

ImplementsManagerProcess == Process!Spec

-----------------------------------------------------------------------------
(* What must happen.                                                        *)

\* The manager's thread goes on (every call it makes in the loop returns, the
\* sleeps and the 15 seconds of terminate_process pass), a migration ends and a
\* starting node comes up or gives up.  Nothing else is assumed: no block need
\* be produced, no query need succeed, no node need ever exit.
Fairness ==
    /\ WF_vars(ManagerStep)
    /\ WF_vars(MigrationSucceeds \/ MigrationFails)
    /\ WF_vars(NodeStarts \/ NodeRefuses)

FairSpec == Spec /\ Fairness

\* Every node that exits is reaped, with whatever status and at whatever point
\* of the loop it does.  (try_wait in monitor_rollup and terminate_process.)
ExitIsHandled == (child = "exited") ~> (child = "none")

\* A node seen above its stop height is stopped even if it ignores SIGTERM, and
\* the manager then ends with a failure.  (monitor_rollup, terminate_process.)
OvershootIsStopped ==
    (child \in Alive /\ lastKnown # None /\ TooHigh(lastKnown))
        ~> (mgr = "down" /\ exit # 0)

\* When a version has been seen to complete, the next one is launched unless
\* the manager ends first: checkpoint, migration and launch follow.  (run().)
CompletionHandsOver ==
    \A v \in Versions :
        (mgr = "reap" /\ cur = v /\ child = "exited" /\ Completed /\ v < count - 1)
            ~> (mgr = "down" \/ (cur = v + 1 /\ child = "starting"))

\* A signal that the manager has noted is sent to a node that is alive, unless
\* the node exits or the manager ends first; nothing else delays it, not even an
\* API that never answers.  (The forwarding loop at the head of monitor_rollup.)
PendingIsForwarded == pending ~> (~owed \/ child = "exited" \/ mgr = "down")

-----------------------------------------------------------------------------
(* What the documentation says and the code does not do.                    *)

\* A migration runs between the previous version's stop and its own version's
\* start (config.rs), hence not once it has been applied and the chain has gone
\* on from there.
MigrationPrecedesVersion ==
    [][(mgr # "migrating" /\ mgr' = "migrating" /\ cur > 0 /\ cur \in migrated)
        => height <= Stop[cur - 1]]_vars

\* On a restart the manager resumes from the correct version (checkpoint.rs):
\* not from one whose stop height the chain has reached already.
ResumesUnfinishedVersion ==
    [][(/\ useCheckpoint /\ mgr = "load" /\ mgr' = "checkpoint"
        /\ stray = None /\ StopOf(cur') # None) => height < StopOf(cur')]_vars

\* The manager forwards SIGTERM and SIGQUIT to the node (README): it does not
\* drop one and then launch the next version.
NoLaunchAfterDroppedSignal ==
    [][mgr = "launch" /\ mgr' = "signals" => ~owed]_vars

=============================================================================
