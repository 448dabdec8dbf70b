-------------------------- MODULE UpgradeSimulator --------------------------
(***************************************************************************)
(* The processes of an upgrade test: run_test_case, run_test_phases and    *)
(* run_with_soak (src/crates/upgrade-simulator/src/lib.rs) with run_nodes  *)
(* and the process registry (node_runner.rs) and the Postgres container    *)
(* (docker.rs).  A test case has its container, its mock DA server, and    *)
(* one rollup manager per node for the initial run and again for the       *)
(* resync, on storage cleared in between.                                  *)
(*                                                                         *)
(* main is where run_test_case is, runner where run_nodes is.  With soak   *)
(* testing run_nodes is a task of its own, which outlives the future that  *)
(* spawned it; without, it is part of that future and dropped with it.     *)
(* The rollup managers are ManagerProcesses; what the soak coordinator     *)
(* does is in SoakCoordinator, here it only has a result.                  *)
(***************************************************************************)
EXTENDS Integers, FiniteSets

CONSTANTS
    M,              \* nodes of the test case; 0 .. M-1, 0 is the master
    MockDa,         \* the registry's entry for the mock DA server
    Cases,          \* bound: test cases run one after the other
    MaxInterrupts   \* bound: Ctrl+C received by the simulator

Nodes == 0 .. M - 1

ASSUME SizeAssumption ==
    /\ M \in Nat \ {0}
    /\ Cases \in Nat \ {0}
    /\ MaxInterrupts \in Nat
    /\ MockDa \notin Nodes

VARIABLES
    case,       \* number of the test case that runs
    soak,       \* soak testing is configured
    \* run_test_case
    main,       \* where it is
    phase,      \* "initial" or "resync"
    result,     \* what the last test case returned, "none" if it runs
    handler,    \* tokio has installed its SIGINT handler
    sigint,     \* a Ctrl+C that ctrl_c() will return
    interrupts,
    \* run_nodes
    runner,     \* where it is
    registry,   \* what the registry lists: nodes and MockDa
    \* The processes.
    manager,    \* manager[n]: status of node n's manager
    node,       \* node[n]: its rollup node is alive
    left,       \* nodes whose managers were killed over them
    termed,     \* managers of this phase that have been sent SIGTERM
    da,         \* the mock DA server
    \* Postgres.
    pg,         \* the container: "stale" if it is there and nobody will remove it
    seqDb,      \* its database sequencer: not there, fresh, or written to
    daDb        \* and mock_da

procVars == <<manager, node, left, termed>>
pgVars == <<pg, seqDb, daDb>>
caseVars == <<case, soak, handler, interrupts>>
vars == <<caseVars, main, phase, result, sigint, runner, registry, procVars, da, pgVars>>

Setup     == {"postgres", "ready", "build", "mockda", "sleeping"}
Phases    == {"run", "reset", "recreate"}
MainSteps == Setup \cup Phases \cup {"grace", "cleanup", "remove", "ended"}

\* A manager that has exited is a zombie until run_nodes hears of it.
Exited == {"succeeded", "failed"}

CountersOK ==
    /\ case \in 1 .. Cases
    /\ interrupts \in 0 .. MaxInterrupts

ControlOK ==
    /\ {soak, handler, sigint} \subseteq BOOLEAN
    /\ main \in MainSteps
    /\ phase \in {"initial", "resync"}
    /\ result \in {"none", "Ok", "Failed", "Interrupted", "Killed"}
    /\ runner \in {"idle", "spawning", "watching", "grace", "ok", "failed", "dropped"}

ProcessesOK ==
    /\ registry \subseteq Nodes \cup {MockDa}
    /\ manager \in [Nodes -> {"none", "up", "reaped"} \cup Exited]
    /\ node \in [Nodes -> BOOLEAN]
    /\ left \cup termed \subseteq Nodes
    /\ da \in {"none", "up", "termed", "crashed", "dead"}
    /\ pg \in {"none", "up", "stale"}
    /\ {seqDb, daDb} \subseteq {"none", "fresh", "used"}

TypeOK == CountersOK /\ ControlOK /\ ProcessesOK

Init ==
    /\ case = 1 /\ soak \in BOOLEAN
    /\ main = "postgres" /\ phase = "initial" /\ result = "none"
    /\ handler = FALSE /\ sigint = FALSE /\ interrupts = 0
    /\ runner = "idle" /\ registry = {}
    /\ manager = [n \in Nodes |-> "none"] /\ node = [n \in Nodes |-> FALSE]
    /\ left = {} /\ termed = {}
    /\ da = "none" /\ pg = "none" /\ seqDb = "none" /\ daDb = "none"

-----------------------------------------------------------------------------
(* What happens to the processes.                                           *)

\* registry.terminate_all: SIGTERM to all that are listed and still there.
TerminateAll ==
    /\ termed' = termed \cup {n \in registry \cap Nodes : manager[n] = "up"}
    /\ da' = IF MockDa \in registry /\ da = "up" THEN "termed" ELSE da

\* The Child handles of the managers are dropped: kill_on_drop sends SIGKILL,
\* and a manager that is killed leaves its node behind.
KillManagers ==
    /\ manager' = [n \in Nodes |-> IF manager[n] = "none" THEN "none" ELSE "reaped"]
    /\ left' = left \cup {n \in Nodes : node[n]}
    /\ node' = [n \in Nodes |-> FALSE]

-----------------------------------------------------------------------------
(* Setting up a test case.                                                  *)

\* What cleanup and drop leave of the container: a failing docker rm is only
\* logged.
Removed == {"none", "stale"}

\* An early return of run_test_case: the mock DA server's handle and the
\* container are dropped.
FailSetup ==
    /\ main' = "ended"
    /\ result' = "Failed"
    /\ da' = IF da = "none" THEN "none" ELSE "dead"
    /\ pg' \in Removed
    /\ UNCHANGED <<caseVars, phase, sigint, runner, registry, procVars, seqDb, daDb>>

\* docker run, under a name that must not be taken.
StartPostgres ==
    /\ main = "postgres"
    /\ pg = "none"
    /\ main' = "ready"
    /\ pg' = "up" /\ seqDb' = "none" /\ daDb' = "none"
    /\ UNCHANGED <<caseVars, phase, result, sigint, runner, registry, procVars, da>>

\* It fails, and may leave a container it could not start.
PostgresFails ==
    /\ main = "postgres"
    /\ main' = "ended"
    /\ result' = "Failed"
    /\ pg' \in {pg, "stale"}
    /\ UNCHANGED <<caseVars, phase, sigint, runner, registry, procVars, da, seqDb, daDb>>

\* pg_isready says so, and the databases are created.
CreateDatabases ==
    /\ main = "ready"
    /\ main' = "build"
    /\ seqDb' = "fresh" /\ daDb' = "fresh"
    /\ UNCHANGED <<caseVars, phase, result, sigint, runner, registry, procVars, da, pg>>

\* The binaries are built, the configs interpolated, the storage is cleared.
Build ==
    /\ main = "build"
    /\ main' = "mockda"
    /\ UNCHANGED <<caseVars, phase, result, sigint, runner, registry, procVars, da, pgVars>>

SetupFails ==
    /\ main \in {"ready", "build", "mockda"}
    /\ FailSetup

\* spawn_mock_da_server: spawn, register, sleep ten seconds, in which it stores
\* its first blocks.
SpawnMockDa ==
    /\ main = "mockda"
    /\ main' = "sleeping"
    /\ da' = "up" /\ daDb' = "used"
    /\ registry' = registry \cup {MockDa}
    /\ UNCHANGED <<caseVars, phase, result, sigint, runner, procVars, pg, seqDb>>

\* The select on ctrl_c() and run_test_phases is entered.
StartInitialRun ==
    /\ main = "sleeping"
    /\ main' = "run"
    /\ handler' = TRUE
    /\ runner' = "spawning"
    /\ UNCHANGED <<case, soak, interrupts, phase, result, sigint, registry, procVars, da, pgVars>>

-----------------------------------------------------------------------------
(* run_nodes: the managers are spawned one by one, then all registered,     *)
(* then watched.                                                            *)

RunnerFrame == UNCHANGED <<caseVars, main, phase, result, sigint, pgVars>>

Unspawned == {n \in Nodes : manager[n] = "none"}

SpawnNode ==
    /\ runner = "spawning"
    /\ \E n \in Unspawned :
          /\ \A other \in Unspawned : n <= other
          /\ manager' = [manager EXCEPT ![n] = "up"]
    /\ RunnerFrame
    /\ UNCHANGED <<runner, registry, node, left, termed, da>>

\* spawn_node fails and run_nodes returns, dropping the ones spawned so far.
SpawnFails ==
    /\ runner = "spawning"
    /\ Unspawned # {}
    /\ runner' = "failed"
    /\ KillManagers
    /\ RunnerFrame
    /\ UNCHANGED <<registry, termed, da>>

\* Mutant: nothing is registered.
Register_Forgets ==
    /\ runner = "spawning"
    /\ Unspawned = {}
    /\ runner' = "watching"
    /\ RunnerFrame
    /\ UNCHANGED <<registry, procVars, da>>

Register ==
    /\ runner = "spawning"
    /\ Unspawned = {}
    /\ runner' = "watching"
    /\ registry' = registry \cup Nodes
    /\ RunnerFrame
    /\ UNCHANGED <<procVars, da>>

\* Mutant: the first node to succeed ends the run.
NodeSucceeds_EndsRun ==
    /\ runner = "watching"
    /\ \E n \in Nodes :
          /\ manager[n] = "succeeded"
          /\ manager' = [manager EXCEPT ![n] = "reaped"]
          /\ runner' = "ok"
    /\ RunnerFrame
    /\ UNCHANGED <<registry, node, left, termed, da>>

\* join_next returns a node that has completed.
NodeSucceeds ==
    /\ runner = "watching"
    /\ \E n \in Nodes :
          /\ manager[n] = "succeeded"
          /\ manager' = [manager EXCEPT ![n] = "reaped"]
          /\ runner' = IF \A o \in Nodes : manager'[o] = "reaped" THEN "ok" ELSE "watching"
    /\ RunnerFrame
    /\ UNCHANGED <<registry, node, left, termed, da>>

\* Mutant: the error is noted and the other nodes are waited for.
NodeFails_Waits ==
    /\ runner = "watching"
    /\ \E n \in Nodes :
          /\ manager[n] = "failed"
          /\ manager' = [manager EXCEPT ![n] = "reaped"]
          /\ runner' = IF \A o \in Nodes : manager'[o] = "reaped" THEN "failed" ELSE "watching"
    /\ RunnerFrame
    /\ UNCHANGED <<registry, node, left, termed, da>>

\* join_next returns one that has failed: all others get SIGTERM and five
\* seconds.
NodeFails ==
    /\ runner = "watching"
    /\ \E n \in Nodes :
          /\ manager[n] = "failed"
          /\ manager' = [manager EXCEPT ![n] = "reaped"]
    /\ runner' = "grace"
    /\ TerminateAll
    /\ RunnerFrame
    /\ UNCHANGED <<registry, node, left>>

\* abort_all drops the tasks and their managers.
GraceOver ==
    /\ runner = "grace"
    /\ runner' = "failed"
    /\ KillManagers
    /\ RunnerFrame
    /\ UNCHANGED <<registry, termed, da>>

Runner ==
    \/ SpawnNode \/ SpawnFails \/ Register \/ NodeSucceeds \/ NodeFails \/ GraceOver

-----------------------------------------------------------------------------
(* run_test_phases.  The select is biased: Ctrl+C comes first.              *)

\* Mutant: what is registered is terminated before it is forgotten.
InitialRunOk_Terminates ==
    /\ main = "run" /\ phase = "initial"
    /\ ~sigint
    /\ runner = "ok"
    /\ main' = "reset"
    /\ TerminateAll
    /\ registry' = {}
    /\ UNCHANGED <<caseVars, phase, result, sigint, runner, manager, node, left, pgVars>>

\* Mutant: an error of the initial run is dropped (no ? after run_with_soak).
InitialRunOk_OrFailed ==
    /\ main = "run" /\ phase = "initial"
    /\ ~sigint
    /\ runner \in {"ok", "failed"}
    /\ main' = "reset"
    /\ registry' = {}
    /\ UNCHANGED <<caseVars, phase, result, sigint, runner, procVars, da, pgVars>>

\* run_with_soak returns Ok for the initial run; the registry is cleared.
InitialRunOk ==
    /\ main = "run" /\ phase = "initial"
    /\ ~sigint
    /\ runner = "ok"
    /\ main' = "reset"
    /\ registry' = {}
    /\ UNCHANGED <<caseVars, phase, result, sigint, runner, procVars, da, pgVars>>

ToCleanup(r) ==
    /\ main' = "cleanup"
    /\ result' = r

\* The nodes have failed, or the soak coordinator has.
RunFails ==
    /\ main = "run"
    /\ ~sigint
    /\ runner = "failed" \/ (runner = "ok" /\ soak)
    /\ ToCleanup("Failed")
    /\ UNCHANGED <<caseVars, phase, sigint, runner, registry, procVars, da, pgVars>>

\* reset_sequencer_db, after the storage is cleared and the sessions are closed;
\* no await up to the spawning of the managers.
DropSequencerDb ==
    /\ main = "reset"
    /\ main' = "recreate"
    /\ seqDb' = "none"
    /\ UNCHANGED <<caseVars, phase, result, sigint, runner, registry, procVars, da, pg, daDb>>

StartResync ==
    /\ main = "recreate"
    /\ main' = "run"
    /\ phase' = "resync"
    /\ runner' = "spawning"
    /\ manager' = [n \in Nodes |-> "none"]
    /\ termed' = {}
    /\ seqDb' = "fresh"
    /\ UNCHANGED <<caseVars, result, sigint, registry, node, left, da, pg, daDb>>

ResetFails ==
    /\ main \in {"reset", "recreate"}
    /\ ToCleanup("Failed")
    /\ UNCHANGED <<caseVars, phase, sigint, runner, registry, procVars, da, pgVars>>

ResyncOk ==
    /\ main = "run" /\ phase = "resync"
    /\ ~sigint
    /\ runner = "ok"
    /\ ToCleanup("Ok")
    /\ UNCHANGED <<caseVars, phase, sigint, runner, registry, procVars, da, pgVars>>

\* Ctrl+C drops the future of run_test_phases, then SIGTERM goes to what is
\* registered.  With soak testing run_nodes is a task and runs on; without, it
\* is suspended in the dropped future and its managers are killed with it.
HandleInterrupt ==
    /\ main = "run"
    /\ sigint
    /\ ~soak => runner # "spawning"
    /\ main' = "grace"
    /\ result' = "Interrupted"
    /\ sigint' = FALSE
    /\ TerminateAll
    /\ IF soak THEN UNCHANGED <<runner, manager, left, node>>
               ELSE runner' = "dropped" /\ KillManagers
    /\ UNCHANGED <<caseVars, phase, registry, pgVars>>

\* SHUTDOWN_GRACE_PERIOD
GracePeriodOver ==
    /\ main = "grace"
    /\ main' = "cleanup"
    /\ UNCHANGED <<caseVars, phase, result, sigint, runner, registry, procVars, da, pgVars>>

\* The last registry.terminate_all.
Cleanup ==
    /\ main = "cleanup"
    /\ TerminateAll
    /\ main' = "remove"
    /\ UNCHANGED <<caseVars, phase, result, sigint, runner, registry, manager, node, left, pgVars>>

\* Mutant: the container is removed when all went well only.
RemoveContainer_IfOk == IF result = "Ok" THEN Removed ELSE {pg}

RemoveContainer == Removed

\* Mutant: its handle is dropped and nothing else (no kill_on_drop).
DropMockDa_NoKill == IF da = "up" THEN "up" ELSE "dead"

DropMockDa == "dead"

MoreCases == case < Cases

\* The container is removed and run_test_case returns; the next test case
\* starts, or the simulator ends and its tasks are dropped.
Return ==
    /\ main = "remove"
    /\ pg' \in RemoveContainer
    /\ da' = DropMockDa
    /\ sigint' = FALSE
    /\ IF result = "Ok" /\ MoreCases
         THEN /\ case' = case + 1
              /\ main' = "postgres" /\ phase' = "initial" /\ result' = "none"
              /\ runner' = "idle" /\ registry' = {}
              /\ manager' = [n \in Nodes |-> "none"] /\ termed' = {}
              /\ UNCHANGED <<node, left>>
         ELSE /\ main' = "ended"
              /\ runner' = IF runner \in {"spawning", "watching", "grace"} THEN "dropped"
                                                                     ELSE runner
              /\ KillManagers
              /\ UNCHANGED <<case, phase, result, registry, termed>>
    /\ UNCHANGED <<soak, handler, interrupts, seqDb, daDb>>

Main ==
    \/ InitialRunOk \/ RunFails \/ DropSequencerDb \/ StartResync \/ ResetFails \/ ResyncOk
    \/ HandleInterrupt \/ GracePeriodOver \/ Cleanup \/ Return

-----------------------------------------------------------------------------
(* The managers and their nodes, as in ManagerProcess; Ctrl+C.              *)

ManagerFrame ==
    UNCHANGED <<caseVars, main, phase, result, sigint, runner, registry, termed, da, pgVars>>

LaunchNode ==
    /\ \E n \in Nodes :
          /\ manager[n] = "up" /\ ~node[n]
          /\ node' = [node EXCEPT ![n] = TRUE]
    /\ ManagerFrame
    /\ UNCHANGED <<manager, left>>

NodeEnds ==
    /\ \E n \in Nodes : node[n] /\ node' = [node EXCEPT ![n] = FALSE]
    /\ ManagerFrame
    /\ UNCHANGED <<manager, left>>

\* A manager ends by itself: well once its node has ended, with an error also
\* by killing its node.  (Killed by SIGTERM before it has launched one, it
\* counts as failed.)
ManagerEnds ==
    /\ \E n \in Nodes, s \in Exited :
          /\ manager[n] = "up"
          /\ s = "succeeded" => ~node[n]
          /\ manager' = [manager EXCEPT ![n] = s]
          /\ node' = [node EXCEPT ![n] = FALSE]
    /\ ManagerFrame
    /\ UNCHANGED left

LeftNodeEnds ==
    /\ \E n \in left : left' = left \ {n}
    /\ ManagerFrame
    /\ UNCHANGED <<manager, node>>

\* A node, or one left behind, writes to the sequencer database.
NodeWrites ==
    /\ left # {} \/ \E n \in Nodes : node[n]
    /\ pg = "up" /\ seqDb = "fresh"
    /\ seqDb' = "used"
    /\ UNCHANGED <<caseVars, main, phase, result, sigint, runner, registry, procVars, da,
                   pg, daDb>>

\* Nobody waits for the mock DA server, so nobody hears of its end.
MockDaCrashes ==
    /\ main # "ended"
    /\ da = "up"
    /\ da' = "crashed"
    /\ UNCHANGED <<caseVars, main, phase, result, sigint, runner, registry, procVars, pgVars>>

\* Ctrl+C before tokio has installed its handler: the simulator dies.
InterruptKills ==
    /\ main # "ended"
    /\ ~handler
    /\ interrupts < MaxInterrupts
    /\ interrupts' = interrupts + 1
    /\ main' = "ended"
    /\ result' = "Killed"
    /\ UNCHANGED <<case, soak, handler, phase, sigint, runner, registry, procVars, da, pgVars>>

\* Ctrl+C afterwards: noted while the select is on, else it goes unheard.
InterruptArrives ==
    /\ main # "ended"
    /\ handler
    /\ interrupts < MaxInterrupts
    /\ interrupts' = interrupts + 1
    /\ sigint' = (main \in Phases)
    /\ UNCHANGED <<case, soak, handler, main, phase, result, runner, registry, procVars,
                   da, pgVars>>

Over == main = "ended" /\ UNCHANGED vars

Next ==
    \/ StartPostgres \/ PostgresFails \/ CreateDatabases \/ Build \/ SetupFails \/ SpawnMockDa \/ StartInitialRun
    \/ Runner \/ Main
    \/ LaunchNode \/ NodeEnds \/ ManagerEnds \/ LeftNodeEnds \/ NodeWrites \/ MockDaCrashes
    \/ InterruptKills \/ InterruptArrives
    \/ Over

Spec == Init /\ [][Next]_vars

\* Both tasks are polled and their timers fire; run_nodes may be stuck in
\* nothing but waiting for a manager.  Of the managers nothing is assumed.
Fairness == WF_vars(Main) /\ WF_vars(Runner)

FairSpec == Spec /\ Fairness

-----------------------------------------------------------------------------
(* What must hold.                                                          *)

\* When the storage is cleared for the resync, and when a test case has passed,
\* nothing of the run before is alive: no manager, no node, none left behind by
\* a killed manager.
NothingRunsOnClearedStorage ==
    (main \in {"reset", "recreate"} \/ result = "Ok") =>
        /\ \A n \in Nodes : manager[n] \in {"none", "reaped"} /\ ~node[n]
        /\ left = {}

\* A manager that run_nodes kills because another one failed has been sent
\* SIGTERM and the grace period before.  (The registry lists them all.)
TermBeforeKill ==
    [][runner = "grace" /\ runner' = "failed" =>
        \A n \in Nodes : manager[n] = "up" => n \in termed]_vars

\* A manager that fails takes all others down with it, even those that ignore
\* SIGTERM, and the test case comes to an end.
OneFailureEndsAll ==
    (runner = "watching" /\ \E n \in Nodes : manager[n] = "failed")
        ~> (main = "ended" /\ \A n \in Nodes : manager[n] # "up")

\* A phase starts on a sequencer database nobody has written to and on the DA
\* data of its test case, with the DA server not told to stop: the resync as well
\* as the initial run, whatever container an earlier test case has left.
PhaseStartsOnItsData ==
    main = "run" /\ runner = "spawning" /\ Unspawned = Nodes =>
        /\ pg = "up" /\ seqDb = "fresh" /\ daDb = "used"
        /\ da \in {"up", "crashed"}

\* Unless the simulator is killed, or docker cannot remove it, no container is left
\* when it ends: on every error path, after Ctrl+C, after the last case.
NoContainerLeft ==
    main = "ended" /\ result # "Killed" => pg \in Removed

\* Unless the simulator is killed, no manager and no DA server is left when it
\* ends, although the registry has forgotten the server (registry.clear) and with
\* soak testing run_nodes goes on after a Ctrl+C.
NoProcessLeft ==
    main = "ended" /\ result # "Killed" =>
        /\ da \in {"none", "dead"}
        /\ \A n \in Nodes : manager[n] # "up"

-----------------------------------------------------------------------------
(* The inductive invariant the safety properties rest on.                   *)

\* Before its runs a test case has no manager; a run is ok when all are reaped.
RunnerInv ==
    /\ main \in Setup => runner = "idle"
    /\ runner = "idle" => \A n \in Nodes : manager[n] = "none"
    /\ runner = "ok" => \A n \in Nodes : manager[n] = "reaped"
    /\ main \in {"reset", "recreate"} => runner = "ok"

\* A result is there after the phases only; it is Ok after a run that was ok.
ResultInv ==
    /\ main \in Setup \cup Phases => result = "none"
    /\ result = "Ok" => runner = "ok"

\* Only a live manager has a node; nodes are left behind by failed runs only.
NodeInv ==
    /\ \A n \in Nodes : node[n] => manager[n] = "up"
    /\ left # {} => runner \in {"failed", "dropped"}

\* Whoever is watched is registered; in the grace period all have had SIGTERM.
RegistryInv ==
    /\ runner \in {"watching", "grace"} => Nodes \subseteq registry
    /\ runner = "grace" => \A n \in Nodes : manager[n] = "up" => n \in termed

\* From docker run to the end of the phases the container is this test case's; the
\* sequencer database is fresh until a node can write to it; nobody sends the DA
\* server SIGTERM while a run goes well.
DataInv ==
    /\ main = "postgres" => pg \in Removed
    /\ main \in (Setup \ {"postgres"}) \cup Phases => pg = "up"
    /\ main \in {"sleeping"} \cup Phases => daDb = "used"
    /\ main \in {"build", "mockda", "sleeping"} => seqDb = "fresh"
    /\ main = "run" /\ runner = "spawning" /\ Unspawned = Nodes => seqDb = "fresh"
    /\ \/ main = "sleeping"
       \/ main \in Phases /\ runner \in {"spawning", "watching", "ok"}
       => da \in {"up", "crashed"}

\* A test case starts without the DA server of the one before, and when the
\* simulator ends nobody is left to start anything.
EndInv ==
    /\ main \in Setup \ {"sleeping"} => da \in {"none", "dead"}
    /\ main = "ended" /\ result # "Killed" =>
          /\ pg \in Removed
          /\ da \in {"none", "dead"}
          /\ runner \notin {"spawning", "watching", "grace"}
          /\ \A n \in Nodes : manager[n] # "up"

UpgradeTestInv ==
    TypeOK /\ RunnerInv /\ ResultInv /\ NodeInv /\ RegistryInv /\ DataInv /\ EndInv

-----------------------------------------------------------------------------
(* What the documentation says and the code does not do.                    *)

\* Ctrl+C is handled gracefully: SIGTERM to all spawned processes, then waiting
\* for their shutdown (run_test_case).  So no manager is killed when it comes.
InterruptIsGraceful ==
    [][main = "run" /\ main' = "grace" =>
        \A n \in Nodes : manager[n] = "up" => manager'[n] = "up"]_vars

=============================================================================
