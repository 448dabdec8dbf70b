----------------------- MODULE UpgradeSimulatorProofs -----------------------
(***************************************************************************)
(* Proofs about UpgradeSimulator, for any number of nodes, test cases and  *)
(* Ctrl+C.                                                                 *)
(***************************************************************************)
EXTENDS UpgradeSimulator, TLAPS

\* Before the first step there is no manager, no node and no result.
LEMMA InitInv == Init => UpgradeTestInv
<1> SUFFICES ASSUME Init PROVE UpgradeTestInv
  OBVIOUS
<1>1. CountersOK
  BY SizeAssumption DEF Init, CountersOK
<1>2. ControlOK
  BY DEF Init, ControlOK, MainSteps, Setup
<1>3. ProcessesOK
  BY DEF Init, ProcessesOK
<1>4. RunnerInv /\ ResultInv /\ NodeInv /\ RegistryInv
  BY DEF Init, RunnerInv, ResultInv, NodeInv, RegistryInv
<1>5. DataInv /\ EndInv
  BY DEF Init, DataInv, EndInv, Removed, Setup, Phases
<1> QED  BY <1>1, <1>2, <1>3, <1>4, <1>5 DEF UpgradeTestInv, TypeOK

\* The bounds on test cases and Ctrl+C hold: MoreCases is asked before the next
\* test case is started.
LEMMA CountersStep == CountersOK /\ [Next]_vars => CountersOK'
<1> SUFFICES ASSUME CountersOK, [Next]_vars PROVE CountersOK'
  OBVIOUS
<1>1. CASE Return
  BY <1>1, SizeAssumption DEF CountersOK, Return, MoreCases
<1>2. CASE InterruptKills \/ InterruptArrives
  BY <1>2, SizeAssumption DEF CountersOK, InterruptKills, InterruptArrives
<1>3. CASE UNCHANGED <<case, interrupts>>
  BY <1>3 DEF CountersOK
<1>4. Return \/ InterruptKills \/ InterruptArrives \/ UNCHANGED <<case, interrupts>>
  BY DEF Next, vars, caseVars, StartPostgres, PostgresFails, CreateDatabases, Build,
         SetupFails, FailSetup,
         SpawnMockDa, StartInitialRun, Runner, RunnerFrame, SpawnNode, SpawnFails,
         Register, NodeSucceeds, NodeFails, GraceOver, Main, InitialRunOk, RunFails,
         DropSequencerDb, StartResync, ResetFails, ResyncOk, HandleInterrupt, GracePeriodOver,
         Cleanup,
         LaunchNode, NodeEnds, ManagerEnds, LeftNodeEnds, NodeWrites, MockDaCrashes,
         ManagerFrame, Over
<1> QED  BY <1>1, <1>2, <1>3, <1>4

-----------------------------------------------------------------------------
(* The other parts of the invariant depend on each other.                   *)

RunInv ==
    /\ ControlOK /\ ProcessesOK
    /\ RunnerInv /\ ResultInv /\ NodeInv /\ RegistryInv /\ DataInv /\ EndInv

\* The steps of run_test_case before the phases touch no manager and leave
\* run_nodes idle until StartInitialRun.
LEMMA SetupStep ==
    ASSUME RunInv, StartPostgres \/ PostgresFails \/ CreateDatabases \/ Build \/ SetupFails
             \/ SpawnMockDa \/ StartInitialRun
    PROVE  RunInv'
<1> USE DEF caseVars, procVars, pgVars, MainSteps, Setup, Phases, Removed
<1>1. CASE StartPostgres \/ PostgresFails \/ CreateDatabases \/ Build
  <2>1. ControlOK'
    BY <1>1 DEF RunInv, StartPostgres, PostgresFails, CreateDatabases, Build, ControlOK
  <2>2. ProcessesOK'
    BY <1>1 DEF RunInv, StartPostgres, PostgresFails, CreateDatabases, Build, ProcessesOK
  <2>3. RunnerInv' /\ ResultInv'
    BY <1>1 DEF RunInv, StartPostgres, PostgresFails, CreateDatabases, Build,
                ProcessesOK, RunnerInv,
                ResultInv
  <2>4. NodeInv' /\ RegistryInv'
    BY <1>1 DEF RunInv, StartPostgres, PostgresFails, CreateDatabases, Build,
                ProcessesOK, RunnerInv,
                ResultInv, NodeInv, RegistryInv
  <2>5. DataInv' /\ EndInv'
    BY <1>1 DEF RunInv, ControlOK, RunnerInv, ResultInv, NodeInv, DataInv, EndInv,
                Unspawned, StartPostgres, PostgresFails, CreateDatabases, Build,
                ProcessesOK
  <2> QED  BY <2>1, <2>2, <2>3, <2>4, <2>5 DEF RunInv
<1>2. CASE SetupFails \/ SpawnMockDa \/ StartInitialRun
  <2>1. ControlOK'
    BY <1>2 DEF RunInv, SetupFails, FailSetup, SpawnMockDa, StartInitialRun, ControlOK
  <2>2. ProcessesOK'
    BY <1>2 DEF RunInv, SetupFails, FailSetup, SpawnMockDa, StartInitialRun,
                ProcessesOK
  <2>3. RunnerInv' /\ ResultInv'
    BY <1>2 DEF RunInv, SetupFails, FailSetup, SpawnMockDa, StartInitialRun,
                ProcessesOK, RunnerInv, ResultInv
  <2>4. NodeInv' /\ RegistryInv'
    BY <1>2 DEF RunInv, SetupFails, FailSetup, SpawnMockDa, StartInitialRun,
                ProcessesOK, RunnerInv, ResultInv, NodeInv, RegistryInv
  <2>5. DataInv' /\ EndInv'
    BY <1>2 DEF RunInv, ControlOK, RunnerInv, ResultInv, NodeInv, DataInv, EndInv,
                Unspawned, SetupFails, FailSetup, SpawnMockDa, StartInitialRun,
                ProcessesOK
  <2> QED  BY <2>1, <2>2, <2>3, <2>4, <2>5 DEF RunInv
<1> QED  BY <1>1, <1>2

\* run_nodes: main stays where it is, and before it watches its managers it
\* registers them all.
LEMMA RunnerStep ==
    ASSUME RunInv, Runner
    PROVE  RunInv'
<1> USE DEF RunnerFrame, caseVars, procVars, pgVars, Exited, MainSteps, Setup, Phases,
            Removed
<1>1. CASE SpawnNode
  <2>1. ControlOK'
    BY <1>1 DEF RunInv, SpawnNode, Unspawned, ControlOK
  <2>2. ProcessesOK'
    BY <1>1 DEF RunInv, SpawnNode, Unspawned, ProcessesOK
  <2>3. RunnerInv' /\ ResultInv'
    BY <1>1 DEF RunInv, SpawnNode, Unspawned, ProcessesOK, RunnerInv, ResultInv
  <2>4. NodeInv' /\ RegistryInv'
    BY <1>1 DEF RunInv, SpawnNode, Unspawned, ProcessesOK, RunnerInv, ResultInv,
                NodeInv, RegistryInv
  <2>5. DataInv' /\ EndInv'
    BY <1>1 DEF RunInv, ControlOK, RunnerInv, ResultInv, NodeInv, DataInv, EndInv,
                SpawnNode, Unspawned, ProcessesOK
  <2> QED  BY <2>1, <2>2, <2>3, <2>4, <2>5 DEF RunInv
<1>2. CASE SpawnFails \/ GraceOver
  <2>1. ControlOK'
    BY <1>2 DEF RunInv, SpawnFails, GraceOver, KillManagers, ControlOK
  <2>2. ProcessesOK'
    BY <1>2 DEF RunInv, SpawnFails, GraceOver, KillManagers, ProcessesOK
  <2>3. RunnerInv' /\ ResultInv'
    BY <1>2 DEF RunInv, SpawnFails, GraceOver, KillManagers, ProcessesOK, RunnerInv,
                ResultInv
  <2>4. NodeInv' /\ RegistryInv'
    BY <1>2 DEF RunInv, SpawnFails, GraceOver, KillManagers, ProcessesOK, RunnerInv,
                ResultInv, NodeInv, RegistryInv
  <2>5. DataInv' /\ EndInv'
    BY <1>2 DEF RunInv, ControlOK, RunnerInv, ResultInv, NodeInv, DataInv, EndInv,
                Unspawned, SpawnFails, GraceOver, KillManagers, ProcessesOK
  <2> QED  BY <2>1, <2>2, <2>3, <2>4, <2>5 DEF RunInv
<1>3. CASE Register
  <2>1. ControlOK'
    BY <1>3 DEF RunInv, Register, Unspawned, ControlOK
  <2>2. ProcessesOK'
    BY <1>3 DEF RunInv, Register, Unspawned, ProcessesOK
  <2>3. RunnerInv' /\ ResultInv'
    BY <1>3 DEF RunInv, Register, Unspawned, ProcessesOK, RunnerInv, ResultInv
  <2>4. NodeInv' /\ RegistryInv'
    BY <1>3 DEF RunInv, Register, Unspawned, ProcessesOK, RunnerInv, ResultInv, NodeInv,
                RegistryInv
  <2>5. DataInv' /\ EndInv'
    BY <1>3 DEF RunInv, ControlOK, RunnerInv, ResultInv, NodeInv, DataInv, EndInv,
                Register, Unspawned, ProcessesOK
  <2> QED  BY <2>1, <2>2, <2>3, <2>4, <2>5 DEF RunInv
<1>4. CASE NodeSucceeds
  <2>1. ControlOK'
    BY <1>4 DEF RunInv, NodeSucceeds, ControlOK
  <2>2. ProcessesOK'
    BY <1>4 DEF RunInv, NodeSucceeds, ProcessesOK
  <2>3. RunnerInv' /\ ResultInv'
    BY <1>4 DEF RunInv, NodeSucceeds, ProcessesOK, RunnerInv, ResultInv
  <2>4. NodeInv' /\ RegistryInv'
    BY <1>4 DEF RunInv, NodeSucceeds, ProcessesOK, RunnerInv, ResultInv, NodeInv,
                RegistryInv
  <2>5. DataInv' /\ EndInv'
    BY <1>4 DEF RunInv, ControlOK, RunnerInv, ResultInv, NodeInv, DataInv, EndInv,
                Unspawned, NodeSucceeds, ProcessesOK
  <2> QED  BY <2>1, <2>2, <2>3, <2>4, <2>5 DEF RunInv
<1>5. CASE NodeFails
  <2>1. ControlOK'
    BY <1>5 DEF RunInv, NodeFails, TerminateAll, ControlOK
  <2>2. ProcessesOK'
    BY <1>5 DEF RunInv, NodeFails, TerminateAll, ProcessesOK
  <2>3. RunnerInv' /\ ResultInv'
    BY <1>5 DEF RunInv, NodeFails, TerminateAll, ProcessesOK, RunnerInv, ResultInv
  <2>4. NodeInv' /\ RegistryInv'
    BY <1>5 DEF RunInv, NodeFails, TerminateAll, ProcessesOK, RunnerInv, ResultInv,
                NodeInv, RegistryInv
  <2>5. DataInv' /\ EndInv'
    BY <1>5 DEF RunInv, ControlOK, RunnerInv, ResultInv, NodeInv, DataInv, EndInv,
                Unspawned, NodeFails, TerminateAll, ProcessesOK
  <2> QED  BY <2>1, <2>2, <2>3, <2>4, <2>5 DEF RunInv
<1> QED  BY <1>1, <1>2, <1>3, <1>4, <1>5 DEF Runner

\* run_test_phases and the end of run_test_case.  The resync and the next test
\* case start after a run that was ok, so without managers and nodes.
LEMMA MainStep ==
    ASSUME RunInv, Main
    PROVE  RunInv'
<1> USE DEF ToCleanup, caseVars, procVars, pgVars, Exited, MainSteps, Setup, Phases,
            Removed
<1>1. CASE InitialRunOk \/ RunFails \/ ResetFails \/ ResyncOk
  <2>1. ControlOK'
    BY <1>1 DEF RunInv, InitialRunOk, RunFails, ResetFails, ResyncOk, ControlOK
  <2>2. ProcessesOK'
    BY <1>1 DEF RunInv, InitialRunOk, RunFails, ResetFails, ResyncOk, ProcessesOK
  <2>3. RunnerInv' /\ ResultInv'
    BY <1>1 DEF RunInv, InitialRunOk, RunFails, ResetFails, ResyncOk, ProcessesOK,
                RunnerInv, ResultInv
  <2>4. NodeInv' /\ RegistryInv'
    BY <1>1 DEF RunInv, InitialRunOk, RunFails, ResetFails, ResyncOk, ProcessesOK,
                RunnerInv, ResultInv, NodeInv, RegistryInv
  <2>5. DataInv' /\ EndInv'
    BY <1>1 DEF RunInv, ControlOK, RunnerInv, ResultInv, NodeInv, DataInv, EndInv,
                Unspawned, InitialRunOk, RunFails, ResetFails, ResyncOk, ProcessesOK
  <2> QED  BY <2>1, <2>2, <2>3, <2>4, <2>5 DEF RunInv
<1>2. CASE DropSequencerDb \/ StartResync
  <2>1. ControlOK'
    BY <1>2 DEF RunInv, DropSequencerDb, StartResync, ControlOK
  <2>2. ProcessesOK'
    BY <1>2 DEF RunInv, DropSequencerDb, StartResync, ProcessesOK
  <2>3. RunnerInv' /\ ResultInv'
    BY <1>2 DEF RunInv, DropSequencerDb, StartResync, ProcessesOK, RunnerInv, ResultInv
  <2>4. NodeInv' /\ RegistryInv'
    BY <1>2 DEF RunInv, DropSequencerDb, StartResync, ProcessesOK, RunnerInv, ResultInv,
                NodeInv,
                RegistryInv
  <2>5. DataInv' /\ EndInv'
    BY <1>2 DEF RunInv, ControlOK, RunnerInv, ResultInv, NodeInv, DataInv, EndInv,
                Unspawned, DropSequencerDb, StartResync, ProcessesOK
  <2> QED  BY <2>1, <2>2, <2>3, <2>4, <2>5 DEF RunInv
<1>3. CASE HandleInterrupt
  <2>1. ControlOK'
    BY <1>3 DEF RunInv, HandleInterrupt, TerminateAll, KillManagers, ControlOK
  <2>2. ProcessesOK'
    BY <1>3 DEF RunInv, HandleInterrupt, TerminateAll, KillManagers, ProcessesOK
  <2>3. RunnerInv' /\ ResultInv'
    BY <1>3 DEF RunInv, HandleInterrupt, TerminateAll, KillManagers, ProcessesOK,
                RunnerInv, ResultInv
  <2>4. NodeInv' /\ RegistryInv'
    BY <1>3 DEF RunInv, HandleInterrupt, TerminateAll, KillManagers, ProcessesOK,
                RunnerInv, ResultInv, NodeInv, RegistryInv
  <2>5. DataInv' /\ EndInv'
    BY <1>3 DEF RunInv, ControlOK, RunnerInv, ResultInv, NodeInv, DataInv, EndInv,
                Unspawned, HandleInterrupt, TerminateAll, KillManagers, ProcessesOK
  <2> QED  BY <2>1, <2>2, <2>3, <2>4, <2>5 DEF RunInv
<1>4. CASE GracePeriodOver \/ Cleanup
  <2>1. ControlOK'
    BY <1>4 DEF RunInv, GracePeriodOver, Cleanup, TerminateAll, ControlOK
  <2>2. ProcessesOK'
    BY <1>4 DEF RunInv, GracePeriodOver, Cleanup, TerminateAll, ProcessesOK
  <2>3. RunnerInv' /\ ResultInv'
    BY <1>4 DEF RunInv, GracePeriodOver, Cleanup, TerminateAll, ProcessesOK, RunnerInv,
                ResultInv
  <2>4. NodeInv' /\ RegistryInv'
    BY <1>4 DEF RunInv, GracePeriodOver, Cleanup, TerminateAll, ProcessesOK, RunnerInv,
                ResultInv, NodeInv, RegistryInv
  <2>5. DataInv' /\ EndInv'
    BY <1>4 DEF RunInv, ControlOK, RunnerInv, ResultInv, NodeInv, DataInv, EndInv,
                Unspawned, GracePeriodOver, Cleanup, TerminateAll, ProcessesOK
  <2> QED  BY <2>1, <2>2, <2>3, <2>4, <2>5 DEF RunInv
<1>5. CASE Return
  <2>1. ControlOK'
    BY <1>5 DEF RunInv, Return, RemoveContainer, DropMockDa, KillManagers, ControlOK
  <2>2. ProcessesOK'
    BY <1>5 DEF RunInv, Return, RemoveContainer, DropMockDa, KillManagers, ProcessesOK
  <2>3. RunnerInv' /\ ResultInv'
    BY <1>5 DEF RunInv, Return, RemoveContainer, DropMockDa, KillManagers, ProcessesOK,
                RunnerInv,
                ResultInv
  <2>4. NodeInv' /\ RegistryInv'
    <3>1. CASE result = "Ok" /\ MoreCases
      BY <1>5, <3>1 DEF RunInv, Return, ProcessesOK, RunnerInv, ResultInv, NodeInv,
                        RegistryInv
    <3>2. CASE ~(result = "Ok" /\ MoreCases)
      <4>1. /\ runner' \notin {"spawning", "watching", "grace"}
            /\ \A n \in Nodes : node'[n] = FALSE
        BY <1>5, <3>2 DEF Return, KillManagers
      <4>2. left' # {} => runner' \in {"failed", "dropped"}
        <5>1. runner \in {"idle", "ok"} => \A n \in Nodes : ~node[n]
          BY DEF RunInv, RunnerInv, NodeInv
        <5>2. runner \in {"idle", "ok"} => left' = {}
          BY <1>5, <3>2, <5>1 DEF RunInv, Return, KillManagers, NodeInv
        <5> QED  BY <1>5, <3>2, <5>2 DEF RunInv, ControlOK, Return
      <4> QED  BY <4>1, <4>2 DEF NodeInv, RegistryInv
    <3> QED  BY <3>1, <3>2
  <2>5. DataInv' /\ EndInv'
    BY <1>5 DEF RunInv, ControlOK, RunnerInv, ResultInv, NodeInv, DataInv, EndInv,
                Unspawned, Return, RemoveContainer, DropMockDa, KillManagers,
                ProcessesOK
  <2> QED  BY <2>1, <2>2, <2>3, <2>4, <2>5 DEF RunInv
<1> QED  BY <1>1, <1>2, <1>3, <1>4, <1>5 DEF Main

\* The managers and Ctrl+C.  Only run_nodes starts a manager, and a node needs
\* one to start it.
LEMMA EnvironmentStep ==
    ASSUME RunInv, LaunchNode \/ NodeEnds \/ ManagerEnds \/ LeftNodeEnds \/ NodeWrites
             \/ MockDaCrashes \/ InterruptKills
             \/ InterruptArrives
    PROVE  RunInv'
<1> USE DEF ManagerFrame, caseVars, procVars, pgVars, Exited, MainSteps, Setup, Phases,
            Removed
<1>1. CASE LaunchNode \/ NodeEnds
  <2>1. ControlOK'
    BY <1>1 DEF RunInv, LaunchNode, NodeEnds, ControlOK
  <2>2. ProcessesOK'
    BY <1>1 DEF RunInv, LaunchNode, NodeEnds, ProcessesOK
  <2>3. RunnerInv' /\ ResultInv'
    BY <1>1 DEF RunInv, LaunchNode, NodeEnds, ProcessesOK, RunnerInv, ResultInv
  <2>4. NodeInv' /\ RegistryInv'
    BY <1>1 DEF RunInv, LaunchNode, NodeEnds, ProcessesOK, RunnerInv, ResultInv,
                NodeInv, RegistryInv
  <2>5. DataInv' /\ EndInv'
    BY <1>1 DEF RunInv, ControlOK, RunnerInv, ResultInv, NodeInv, DataInv, EndInv,
                Unspawned, LaunchNode, NodeEnds, ProcessesOK
  <2> QED  BY <2>1, <2>2, <2>3, <2>4, <2>5 DEF RunInv
<1>2. CASE ManagerEnds
  <2>1. ControlOK'
    BY <1>2 DEF RunInv, ManagerEnds, ControlOK
  <2>2. ProcessesOK'
    BY <1>2 DEF RunInv, ManagerEnds, ProcessesOK
  <2>3. RunnerInv' /\ ResultInv'
    BY <1>2 DEF RunInv, ManagerEnds, ProcessesOK, RunnerInv, ResultInv
  <2>4. NodeInv' /\ RegistryInv'
    BY <1>2 DEF RunInv, ManagerEnds, ProcessesOK, RunnerInv, ResultInv, NodeInv,
                RegistryInv
  <2>5. DataInv' /\ EndInv'
    BY <1>2 DEF RunInv, ControlOK, RunnerInv, ResultInv, NodeInv, DataInv, EndInv,
                Unspawned, ManagerEnds, ProcessesOK
  <2> QED  BY <2>1, <2>2, <2>3, <2>4, <2>5 DEF RunInv
<1>3. CASE LeftNodeEnds \/ NodeWrites \/ MockDaCrashes
  <2>1. ControlOK'
    BY <1>3 DEF RunInv, LeftNodeEnds, NodeWrites, MockDaCrashes, ControlOK
  <2>2. ProcessesOK'
    BY <1>3 DEF RunInv, LeftNodeEnds, NodeWrites, MockDaCrashes, ProcessesOK
  <2>3. RunnerInv' /\ ResultInv'
    BY <1>3 DEF RunInv, LeftNodeEnds, NodeWrites, MockDaCrashes, ProcessesOK, RunnerInv,
                ResultInv
  <2>4. NodeInv' /\ RegistryInv'
    BY <1>3 DEF RunInv, LeftNodeEnds, NodeWrites, MockDaCrashes, ProcessesOK, RunnerInv,
                ResultInv, NodeInv,
                RegistryInv
  <2>5. DataInv' /\ EndInv'
    BY <1>3 DEF RunInv, ControlOK, RunnerInv, ResultInv, NodeInv, DataInv, EndInv,
                Unspawned, LeftNodeEnds, NodeWrites, MockDaCrashes, ProcessesOK
  <2> QED  BY <2>1, <2>2, <2>3, <2>4, <2>5 DEF RunInv
<1>4. CASE InterruptKills \/ InterruptArrives
  <2>1. ControlOK'
    <3>1. CASE InterruptKills
      BY <1>4, <3>1 DEF RunInv, InterruptKills, ControlOK
    <3>2. CASE InterruptArrives
      <4>1. sigint' \in BOOLEAN
        BY <3>2 DEF InterruptArrives
      <4> QED  BY <3>2, <4>1 DEF RunInv, InterruptArrives, ControlOK
    <3> QED  BY <1>4, <3>1, <3>2
  <2>2. ProcessesOK'
    BY <1>4 DEF RunInv, InterruptKills, InterruptArrives, ProcessesOK
  <2>3. RunnerInv' /\ ResultInv'
    BY <1>4 DEF RunInv, InterruptKills, InterruptArrives, ProcessesOK, RunnerInv,
                ResultInv
  <2>4. NodeInv' /\ RegistryInv'
    BY <1>4 DEF RunInv, InterruptKills, InterruptArrives, ProcessesOK, RunnerInv,
                ResultInv, NodeInv, RegistryInv
  <2>5. DataInv' /\ EndInv'
    BY <1>4 DEF RunInv, ControlOK, RunnerInv, ResultInv, NodeInv, DataInv, EndInv,
                Unspawned, InterruptKills, InterruptArrives, ProcessesOK
  <2> QED  BY <2>1, <2>2, <2>3, <2>4, <2>5 DEF RunInv
<1> QED  BY <1>1, <1>2, <1>3, <1>4

\* Every step preserves the inductive invariant.
LEMMA StepInv == UpgradeTestInv /\ [Next]_vars => UpgradeTestInv'
<1> SUFFICES ASSUME UpgradeTestInv, [Next]_vars PROVE UpgradeTestInv'
  OBVIOUS
<1>1. CountersOK'
  BY CountersStep DEF UpgradeTestInv, TypeOK
<1>2. RunInv
  BY DEF UpgradeTestInv, TypeOK, RunInv
<1>3. RunInv'
  <2>1. CASE UNCHANGED vars
    BY <2>1, <1>2 DEF vars, procVars, caseVars, pgVars, RunInv, ControlOK, ProcessesOK,
                      RunnerInv,
                      ResultInv, NodeInv, RegistryInv, DataInv, EndInv, Unspawned
  <2>2. CASE Next
    BY <1>2, <2>1, <2>2, SetupStep, RunnerStep, MainStep, EnvironmentStep DEF Next, Over
  <2> QED  BY <2>1, <2>2
<1> QED  BY <1>1, <1>3 DEF UpgradeTestInv, TypeOK, RunInv

-----------------------------------------------------------------------------
(* The theorems.                                                            *)

\* The inductive invariant of the upgrade test holds: what run_test_case,
\* run_nodes and the registry believe agrees with the processes there are.
THEOREM IInvHolds == Spec => []UpgradeTestInv
BY InitInv, StepInv, PTL DEF Spec

\* Nothing of a run is alive when run_test_phases clears the storage for the
\* resync, nor when run_test_case has returned Ok: the run was ok, so run_nodes
\* has reaped every manager, and without a manager there is no node.
THEOREM ClearedStorageSafe == Spec => []NothingRunsOnClearedStorage
<1>1. UpgradeTestInv => NothingRunsOnClearedStorage
  BY DEF UpgradeTestInv, RunnerInv, ResultInv, NodeInv, NothingRunsOnClearedStorage
<1> QED  BY <1>1, IInvHolds, PTL

\* Both phases start in the test case's own container, on a sequencer database
\* nobody has written to since reset_sequencer_db, with the DA data kept: nodes
\* need a manager to write, and only failing runs send the DA server SIGTERM.
THEOREM DataSafe == Spec => []PhaseStartsOnItsData
<1>1. UpgradeTestInv => PhaseStartsOnItsData
  BY DEF UpgradeTestInv, DataInv, PhaseStartsOnItsData, Phases, Setup
<1> QED  BY <1>1, IInvHolds, PTL

\* The container is removed, as far as docker lets it, on every path that ends
\* run_test_case.
THEOREM ContainerRemoved == Spec => []NoContainerLeft
<1>1. UpgradeTestInv => NoContainerLeft
  BY DEF UpgradeTestInv, EndInv, NoContainerLeft
<1> QED  BY <1>1, IInvHolds, PTL

\* No manager and no DA server outlives a simulator that is not killed, although
\* the registry has forgotten the server by then.
THEOREM ProcessesEnded == Spec => []NoProcessLeft
<1>1. UpgradeTestInv => NoProcessLeft
  BY DEF UpgradeTestInv, EndInv, NoProcessLeft
<1> QED  BY <1>1, IInvHolds, PTL

\* run_nodes gives every manager SIGTERM before it aborts the tasks and kills
\* what is left, because all of them are registered before any is watched.
THEOREM TermBeforeKillHolds == Spec => TermBeforeKill
<1>1. UpgradeTestInv => (runner = "grace" /\ runner' = "failed" =>
                  \A n \in Nodes : manager[n] = "up" => n \in termed)
  BY DEF UpgradeTestInv, RegistryInv
<1> QED  BY <1>1, IInvHolds, PTL DEF TermBeforeKill

=============================================================================
