------------------------ MODULE RollupManagerProofs ------------------------
(***************************************************************************)
(* Proofs that the rollup manager has its safety properties, for every     *)
(* schedule of versions, slack, set of migrations and bound.               *)
(***************************************************************************)
EXTENDS RollupManagerInvariant, TLAPS

\* The initial states of run() satisfy the inductive invariant.
THEOREM InitManagerInv == Init => ManagerInv
<1> SUFFICES ASSUME Init PROVE ManagerInv
    OBVIOUS
<1>1. TypeOK
  <2>1. path \in [Versions -> Paths]
    BY DEF Init
  <2>2. 0 \in Versions
    BY NAssumption DEF Versions
  <2>3. ckpt \in Checkpoints
    BY <2>2 DEF Init, Checkpoints
  <2>4. 0 \in 0 .. MaxStarts /\ 0 \in 0 .. MaxSignals /\ 0 \in 0 .. MaxEdits
    <3>1. MaxStarts \in Nat /\ MaxSignals \in Nat /\ MaxEdits \in Nat
      BY BoundAssumption, Zenon
    <3> QED BY <3>1
  <2>5. pending \in BOOLEAN /\ owed \in BOOLEAN
    BY DEF Init
  <2>6. lastKnown \in Nat \cup {None} /\ height \in Nat /\ code \in ExitStatuses
    BY DEF Init, ExitStatuses
  <2>7. migrated \in SUBSET Versions /\ strayMigs \in SUBSET Versions
    BY DEF Init
  <2>8. mgr \in MgrStates /\ child \in ChildStates
        /\ handler \in {"default", "registered", "unread"}
    BY DEF Init, MgrStates, ChildStates
  <2> QED
    BY <2>1, <2>2, <2>3, <2>4, <2>5, <2>6, <2>7, <2>8 DEF Init, TypeOK
<1>2. ChildInv /\ AloneInv /\ PolledInv /\ ExitInv /\ StrayInv
    BY ValueAssumption
       DEF Init, ChildInv, AloneInv, PolledInv, ExitInv, StrayInv, Monitoring
<1>3. OrderInv
    BY NAssumption DEF Init, OrderInv, Versions
<1>4. FileInv /\ MigrationInv
    BY ConfigAssumption
       DEF Init, FileInv, MigrationInv, Written, Launched, Monitoring, Required, Versions
<1> QED
    BY <1>1, <1>2, <1>3, <1>4 DEF ManagerInv

\* Every step keeps every variable in its type.
LEMMA TypeStep == TypeOK /\ [Next]_vars => TypeOK'
<1> SUFFICES ASSUME TypeOK, [Next]_vars PROVE TypeOK'
    OBVIOUS
<1> USE DEF TypeOK
<1>1. CASE ManagerStep
  <2> USE DEF MgrStates, Monitoring, ChildStates, ExitStatuses, configVars, sigVars,
              childVars, storeVars, strayVars, budgetVars
  <2>1. CASE LoadCheckpoint
    <3>1. cur' \in Versions
        BY <2>1, NAssumption DEF LoadCheckpoint, Checkpoints, Versions
    <3> QED BY <2>1, <3>1 DEF LoadCheckpoint
  <2>2. CASE RejectCheckpoint \/ AllCompleted \/ VersionFailed \/ TerminateReaps
             \/ TerminateKills
    <3>1. \E e \in ExitStatuses, l \in Versions \cup {None} : End(e, l) /\ UNCHANGED strayMigs
        BY <2>2 DEF RejectCheckpoint, AllCompleted, VersionFailed, TerminateReaps,
                    TerminateKills, Quit, LeftBehind, ManagerExit
    <3> QED BY <3>1 DEF End
  <2>3. CASE SkipCheckpoint \/ StartMigration \/ Launch \/ PollHeight \/ PollFails
             \/ StillRunning
    BY <2>3 DEF SkipCheckpoint, StartMigration, Launch, PollHeight, PollFails,
                StillRunning
  <2>6. CASE ForwardSignals
    <3>1. owed' \in BOOLEAN
        BY <2>6 DEF ForwardSignals
    <3> QED BY <2>6, <3>1 DEF ForwardSignals
  <2>4. CASE TruncateCheckpoint \/ WriteCheckpoint
    <3>1. ckpt' \in Checkpoints
        BY <2>4 DEF TruncateCheckpoint, WriteCheckpoint, Checkpoints
    <3> QED BY <2>4, <3>1 DEF TruncateCheckpoint, WriteCheckpoint
  <2>5. CASE NextVersion
    <3>1. cur' \in Versions
        BY <2>5, NAssumption DEF NextVersion, Versions
    <3> QED BY <2>5, <3>1 DEF NextVersion
  <2> QED
    BY <1>1, <2>1, <2>2, <2>3, <2>4, <2>5, <2>6 DEF ManagerStep
<1>2. CASE Environment
  <2> USE DEF MgrStates, Monitoring, ChildStates, ExitStatuses, configVars, loopVars,
              sigVars, childVars, storeVars, strayVars, budgetVars
  <2>1. CASE StartManager \/ SignalArrives \/ SignalUnread
    <3>1. starts' \in 0 .. MaxStarts /\ signals' \in 0 .. MaxSignals
        BY <2>1, BoundAssumption DEF StartManager, SignalArrives, SignalUnread
    <3> QED BY <2>1, <3>1 DEF StartManager, SignalArrives, SignalUnread
  <2>2. CASE StepFails \/ MigrationFails \/ ManagerKilled
    <3>1. \E e \in ExitStatuses, l \in Versions \cup {None} :
             End(e, l) /\ strayMigs' \in SUBSET Versions
        BY <2>2 DEF StepFails, MigrationFails, ManagerKilled, Die, Quit, LeftBehind,
                    ManagerExit
    <3> QED BY <3>1 DEF End
  <2>3. CASE MigrationSucceeds \/ NodeStarts \/ NodeRefuses \/ ProduceBlock
             \/ NodeExits \/ StrayNodeExits
    BY <2>3 DEF MigrationSucceeds, NodeStarts, NodeRefuses, ProduceBlock, NodeExits,
                StrayNodeExits
  <2>4. CASE StrayMigrationEnds
    BY <2>4 DEF StrayMigrationEnds
  <2>5. CASE EditConfig
    <3>1. /\ count' \in 1 .. N
          /\ path' \in [Versions -> Paths]
          /\ edits' \in 0 .. MaxEdits
        BY <2>5, NAssumption, BoundAssumption DEF EditConfig
    <3> QED BY <2>5, <3>1 DEF EditConfig
  <2> QED
    BY <1>2, <2>1, <2>2, <2>3, <2>4, <2>5 DEF Environment
<1>3. CASE UNCHANGED vars
    BY <1>3 DEF vars, configVars, loopVars, sigVars, childVars, storeVars, strayVars,
                budgetVars
<1> QED
    BY <1>1, <1>2, <1>3 DEF Next

-----------------------------------------------------------------------------
(* Each part of the invariant, step by step.                                *)

\* What every step leaves alone in the configuration while a manager runs.
LEMMA ConfigStep ==
    ASSUME TypeOK, [Next]_vars
    PROVE  /\ useCheckpoint' = useCheckpoint
           /\ (path' = path /\ count' = count) \/ (EditConfig /\ mgr = "down" /\ mgr' = "down")
<1>1. CASE ManagerStep
    BY <1>1 DEF ManagerStep, LoadCheckpoint, RejectCheckpoint, SkipCheckpoint,
       TruncateCheckpoint, WriteCheckpoint, StartMigration, Launch, ForwardSignals,
       PollHeight, PollFails, StillRunning, NextVersion, AllCompleted, VersionFailed,
       TerminateReaps, TerminateKills, Quit, End, configVars
<1>2. CASE Environment
    BY <1>2 DEF Environment, StartManager, StepFails, MigrationSucceeds, MigrationFails,
       NodeStarts, NodeRefuses, ProduceBlock, NodeExits, StrayNodeExits,
       StrayMigrationEnds, ManagerKilled, Die, SignalArrives, SignalUnread, EditConfig,
       Quit, End, configVars, loopVars
<1>3. CASE UNCHANGED vars
    BY <1>3 DEF vars, configVars
<1> QED
    BY <1>1, <1>2, <1>3 DEF Next

\* A node exists exactly while the thread monitors it.
LEMMA ChildStep == TypeOK /\ ChildInv /\ [Next]_vars => ChildInv'
<1> SUFFICES ASSUME TypeOK, ChildInv, [Next]_vars PROVE ChildInv'
    OBVIOUS
<1> USE DEF ChildInv, Monitoring
<1>1. CASE ManagerStep
    BY <1>1 DEF ManagerStep, LoadCheckpoint, RejectCheckpoint, SkipCheckpoint,
       TruncateCheckpoint, WriteCheckpoint, StartMigration, Launch, ForwardSignals,
       PollHeight, PollFails, StillRunning, NextVersion, AllCompleted, VersionFailed,
       TerminateReaps, TerminateKills, Quit, End, childVars
<1>2. CASE Environment
    BY <1>2 DEF Environment, StartManager, StepFails, MigrationSucceeds, MigrationFails,
       NodeStarts, NodeRefuses, ProduceBlock, NodeExits, StrayNodeExits,
       StrayMigrationEnds, ManagerKilled, Die, SignalArrives, SignalUnread, EditConfig,
       Quit, End, Alive, childVars, loopVars
<1>3. CASE UNCHANGED vars
    BY <1>3 DEF vars, loopVars, childVars
<1> QED
    BY <1>1, <1>2, <1>3 DEF Next

\* A running node stays alone: another one cannot come up beside it, and a node
\* becomes a stray only when its manager dies.
LEMMA AloneStep == TypeOK /\ ChildInv /\ AloneInv /\ [Next]_vars => AloneInv'
<1> SUFFICES ASSUME TypeOK, ChildInv, AloneInv, [Next]_vars PROVE AloneInv'
    OBVIOUS
<1> USE DEF AloneInv, Monitoring
<1>1. CASE ManagerStep
    BY <1>1 DEF ManagerStep, LoadCheckpoint, RejectCheckpoint, SkipCheckpoint,
       TruncateCheckpoint, WriteCheckpoint, StartMigration, Launch, ForwardSignals,
       PollHeight, PollFails, StillRunning, NextVersion, AllCompleted, VersionFailed,
       TerminateReaps, TerminateKills, Quit, End, childVars, strayVars
<1>2. CASE Environment
    BY <1>2 DEF Environment, StartManager, StepFails, MigrationSucceeds, MigrationFails,
       NodeStarts, NodeRefuses, ProduceBlock, NodeExits, StrayNodeExits,
       StrayMigrationEnds, ManagerKilled, Die, SignalArrives, SignalUnread, EditConfig,
       Quit, End, StartPossible, Alive, childVars, strayVars
<1>3. CASE UNCHANGED vars
    BY <1>3 DEF vars, strayVars, childVars
<1> QED
    BY <1>1, <1>2, <1>3 DEF Next

\* What was polled stays below the height, which only grows.
LEMMA PolledStep == TypeOK /\ PolledInv /\ [Next]_vars => PolledInv'
<1> SUFFICES ASSUME TypeOK, PolledInv, [Next]_vars PROVE PolledInv'
    OBVIOUS
<1> USE DEF PolledInv, TypeOK
<1>1. CASE ManagerStep
    BY <1>1, ValueAssumption DEF ManagerStep, LoadCheckpoint, RejectCheckpoint, SkipCheckpoint,
       TruncateCheckpoint, WriteCheckpoint, StartMigration, Launch, ForwardSignals,
       PollHeight, PollFails, StillRunning, NextVersion, AllCompleted, VersionFailed,
       TerminateReaps, TerminateKills, Quit, End, configVars, loopVars, childVars, storeVars, strayVars, budgetVars
<1>2. CASE Environment
    BY <1>2, ValueAssumption DEF Environment, StartManager, StepFails, MigrationSucceeds, MigrationFails,
       NodeStarts, NodeRefuses, ProduceBlock, NodeExits, StrayNodeExits,
       StrayMigrationEnds, ManagerKilled, Die, SignalArrives, SignalUnread, EditConfig,
       Quit, End, configVars, loopVars, childVars, storeVars, strayVars, budgetVars
<1>3. CASE UNCHANGED vars
    BY <1>3 DEF vars, configVars, loopVars, childVars, storeVars, strayVars, budgetVars
<1> QED
    BY <1>1, <1>2, <1>3 DEF Next

\* A version that handle_process_exit lets pass has been left near its stop
\* height: the height it was judged by is at most the chain's.
LEMMA CompletedIsLeft ==
    ASSUME TypeOK, PolledInv, Completed, cur < count
    PROVE  Left(cur)
<1>1. StopOf(cur) = Stop[cur]
    BY DEF Completed, CompletedBy, StopOf
<1>2. Stop[cur] \in Nat
    BY <1>1, StopAssumption DEF Completed, CompletedBy, TypeOK
<1>3. MinAcceptable(Stop[cur]) \in Nat
    BY <1>2, ConfigAssumption DEF MinAcceptable
<1>4. lastKnown \in Nat /\ lastKnown <= height /\ MinAcceptable(Stop[cur]) <= lastKnown
    BY <1>1 DEF Completed, CompletedBy, PolledInv, TypeOK
<1> QED
    BY <1>2, <1>3, <1>4, ValueAssumption DEF Left, TypeOK

\* Only a block changes the height.
LEMMA HeightStep ==
    ASSUME [Next]_vars
    PROVE  height' = height \/ (ProduceBlock /\ height' = height + 1)
<1>1. CASE ManagerStep
    BY <1>1 DEF ManagerStep, LoadCheckpoint, RejectCheckpoint, SkipCheckpoint,
       TruncateCheckpoint, WriteCheckpoint, StartMigration, Launch, ForwardSignals,
       PollHeight, PollFails, StillRunning, NextVersion, AllCompleted, VersionFailed,
       TerminateReaps, TerminateKills, Quit, End, storeVars
<1>2. CASE Environment
    BY <1>2 DEF Environment, StartManager, StepFails, MigrationSucceeds, MigrationFails,
       NodeStarts, NodeRefuses, ProduceBlock, NodeExits, StrayNodeExits,
       StrayMigrationEnds, ManagerKilled, Die, SignalArrives, SignalUnread, EditConfig,
       Quit, End, storeVars
<1>3. CASE UNCHANGED vars
    BY <1>3 DEF vars, storeVars
<1> QED
    BY <1>1, <1>2, <1>3 DEF Next

\* Once left near its stop height, a version stays so: the height only grows.
LEMMA LeftStep ==
    ASSUME TypeOK, [Next]_vars, NEW v \in Versions, Left(v)
    PROVE  Left(v)'
<1>1. height \in Nat /\ height' \in Nat /\ height <= height'
    BY HeightStep DEF TypeOK
<1>2. MinAcceptable(Stop[v]) \in Nat
    BY StopAssumption, ConfigAssumption DEF Left, MinAcceptable
<1> QED
    BY <1>1, <1>2 DEF Left, MinAcceptable

\* How the loop index and the file's index move: to the file's index or 0 on a
\* restart, by one when a version is completed; to the loop index on a write.
LEMMA IndexStep ==
    ASSUME TypeOK, [Next]_vars
    PROVE  /\ \/ cur' = cur
              \/ LoadCheckpoint /\ cur' \in {0, ckpt.index}
              \/ NextVersion /\ cur' = cur + 1
           /\ ckpt' = ckpt \/ TruncateCheckpoint \/ WriteCheckpoint
<1>1. CASE ManagerStep
    BY <1>1 DEF ManagerStep, LoadCheckpoint, RejectCheckpoint, SkipCheckpoint,
       TruncateCheckpoint, WriteCheckpoint, StartMigration, Launch, ForwardSignals,
       PollHeight, PollFails, StillRunning, NextVersion, AllCompleted, VersionFailed,
       TerminateReaps, TerminateKills, Quit, End
<1>2. CASE Environment
    BY <1>2 DEF Environment, StartManager, StepFails, MigrationSucceeds, MigrationFails,
       NodeStarts, NodeRefuses, ProduceBlock, NodeExits, StrayNodeExits,
       StrayMigrationEnds, ManagerKilled, Die, SignalArrives, SignalUnread, EditConfig,
       Quit, End, loopVars
<1>3. CASE UNCHANGED vars
    BY <1>3 DEF vars, loopVars
<1> QED
    BY <1>1, <1>2, <1>3 DEF Next

\* Versions are taken in order, each left near its stop height.
LEMMA OrderStep ==
    TypeOK /\ ChildInv /\ PolledInv /\ OrderInv /\ [Next]_vars => OrderInv'
<1> SUFFICES ASSUME TypeOK, ChildInv, PolledInv, OrderInv, [Next]_vars PROVE OrderInv'
    OBVIOUS
<1>1. cur' < count' \/ mgr' \in {"down", "load"}
  <2>1. CASE LoadCheckpoint
    <3>1. count' = count /\ count \in Nat \ {0} /\ ckpt.index \in Nat
        BY <2>1, NAssumption DEF LoadCheckpoint, TypeOK, Checkpoints, Versions, configVars
    <3>2. cur' = 0 \/ (cur' = ckpt.index /\ ~(ckpt.index >= count))
        BY <2>1 DEF LoadCheckpoint, LoadRejected
    <3> QED BY <3>1, <3>2
  <2>2. CASE NextVersion
    BY <2>2 DEF NextVersion, TypeOK, Versions, configVars
  <2>3. CASE cur' = cur /\ mgr \in {"down", "load"}
    <3>1. mgr' \in {"down", "load"} \/ LoadCheckpoint
      <4>1. CASE ManagerStep
        BY <2>3, <4>1 DEF ManagerStep, RejectCheckpoint, SkipCheckpoint,
           TruncateCheckpoint, WriteCheckpoint, StartMigration, Launch, ForwardSignals,
           PollHeight, PollFails, StillRunning, NextVersion, AllCompleted,
           VersionFailed, TerminateReaps, TerminateKills, Quit, End
      <4>2. CASE Environment
        BY <2>3, <4>2 DEF Environment, StartManager, StepFails, MigrationSucceeds,
           MigrationFails, NodeStarts, NodeRefuses, ProduceBlock, NodeExits,
           StrayNodeExits, StrayMigrationEnds, ManagerKilled, Die, SignalArrives,
           SignalUnread, EditConfig, Quit, End, loopVars
      <4>3. CASE UNCHANGED vars
        BY <2>3, <4>3 DEF vars, loopVars
      <4> QED BY <4>1, <4>2, <4>3 DEF Next
    <3> QED BY <3>1, <2>1
  <2>4. CASE cur' = cur /\ mgr \notin {"down", "load"}
    BY <2>4, ConfigStep DEF OrderInv
  <2> QED BY <2>1, <2>2, <2>3, <2>4, IndexStep
<1>2. ASSUME NEW v \in Versions, v < cur' PROVE Left(v)'
  <2>1. CASE v < cur
    BY <2>1, LeftStep DEF OrderInv
  <2>2. CASE LoadCheckpoint /\ ~(v < cur)
    <3>1. v < ckpt.index
        BY <1>2, <2>2 DEF LoadCheckpoint, Versions, TypeOK, Checkpoints
    <3> QED BY <3>1, LeftStep DEF OrderInv
  <2>3. CASE NextVersion /\ ~(v < cur)
    <3>1. v = cur
        BY <1>2, <2>3 DEF NextVersion, Versions, TypeOK
    <3>2. Left(cur)
        BY <2>3, CompletedIsLeft DEF NextVersion, TypeOK, Versions
    <3> QED BY <3>1, <3>2, LeftStep
  <2> QED BY <1>2, <2>1, <2>2, <2>3, IndexStep
<1>3. ASSUME NEW v \in Versions, v < ckpt'.index PROVE Left(v)'
  <2>1. CASE v < ckpt.index
    BY <2>1, LeftStep DEF OrderInv
  <2>2. CASE ~(v < ckpt.index)
    <3>1. WriteCheckpoint
        BY <1>3, <2>2, IndexStep DEF TruncateCheckpoint, TypeOK, Checkpoints
    <3>2. v < cur
        BY <1>3, <3>1 DEF WriteCheckpoint
    <3> QED BY <3>2, LeftStep DEF OrderInv
  <2> QED BY <2>1, <2>2
<1> QED
    BY <1>1, <1>2, <1>3 DEF OrderInv

\* Status 0 is given once, when the last version configured is completed.
LEMMA ExitStep ==
    TypeOK /\ PolledInv /\ OrderInv /\ ExitInv /\ [Next]_vars => ExitInv'
<1> SUFFICES ASSUME TypeOK, PolledInv, OrderInv, ExitInv, [Next]_vars PROVE ExitInv'
    OBVIOUS
<1>1. \A c \in ExitStatuses \ {0} : ManagerExit(c) # 0
    BY DEF ManagerExit
<1>2. BySignal # 0 /\ None # 0
    BY ValueAssumption
<1>3. /\ mgr' # "down" => exit' = None
      /\ exit' = 0 => \/ AllCompleted
                       \/ /\ exit = 0 /\ mgr = "down" /\ cur' = cur
                          /\ (count' = count /\ edits' = edits) \/ edits' = edits + 1
  <2>1. CASE ManagerStep
    BY <1>1, <1>2, <2>1 DEF ExitInv, TypeOK, ManagerStep, LoadCheckpoint,
       RejectCheckpoint, SkipCheckpoint, TruncateCheckpoint, WriteCheckpoint,
       StartMigration, Launch, ForwardSignals, PollHeight, PollFails, StillRunning,
       NextVersion, VersionFailed, TerminateReaps, TerminateKills,
       AllCompleted, Quit, End
  <2>2. CASE Environment
    BY <1>1, <1>2, <2>2 DEF ExitInv, Environment, StartManager, StepFails,
       MigrationSucceeds, MigrationFails, NodeStarts, NodeRefuses, ProduceBlock,
       NodeExits, StrayNodeExits, StrayMigrationEnds, ManagerKilled, Die, SignalArrives,
       SignalUnread, EditConfig, Quit, End, loopVars, configVars, budgetVars
  <2>3. CASE UNCHANGED vars
    BY <1>2, <2>3 DEF ExitInv, vars, loopVars, configVars, budgetVars
  <2> QED BY <2>1, <2>2, <2>3 DEF Next
<1>4. CASE AllCompleted
  <2>1. cur' = cur /\ count' = count /\ cur = count - 1
    BY <1>4 DEF AllCompleted, Quit, End, configVars
  <2>2. Left(cur)
    BY <1>4, CompletedIsLeft, NAssumption DEF AllCompleted, TypeOK
  <2> QED BY <1>3, <2>1, <2>2, LeftStep DEF ExitInv, TypeOK, Left
<1>5. CASE exit = 0 /\ mgr = "down" /\ cur' = cur
           /\ ((count' = count /\ edits' = edits) \/ edits' = edits + 1)
  <2>1. Left(cur)'
    BY <1>5, LeftStep DEF ExitInv, TypeOK, Left
  <2> QED BY <1>3, <1>5, <2>1 DEF ExitInv, TypeOK
<1> QED
    BY <1>3, <1>4, <1>5 DEF ExitInv

\* A stray node or migration, and the migrations applied.
LEMMA MigratedStep ==
    ASSUME TypeOK, [Next]_vars
    PROVE  /\ \/ migrated' = migrated
              \/ MigrationSucceeds /\ migrated' = migrated \cup {cur}
              \/ \E v \in strayMigs : migrated' = migrated \cup {v}
           /\ \/ strayMigs' \subseteq strayMigs
              \/ /\ mgr = "migrating" /\ mgr' = "down"
                 /\ strayMigs' = strayMigs \cup {cur}
           /\ \/ stray' \in {stray, None}
              \/ child \in Alive /\ stray' = cur /\ mgr' = "down"
<1>1. CASE ManagerStep
    BY <1>1 DEF ManagerStep, LoadCheckpoint, RejectCheckpoint, SkipCheckpoint,
       TruncateCheckpoint, WriteCheckpoint, StartMigration, Launch, ForwardSignals,
       PollHeight, PollFails, StillRunning, NextVersion, AllCompleted, VersionFailed,
       TerminateReaps, TerminateKills, Quit, End, LeftBehind, storeVars, strayVars, Alive
<1>2. CASE Environment
    BY <1>2 DEF Environment, StartManager, StepFails, MigrationSucceeds, MigrationFails,
       NodeStarts, NodeRefuses, ProduceBlock, NodeExits, StrayNodeExits,
       StrayMigrationEnds, ManagerKilled, Die, SignalArrives, SignalUnread, EditConfig,
       Quit, End, LeftBehind, storeVars, strayVars, Alive
<1>3. CASE UNCHANGED vars
    BY <1>3 DEF vars, storeVars, strayVars
<1> QED
    BY <1>1, <1>2, <1>3 DEF Next

\* The file names the version in hand, or its predecessor while the next one's
\* entry has not been written.
LEMMA FileStep ==
    /\ TypeOK /\ ChildInv /\ AloneInv /\ FileInv /\ MigrationInv /\ StrayInv
    /\ [Next]_vars
    => FileInv'
<1> SUFFICES ASSUME TypeOK, ChildInv, AloneInv, FileInv, MigrationInv, StrayInv,
                    [Next]_vars
             PROVE  FileInv'
    OBVIOUS
<1> USE DEF FileInv, Written, Launched, Monitoring, configVars, loopVars, childVars,
            storeVars, strayVars, budgetVars
\* The steps on the way to a launch.
<1>1. CASE LoadCheckpoint
    BY <1>1 DEF LoadCheckpoint, LoadRejected, TypeOK, Checkpoints
<1>2. CASE SkipCheckpoint
    BY <1>2 DEF SkipCheckpoint, TypeOK, Checkpoints
<1>3. CASE TruncateCheckpoint
    BY <1>3 DEF TruncateCheckpoint, TypeOK, Checkpoints
<1>4. CASE WriteCheckpoint
    BY <1>4 DEF WriteCheckpoint, TypeOK, Checkpoints
<1>5. CASE StartMigration \/ MigrationSucceeds \/ Launch
    BY <1>5 DEF StartMigration, MigrationSucceeds, Launch
\* The monitoring loop and its end.
<1>6. CASE ForwardSignals \/ PollHeight \/ PollFails \/ StillRunning
    BY <1>6 DEF ForwardSignals, PollHeight, PollFails, StillRunning
<1>7. CASE NextVersion
    BY <1>7 DEF NextVersion, Completed, CompletedBy, AloneInv, MigrationInv, TypeOK, Checkpoints
\* The ends of the manager.
<1>8. CASE RejectCheckpoint \/ AllCompleted \/ VersionFailed \/ TerminateReaps
           \/ TerminateKills \/ StepFails \/ MigrationFails \/ ManagerKilled
  <2>1. /\ mgr' = "down" /\ ckpt' = ckpt /\ useCheckpoint' = useCheckpoint
        /\ migrated' = migrated
        /\ strayMigs' = strayMigs \/ mgr = "migrating"
        /\ stray' = stray \/ mgr \in Monitoring
    BY <1>8 DEF ChildInv, RejectCheckpoint, AllCompleted, VersionFailed, TerminateReaps,
       TerminateKills, StepFails, MigrationFails, ManagerKilled, Die, Quit, End,
       LeftBehind
  <2> QED BY <2>1
\* The environment.
<1>9. CASE StartManager \/ SignalArrives \/ SignalUnread \/ NodeStarts \/ NodeRefuses
           \/ ProduceBlock \/ NodeExits
    BY <1>9 DEF StartManager, SignalArrives, SignalUnread, NodeStarts, NodeRefuses,
       ProduceBlock, NodeExits
<1>10. CASE StrayNodeExits
    BY <1>10 DEF StrayNodeExits
<1>11. CASE StrayMigrationEnds
  <2>1. PICK v \in strayMigs : migrated' \in {migrated, migrated \cup {v}}
    BY <1>11 DEF StrayMigrationEnds
  <2>2. useCheckpoint => v \in Required(ckpt.index)
    BY DEF MigrationInv
  <2> QED BY <1>11, <2>1, <2>2 DEF StrayMigrationEnds
<1>12. CASE EditConfig
    BY <1>12 DEF EditConfig
<1>13. CASE UNCHANGED vars
    BY <1>13 DEF vars
<1> QED
    BY <1>1, <1>2, <1>3, <1>4, <1>5, <1>6, <1>7, <1>8, <1>9, <1>10, <1>11, <1>12, <1>13
       DEF Next, ManagerStep, Environment

\* Migrations are applied in order, and a version is launched only after its own.
LEMMA MigrationStep ==
    /\ TypeOK /\ ChildInv /\ AloneInv /\ FileInv /\ MigrationInv /\ StrayInv
    /\ [Next]_vars
    => MigrationInv'
<1> SUFFICES ASSUME TypeOK, ChildInv, AloneInv, FileInv, MigrationInv, StrayInv,
                    [Next]_vars
             PROVE  MigrationInv'
    OBVIOUS
<1> USE DEF MigrationInv, Launched, Monitoring, configVars, loopVars, childVars,
            storeVars, strayVars, budgetVars
<1>1. CASE LoadCheckpoint
    BY <1>1 DEF LoadCheckpoint
<1>2. CASE SkipCheckpoint
    BY <1>2 DEF SkipCheckpoint
<1>3. CASE TruncateCheckpoint
    BY <1>3 DEF TruncateCheckpoint, TypeOK, Checkpoints
<1>4. CASE WriteCheckpoint
    BY <1>4, ConfigAssumption
       DEF WriteCheckpoint, FileInv, TypeOK, Checkpoints, Required, Versions
<1> DEFINE Before == {m \in Migrating : m < cur}
<1>a. (useCheckpoint /\ mgr \in Written) =>
          ckpt.index = cur /\ Before \subseteq migrated /\ migrated \subseteq Required(cur)
    BY DEF FileInv, Written
<1>b. /\ cur \in Migrating => Required(cur) = Before \cup {cur}
      /\ cur \notin Migrating => Required(cur) = Before
  <2>1. \A m \in Migrating : m \in Int /\ (m <= cur <=> m < cur \/ m = cur)
    BY ConfigAssumption, NAssumption DEF TypeOK, Versions
  <2> QED BY <2>1 DEF Required
<1>5. CASE StartMigration
  <2>1. useCheckpoint /\ mgr' = "launch" => migrated = Required(cur)
    BY <1>5, <1>a, <1>b DEF StartMigration, Written
  <2> QED BY <1>5, <2>1 DEF StartMigration
<1>6. CASE MigrationSucceeds
  <2>1. useCheckpoint => migrated' = Required(cur) /\ ckpt.index = cur
    BY <1>6, <1>a, <1>b DEF MigrationSucceeds, Written
  <2> HIDE DEF Before
  <2>2. \A m \in migrated : m \in migrated'
    BY <1>6 DEF MigrationSucceeds
  <2> QED BY <1>6, <2>1, <2>2 DEF MigrationSucceeds
<1>7. CASE Launch \/ ForwardSignals \/ PollHeight \/ PollFails \/ StillRunning
    BY <1>7 DEF Launch, ForwardSignals, PollHeight, PollFails, StillRunning
<1>8. CASE NextVersion
    BY <1>8 DEF NextVersion
<1>9. CASE RejectCheckpoint \/ AllCompleted \/ VersionFailed \/ TerminateReaps
           \/ TerminateKills \/ StepFails \/ MigrationFails \/ ManagerKilled
  <2>1. /\ mgr' = "down" /\ ckpt' = ckpt /\ useCheckpoint' = useCheckpoint
        /\ migrated' = migrated
        /\ \/ strayMigs' = strayMigs
           \/ mgr = "migrating" /\ strayMigs' = strayMigs \cup {cur}
    BY <1>9 DEF RejectCheckpoint, AllCompleted, VersionFailed, TerminateReaps,
       TerminateKills, StepFails, MigrationFails, ManagerKilled, Die, Quit, End
  <2>2. (useCheckpoint /\ mgr = "migrating") => cur \in Required(ckpt.index)
    BY ConfigAssumption DEF FileInv, Written, Required, TypeOK, Versions
  <2> QED BY <2>1, <2>2
<1>10. CASE StartManager \/ SignalArrives \/ SignalUnread \/ NodeStarts \/ NodeRefuses
           \/ ProduceBlock \/ NodeExits \/ StrayNodeExits \/ EditConfig
    BY <1>10 DEF StartManager, SignalArrives, SignalUnread, NodeStarts, NodeRefuses,
       ProduceBlock, NodeExits, StrayNodeExits, EditConfig
<1>11. CASE StrayMigrationEnds
  <2>1. PICK v \in strayMigs : /\ migrated' \in {migrated, migrated \cup {v}}
                               /\ strayMigs' = strayMigs \ {v}
    BY <1>11 DEF StrayMigrationEnds
  <2>2. useCheckpoint => v \in Required(ckpt.index)
    OBVIOUS
  <2>3. useCheckpoint /\ mgr \in Launched => ckpt.index = cur
    BY DEF FileInv, Written
  <2> QED BY <1>11, <2>1, <2>2, <2>3 DEF StrayMigrationEnds
<1>12. CASE UNCHANGED vars
    BY <1>12 DEF vars
<1> QED
    BY <1>1, <1>2, <1>3, <1>4, <1>5, <1>6, <1>7, <1>8, <1>9, <1>10, <1>11, <1>12
       DEF Next, ManagerStep, Environment

\* A node that is left behind is of the version the file names, and no other
\* version is written to the file as long as it runs.
LEMMA StrayStep ==
    /\ TypeOK /\ ChildInv /\ AloneInv /\ FileInv /\ MigrationInv /\ StrayInv
    /\ [Next]_vars
    => StrayInv'
<1> SUFFICES ASSUME TypeOK, ChildInv, AloneInv, FileInv, MigrationInv, StrayInv,
                    [Next]_vars, useCheckpoint', stray' # None
             PROVE  ckpt'.index = stray' /\ migrated' = Required(stray')
    BY DEF StrayInv
<1>1. useCheckpoint
    BY ConfigStep
<1>2. CASE stray' # stray
  <2>1. child \in Alive /\ stray' = cur /\ mgr' = "down"
    BY <1>2, MigratedStep
  <2>2. mgr \in Monitoring
    BY <2>1 DEF ChildInv, Alive
  <2>3. ckpt.index = cur /\ migrated = Required(cur)
    BY <1>1, <2>2 DEF FileInv, MigrationInv, Written, Launched
  <2>4. ckpt' = ckpt
    BY <2>1, IndexStep DEF TruncateCheckpoint, WriteCheckpoint
  <2>5. migrated' = migrated
    BY <2>1, <2>2, <2>3, <1>1, MigratedStep DEF MigrationInv, MigrationSucceeds, Monitoring
  <2> QED BY <2>1, <2>3, <2>4, <2>5
<1>3. CASE stray' = stray
  <2>1. ckpt.index = stray /\ migrated = Required(stray)
    BY <1>1, <1>3 DEF StrayInv
  <2>2. ckpt'.index = ckpt.index
    BY <1>1, <1>3, <2>1, IndexStep
       DEF TruncateCheckpoint, WriteCheckpoint, FileInv, TypeOK, Checkpoints
  <2>3. migrated' = migrated
    <3>1. CASE MigrationSucceeds
      BY <1>1, <2>1, <3>1, MigratedStep, ConfigAssumption
         DEF MigrationSucceeds, FileInv, MigrationInv, Written, Required, TypeOK, Versions
    <3>2. CASE ~MigrationSucceeds
      BY <1>1, <2>1, <3>2, MigratedStep DEF MigrationInv
    <3> QED BY <3>1, <3>2
  <2> QED BY <1>3, <2>1, <2>2, <2>3
<1> QED
    BY <1>2, <1>3

-----------------------------------------------------------------------------
(* The theorems.                                                            *)

\* The inductive invariant holds in every reachable state.
THEOREM IInvHolds == Spec => []ManagerInv
<1>1. ManagerInv /\ [Next]_vars => ManagerInv'
    BY TypeStep, ChildStep, AloneStep, PolledStep, OrderStep, ExitStep, FileStep,
       MigrationStep, StrayStep DEF ManagerInv
<1> QED
    BY InitManagerInv, <1>1, PTL DEF Spec

\* Every variable of the manager stays in its type.
THEOREM TypeCorrect == Spec => []TypeOK
<1>1. ManagerInv => TypeOK
    BY DEF ManagerInv
<1> QED
    BY <1>1, IInvHolds, PTL

\* Whenever a node may be alive, the file is whole and names its version, so
\* that a crash at that moment loses nothing.
THEOREM CheckpointSafe == Spec => []CheckpointNamesRunner
<1>1. ManagerInv => CheckpointNamesRunner
    BY DEF ManagerInv, ChildInv, FileInv, StrayInv, CheckpointNamesRunner, Written, Launched
<1> QED
    BY <1>1, IInvHolds, PTL

\* No version is left while the chain is short of its stop height by more than
\* the slack.
THEOREM UpgradeSafe == Spec => []UpgradedNearStop
<1>1. ManagerInv => UpgradedNearStop
    BY DEF ManagerInv, OrderInv, UpgradedNearStop, Left
<1> QED
    BY <1>1, IInvHolds, PTL

\* A node runs only on storage that has had exactly its version's migrations.
THEOREM MigrationSafe == Spec => []MigratedBeforeRun
<1>1. ManagerInv => MigratedBeforeRun
    BY DEF ManagerInv, ChildInv, MigrationInv, StrayInv, MigratedBeforeRun, Launched
<1> QED
    BY <1>1, IInvHolds, PTL

\* The manager ends with status 0 only when all versions have been completed.
THEOREM ExitSafe == Spec => []ZeroMeansDone
<1>1. ManagerInv => ZeroMeansDone
    BY DEF ManagerInv, TypeOK, OrderInv, ExitInv, ZeroMeansDone, Left, Versions
<1> QED
    BY <1>1, IInvHolds, PTL

\* The file never adopts another binary for the version it names.
THEOREM BinarySafe == Spec => BinaryPinned
<1>1. ASSUME ManagerInv, [Next]_vars, ckpt'.index = ckpt.index, ckpt.binary # None
      PROVE  ckpt'.binary = ckpt.binary
  <2>1. CASE WriteCheckpoint
    <3>1. useCheckpoint /\ cur = ckpt.index
        BY <1>1, <2>1 DEF ManagerInv, FileInv, WriteCheckpoint
    <3>2. ckpt.binary \in {None, path[cur]}
        BY <1>1, <2>1, <3>1, NAssumption DEF ManagerInv, FileInv, WriteCheckpoint, TypeOK, Versions
    <3> QED BY <1>1, <2>1, <3>2 DEF WriteCheckpoint
  <2>2. CASE TruncateCheckpoint
    BY <2>2, <1>1 DEF TruncateCheckpoint, ManagerInv, TypeOK, Checkpoints
  <2> QED BY <1>1, <2>1, <2>2, IndexStep DEF ManagerInv
<1> QED
    BY <1>1, IInvHolds, PTL DEF Spec, BinaryPinned

\* A manager that ends on its own account leaves no node of its own behind.
THEOREM NoNodeLeft == Spec => NoNodeLeftBehind
<1>1. ASSUME ManagerInv, [Next]_vars, exit' \notin {None, BySignal}
      PROVE  stray' \in {stray, None}
  <2>1. CASE ManagerStep
    BY <2>1, <1>1 DEF ManagerInv, ChildInv, ManagerStep, LoadCheckpoint, RejectCheckpoint,
       SkipCheckpoint, TruncateCheckpoint, WriteCheckpoint, StartMigration, Launch,
       ForwardSignals, PollHeight, PollFails, StillRunning, NextVersion, AllCompleted,
       VersionFailed, TerminateReaps, TerminateKills, Quit, End, LeftBehind, Monitoring,
       strayVars
  <2>2. CASE Environment
    BY <2>2, <1>1 DEF ManagerInv, ChildInv, Environment, StartManager, StepFails,
       MigrationSucceeds, MigrationFails, NodeStarts, NodeRefuses, ProduceBlock,
       NodeExits, StrayNodeExits, StrayMigrationEnds, ManagerKilled, Die, SignalArrives,
       SignalUnread, EditConfig, Quit, End, LeftBehind, Monitoring, strayVars
  <2>3. CASE UNCHANGED vars
    BY <2>3 DEF vars, strayVars
  <2> QED BY <1>1, <2>1, <2>2, <2>3 DEF Next
<1> QED
    BY <1>1, IInvHolds, PTL DEF Spec, NoNodeLeftBehind

-----------------------------------------------------------------------------
(* The refinement.                                                          *)

\* The nodes seen by the upgrade sequence: at most one version at a time, the
\* one the file names.
LEMMA OneVersionActive ==
    ASSUME ManagerInv, useCheckpoint
    PROVE  /\ ActiveNodes = {} \/ ActiveNodes = {ckpt.index}
           /\ Answering <=> ActiveNodes # {}
           /\ child = "starting" /\ stray = None => ckpt.index = cur
<1>1. child # "none" => ckpt.index = cur
    BY DEF ManagerInv, ChildInv, FileInv, Written, Launched
<1>2. stray # None => ckpt.index = stray
    BY DEF ManagerInv, StrayInv
<1> QED
    BY <1>1, <1>2 DEF ActiveNodes, Answering

\* How a step moves what the upgrade sequence sees of the nodes.
LEMMA ActiveStep ==
    ASSUME ManagerInv, ManagerInv', [Next]_vars, useCheckpoint
    PROVE  \/ ActiveNodes' = ActiveNodes
           \/ ActiveNodes' = {}
           \/ ActiveNodes = {} /\ ActiveNodes' = {ckpt.index} /\ ckpt' = ckpt
<1>1. useCheckpoint'
    BY ConfigStep DEF ManagerInv
<1>2. /\ ActiveNodes = {} \/ ActiveNodes = {ckpt.index}
      /\ ActiveNodes' = {} \/ ActiveNodes' = {ckpt'.index}
    BY <1>1, OneVersionActive DEF ActiveNodes, ManagerInv, ChildInv, FileInv, StrayInv, Written,
       Launched
<1>3. ActiveNodes' # {} => ckpt'.index = ckpt.index /\ (ActiveNodes = {} => ckpt' = ckpt)
  <2>1. CASE TruncateCheckpoint
    <3>1. ActiveNodes' = ActiveNodes
      BY <2>1 DEF TruncateCheckpoint, ActiveNodes, childVars, strayVars
    <3> QED BY <2>1, <3>1 DEF TruncateCheckpoint, ManagerInv, TypeOK, Checkpoints
  <2>2. CASE WriteCheckpoint
    <3>1. ActiveNodes' = ActiveNodes
      BY <2>2 DEF WriteCheckpoint, ActiveNodes, childVars, strayVars
    <3>2. ActiveNodes # {} => stray # None
      BY <2>2 DEF WriteCheckpoint, ActiveNodes, ManagerInv, ChildInv, Monitoring
    <3>3. stray # None => cur = ckpt.index
      BY <2>2 DEF WriteCheckpoint, ManagerInv, FileInv
    <3> QED BY <2>2, <3>1, <3>2, <3>3 DEF WriteCheckpoint
  <2>3. CASE ckpt' = ckpt
    BY <2>3
  <2> QED BY <2>1, <2>2, <2>3, IndexStep DEF ManagerInv
<1> QED
    BY <1>2, <1>3

\* Every step of the manager and its surroundings is a step of the upgrade
\* sequence or leaves it alone.
LEMMA StepRefines == ManagerInv /\ ManagerInv' /\ [Next]_vars => [Promise!Next]_(Promise!vars)
<1> SUFFICES ASSUME ManagerInv, ManagerInv', [Next]_vars PROVE [Promise!Next]_(Promise!vars)
    OBVIOUS
<1>1. useCheckpoint' = useCheckpoint
    BY ConfigStep DEF ManagerInv
<1>2. CASE ~useCheckpoint
    BY <1>1, <1>2 DEF Promise!vars
<1>3. CASE useCheckpoint
  <2> USE <1>1, <1>3
  <2>1. CASE ProduceBlock
    <3>1. height' = height + 1 /\ ckpt' = ckpt /\ ActiveNodes' = ActiveNodes
      BY <2>1 DEF ProduceBlock, ActiveNodes, loopVars, childVars, strayVars
    <3>2. ActiveNodes # {}
      BY <2>1, OneVersionActive DEF ProduceBlock
    <3> QED BY <3>1, <3>2 DEF Promise!Next, Promise!ProduceBlock
  <2>2. CASE WriteCheckpoint /\ cur = ckpt.index + 1
    <3>1. ActiveNodes = {} /\ ActiveNodes' = {}
      BY <2>2 DEF WriteCheckpoint, ActiveNodes, ManagerInv, ChildInv, FileInv, Monitoring,
         childVars, strayVars, TypeOK, Checkpoints, Versions
    <3>2. Stop[ckpt.index] \in Nat /\ MinAcceptable(Stop[ckpt.index]) <= height
      <4>1. ckpt.index \in Versions /\ ckpt.index < cur
        BY <2>2, NAssumption DEF ManagerInv, TypeOK, Checkpoints, Versions
      <4>2. Left(ckpt.index)
        BY <4>1 DEF ManagerInv, OrderInv
      <4> QED BY <4>1, <4>2, StopAssumption DEF Left
    <3>3. Stop[ckpt.index] <= height + Slack
      BY <3>2, ConfigAssumption DEF MinAcceptable, ManagerInv, TypeOK
    <3>4. ckpt.index < N - 1 /\ ckpt'.index = ckpt.index + 1 /\ height' = height
      BY <2>2, NAssumption
         DEF WriteCheckpoint, ManagerInv, TypeOK, Checkpoints, Versions, storeVars
    <3> QED BY <3>1, <3>3, <3>4 DEF Promise!Next, Promise!Upgrade
  <2>3. CASE ~ProduceBlock /\ ~(WriteCheckpoint /\ cur = ckpt.index + 1)
    <3>1. height' = height
      BY <2>3, HeightStep
    <3>2. ckpt'.index = ckpt.index
      BY <2>3, IndexStep
         DEF TruncateCheckpoint, WriteCheckpoint, ManagerInv, FileInv, TypeOK, Checkpoints
    <3>3. \/ ActiveNodes' = ActiveNodes
          \/ ActiveNodes' = {}
          \/ ActiveNodes = {} /\ ActiveNodes' = {ckpt.index}
      BY ActiveStep
    <3> QED BY <3>1, <3>2, <3>3 DEF Promise!Next, Promise!StartNode, Promise!StopNode, Promise!vars
  <2> QED BY <2>1, <2>2, <2>3
<1> QED
    BY <1>2, <1>3 DEF ManagerInv, TypeOK

\* With a checkpoint file, the manager implements the upgrade sequence.
THEOREM Refinement == Spec => ImplementsUpgradeSequence
<1>1. Init => Promise!Init
    BY DEF Init, Promise!Init, ActiveNodes
<1> QED
    BY <1>1, StepRefines, IInvHolds, PTL DEF Spec, Promise!Spec, ImplementsUpgradeSequence

\* A manager that ends on its own account has waited for its node or killed it.
LEMMA QuitRefines ==
    ASSUME ManagerInv, ManagerInv', NEW e, NEW l,
           mgr # "down", End(e, l), e \notin {None, BySignal},
           (l # None) = (stray # None), e = 0 => child \notin Alive
    PROVE  Process!End
<1>1. mgr' = "down" /\ exit' = e /\ child' = "none" /\ stray' = l
    BY DEF End
<1> QED
    BY <1>1, ValueAssumption DEF Process!End, Alive

\* Every step of the manager is one of a ManagerProcess, or none.
LEMMA StepRefinesProcess ==
    ManagerInv /\ ManagerInv' /\ [Next]_vars => [Process!Next]_(Process!vars)
<1> SUFFICES ASSUME ManagerInv, ManagerInv', [Next]_vars PROVE [Process!Next]_(Process!vars)
    OBVIOUS
<1> USE ValueAssumption DEF Process!vars, Process!Next
<1>1. mgr \notin Monitoring => child = "none"
    BY DEF ManagerInv, ChildInv, TypeOK
<1>2. child = "running" => stray = None
    BY DEF ManagerInv, AloneInv
<1>3. CASE StartManager
    BY <1>1, <1>3 DEF StartManager, Process!Start, Monitoring, childVars, strayVars
<1>4. CASE Launch
    BY <1>1, <1>4 DEF Launch, Process!LaunchNode, Monitoring, strayVars, Alive
<1>5. CASE RejectCheckpoint \/ StepFails \/ MigrationFails \/ AllCompleted \/ VersionFailed
           \/ TerminateReaps
  <2>1. mgr # "down" /\ child \notin Alive
    BY <1>1, <1>5 DEF RejectCheckpoint, StepFails, MigrationFails, AllCompleted,
       VersionFailed, TerminateReaps, Monitoring, Alive
  <2>2. \E e \in ExitStatuses \ {BySignal} : Quit(e)
    BY <1>5 DEF RejectCheckpoint, StepFails, MigrationFails, AllCompleted,
       VersionFailed, TerminateReaps, ManagerExit, ExitStatuses, Quit, LeftBehind, ManagerInv, TypeOK
  <2>3. PICK e \in ExitStatuses \ {BySignal} : End(e, LeftBehind)
    BY <2>2 DEF Quit
  <2>4. LeftBehind = stray
    BY <2>1 DEF LeftBehind, Alive
  <2>5. e \notin {None, BySignal}
    BY <2>3 DEF ExitStatuses
  <2> QED BY <2>1, <2>3, <2>4, <2>5, QuitRefines
<1>6. CASE TerminateKills
  <2>1. mgr # "down" /\ End(1, stray)
    BY <1>6 DEF TerminateKills
  <2> QED BY <2>1, QuitRefines
<1>7. CASE ManagerKilled
  <2>1. mgr # "down" /\ mgr' = "down" /\ exit' = BySignal /\ child' = "none"
        /\ \/ stray' = LeftBehind
           \/ child = "starting" /\ stray' = cur
    BY <1>7 DEF ManagerKilled, Die, End
  <2>2. cur # None
    BY NAssumption DEF ManagerInv, TypeOK, Versions
  <2> QED BY <2>1, <2>2 DEF Process!Die, LeftBehind, Alive
<1>8. CASE StrayNodeExits
    BY <1>8 DEF StrayNodeExits, Process!LeftNodeEnds, loopVars, childVars
<1>9. CASE NextVersion
    BY <1>9 DEF NextVersion, strayVars, Alive
<1>10. CASE NodeRefuses \/ NodeExits
    BY <1>10 DEF NodeRefuses, NodeExits, Process!NodeEnds, loopVars, strayVars, Alive
<1>11. CASE NodeStarts
    BY <1>11 DEF NodeStarts, loopVars, strayVars, Alive
<1>12. CASE LoadCheckpoint \/ SkipCheckpoint \/ TruncateCheckpoint \/ WriteCheckpoint
            \/ StartMigration \/ ForwardSignals \/ PollHeight \/ PollFails \/ StillRunning
            \/ MigrationSucceeds
    BY <1>12 DEF LoadCheckpoint, SkipCheckpoint, TruncateCheckpoint, WriteCheckpoint,
       StartMigration, ForwardSignals, PollHeight, PollFails, StillRunning,
       MigrationSucceeds, childVars, strayVars
<1>13. CASE ProduceBlock \/ StrayMigrationEnds \/ SignalArrives \/ SignalUnread
            \/ EditConfig \/ UNCHANGED vars
    BY <1>13 DEF ProduceBlock, StrayMigrationEnds, SignalArrives, SignalUnread, EditConfig,
       vars, loopVars, childVars, strayVars
<1> QED
    BY <1>3, <1>4, <1>5, <1>6, <1>7, <1>8, <1>9, <1>10, <1>11, <1>12, <1>13
       DEF Next, ManagerStep, Environment

\* Whoever starts the manager can rely on a ManagerProcess: it leaves a node
\* behind only when it is killed.
THEOREM ProcessRefinement == Spec => ImplementsManagerProcess
<1>1. Init => Process!Init
    BY ValueAssumption DEF Init, Process!Init, Alive
<1> QED
    BY <1>1, StepRefinesProcess, IInvHolds, PTL
       DEF Spec, Process!Spec, ImplementsManagerProcess

=============================================================================
