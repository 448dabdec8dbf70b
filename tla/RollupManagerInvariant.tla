----------------------- MODULE RollupManagerInvariant -----------------------
(***************************************************************************)
(* The inductive invariant of RollupManager: what its safety properties    *)
(* rest on, stated for every point of the manager's thread.                *)
(***************************************************************************)
EXTENDS RollupManager

\* The thread is in run_version_with_monitoring exactly while it has a node.
Launched == {"launch"} \cup Monitoring
Written  == {"migrate", "migrating"} \cup Launched

ChildInv == (child # "none") <=> (mgr \in Monitoring)

\* A running node is alone.  A node that exited with 0 had been running.
AloneInv ==
    (child = "running" \/ (child = "exited" /\ code = 0)) => stray = None

\* What has been polled is never above the storage: heights do not go back.
PolledInv == lastKnown # None => lastKnown <= height

\* Version v has been left with the chain within the slack of its stop height.
Left(v) == Stop[v] # None /\ MinAcceptable(Stop[v]) <= height

OrderInv ==
    /\ mgr \notin {"down", "load"} => cur < count
    /\ \A v \in Versions : v < cur => Left(v)
    /\ \A v \in Versions : v < ckpt.index => Left(v)

\* Only a manager that has ended has an exit status; 0 means all was done.
ExitInv ==
    /\ mgr # "down" => exit = None
    /\ exit = 0 => Left(cur) /\ (cur = count - 1 \/ edits > 0)

\* The file, before and after the manager has written it for version cur.
\* Before, it names cur (on a restart) or its predecessor (on an upgrade).
FileInv ==
    /\ mgr = "writing" => useCheckpoint
    /\ ~useCheckpoint => ckpt.index = 0 /\ ckpt.binary = None
    /\ ckpt.status = "absent" =>
          /\ ckpt.index = 0
          /\ ckpt.binary = None
    /\ (useCheckpoint /\ ckpt.status = "absent") =>
          /\ mgr \in {"down", "load", "checkpoint"}
          /\ stray = None /\ strayMigs = {} /\ migrated = {}
    /\ (useCheckpoint /\ mgr \in Written) =>
          ckpt = [status |-> "intact", index |-> cur, binary |-> path[cur]]
    /\ (useCheckpoint /\ mgr \in {"checkpoint", "writing"}) =>
          \/ /\ cur = ckpt.index
             /\ ckpt.binary \in {None, path[cur]}
          \/ /\ cur = ckpt.index + 1
             /\ stray = None
             /\ migrated = Required(ckpt.index)

\* The migrations applied are those of the versions before the file's, perhaps
\* that version's own, and from the launch on exactly the ones it requires.
MigrationInv ==
    useCheckpoint =>
        /\ migrated \subseteq Required(ckpt.index)
        /\ \A m \in Migrating : m < ckpt.index => m \in migrated
        /\ strayMigs \subseteq Required(ckpt.index)
        /\ mgr \in Launched => migrated = Required(cur)
        /\ mgr = "migrating" => cur \in Migrating

\* A node left behind is of the version the file names.
StrayInv ==
    (useCheckpoint /\ stray # None) =>
        /\ ckpt.index = stray
        /\ migrated = Required(stray)

ManagerInv ==
    /\ TypeOK
    /\ ChildInv
    /\ AloneInv
    /\ PolledInv
    /\ OrderInv
    /\ ExitInv
    /\ FileInv
    /\ MigrationInv
    /\ StrayInv

=============================================================================
