--------------------------- MODULE TestCaseProofs ---------------------------
(***************************************************************************)
(* Proofs about TestCase, for all directories, layouts and heights: the    *)
(* inductive invariant and the properties the runs check.                  *)
(***************************************************************************)
EXTENDS TestCase, ManagerConfigProofs

-----------------------------------------------------------------------------
(* load_test_case                                                           *)

\* Counting stops at the first gap, or when there are no more replicas.
LEMMA CountReplicasType ==
    ASSUME NEW vd PROVE CountReplicas(vd) \in 0 .. MaxReplicas
<1> DEFINE gaps == {k \in 0 .. MaxReplicas - 1 : vd.replica[k + 1] = None}
<1> USE TestCaseAssumption
<1>1. CASE gaps = {}
  <2>1. \A i \in 1 .. MaxReplicas : vd.replica[i] # None
    <3> SUFFICES ASSUME NEW i \in 1 .. MaxReplicas PROVE vd.replica[i] # None
      OBVIOUS
    <3>1. i - 1 \in 0 .. MaxReplicas - 1 /\ (i - 1) + 1 = i
      OBVIOUS
    <3> QED
      BY <1>1, <3>1
  <2> QED
    BY <2>1 DEF CountReplicas
<1>2. CASE gaps # {}
  <2> DEFINE first == Min(gaps)
  <2>1. first \in gaps /\ \A k \in gaps : first <= k
    BY <1>2, MinIsMember, gaps \in SUBSET Nat
  <2>2. \A i \in 1 .. first : vd.replica[i] # None
    <3> SUFFICES ASSUME NEW i \in 1 .. first, vd.replica[i] = None PROVE FALSE
      OBVIOUS
    <3>1. i - 1 \in 0 .. MaxReplicas - 1 /\ (i - 1) + 1 = i /\ i - 1 < first
      BY <2>1
    <3> QED
      BY <2>1, <3>1
  <2>3. first \in 0 .. MaxReplicas /\ vd.replica[first + 1] = None
    BY <2>1
  <2> HIDE DEF first, gaps
  <2>4. \E k \in 0 .. MaxReplicas :
           /\ \A i \in 1 .. k : vd.replica[i] # None
           /\ k < MaxReplicas => vd.replica[k + 1] = None
    BY <2>2, <2>3
  <2> QED
    BY <2>4 DEF CountReplicas
<1> QED
  BY <1>1, <1>2

\* What the checks of load_test_case are good for: every node has a config file for
\* every version, with the port and the storage path that are compared with those
\* of the other nodes.
LEMMA LoadedFacts ==
    ASSUME dir \in CaseDir, Loadable(dir), case = LoadedFrom(dir)
    PROVE  /\ Nodes = NodesIn(dir)
           /\ case.versions \in Seq(VersionSpec)
           /\ Len(case.versions) \in Nat \ {0}
           /\ case.extra \in Heights
           /\ \A n \in Nodes : \A i \in 1 .. Len(case.versions) :
                 /\ case.nodes[n].files[i] = FileOf(dir, n, i - 1)
                 /\ case.nodes[n].files[i] \in ConfigFile
                 /\ case.nodes[n].files[i].port = case.nodes[n].port
                 /\ case.nodes[n].files[i].storage = case.nodes[n].storage
           /\ \A m, n \in Nodes : m # n =>
                 /\ case.nodes[m].port # case.nodes[n].port
                 /\ case.nodes[m].storage # case.nodes[n].storage
<1> DEFINE vs == dir.toml.versions
<1>1. /\ dir.toml \in TestCaseFile
      /\ vs \in Seq(VersionSpec) /\ Len(vs) \in Nat \ {0} /\ Len(vs) <= MaxVersions
      /\ dir.toml.extra \in Heights
  BY DEF CaseDir, Loadable, TestCaseFile
<1>2. Nodes = NodesIn(dir) /\ case.versions = vs /\ case.extra = dir.toml.extra
      /\ case.nodes = DetectedNodes(dir)
  BY DEF Nodes, LoadedFrom, DetectedNodes
<1>3. ASSUME NEW n \in NodesIn(dir), NEW i \in 1 .. Len(vs)
      PROVE  /\ FilesOf(dir, n)[i] = FileOf(dir, n, i - 1)
             /\ FilesOf(dir, n)[i] \in ConfigFile
  <2>1. FilesOf(dir, n)[i] = FileOf(dir, n, i - 1)
    BY DEF FilesOf
  <2>2. i - 1 \in VersionDirs
    BY <1>1, WidthAssumption DEF VersionDirs
  <2>3. dir.v[i - 1] \in VersionDir
    BY <2>2 DEF CaseDir
  <2>4. n \in 0 .. MaxReplicas
    BY CountReplicasType, TestCaseAssumption DEF NodesIn
  <2>5. FileOf(dir, n, i - 1) \in Entry
    <3>1. CASE n > 0
      BY <2>3, <2>4, <3>1, n \in 1 .. MaxReplicas DEF FileOf, VersionDir
    <3>2. CASE ~(n > 0)
      BY <2>3, <3>2 DEF FileOf, VersionDir
    <3> QED
      BY <3>1, <3>2
  <2>6. FilesOf(dir, n)[i] # None
    BY DEF Loadable, LayoutComplete
  <2>7. FilesOf(dir, n)[i] # Bad
    BY i \in DOMAIN FilesOf(dir, n) DEF Loadable, FilesOf
  <2> QED
    BY <2>1, <2>5, <2>6, <2>7 DEF Entry
<1>4. ASSUME NEW n \in NodesIn(dir)
      PROVE  /\ case.nodes[n].files = FilesOf(dir, n)
             /\ \A i \in 1 .. Len(vs) :
                   /\ FilesOf(dir, n)[i].port = case.nodes[n].port
                   /\ FilesOf(dir, n)[i].storage = case.nodes[n].storage
  <2>1. case.nodes[n] = NodeInfo(FilesOf(dir, n))
    BY <1>2 DEF DetectedNodes
  <2>2. SameInAllVersions(FilesOf(dir, n)) /\ DOMAIN FilesOf(dir, n) = 1 .. Len(vs)
    BY DEF Loadable, FilesOf
  <2> QED
    BY <2>1, <2>2 DEF NodeInfo, SameInAllVersions
<1>5. ConflictFree(case.nodes) /\ DOMAIN case.nodes = Nodes
  BY <1>2 DEF Loadable, Nodes
<1> QED
  BY <1>1, <1>2, <1>3, <1>4, <1>5 DEF ConflictFree

\* A sum that wraps is a height.
LEMMA ExtendedType ==
    ASSUME NEW stop \in Heights, case.extra \in Heights
    PROVE  Extended(stop) \in Nat
<1>1. 2^W \in Int
  BY WidthAssumption
<1> QED
  BY <1>1 DEF Heights, Extended

-----------------------------------------------------------------------------
(* The steps.                                                               *)

IInv == dir \in CaseDir /\ SimInv

\* What is computed from the test case stays the same as long as it does.
LEMMA SetUpStays ==
    ASSUME UNCHANGED <<dir, case>>
    PROVE  /\ Nodes' = Nodes /\ HomesUsed' = HomesUsed /\ ConfigsWritten' = ConfigsWritten
           /\ \A home : Ambiguous(home)' = Ambiguous(home)
           /\ \A n : ClearedAway(n)' = ClearedAway(n)
           /\ \A n : VersionsForNode(n)' = VersionsForNode(n)
           /\ \A stop : Extended(stop)' = Extended(stop)
           /\ LoadedFrom(dir)' = LoadedFrom(dir) /\ Loadable(dir)' = Loadable(dir)
<1>1. Nodes' = Nodes
  BY DEF Nodes
<1>2. \A home : Ambiguous(home)' = Ambiguous(home)
  BY DEF Ambiguous
<1>3. \A home : Migration(home)' = Migration(home)
  BY DEF Migration
<1>4. \A stop : Extended(stop)' = Extended(stop)
  BY DEF Extended
<1>5. HomesUsed' = HomesUsed /\ ConfigsWritten' = ConfigsWritten
  BY <1>1 DEF HomesUsed, ConfigsWritten
<1>6. \A n : VersionsForNode(n)' = VersionsForNode(n)
  BY <1>3 DEF VersionsForNode
<1>7. \A n : ClearedAway(n)' = ClearedAway(n)
  BY <1>1 DEF ClearedAway
<1> QED
  BY <1>1, <1>2, <1>4, <1>5, <1>6, <1>7

\* A step that leaves the test case alone keeps what is known of it, if it does not
\* start from or return to the set-up.
LEMMA LoadedStays ==
    ASSUME LoadedInv, UNCHANGED <<dir, case>>, at' \in Loaded => at \in Loaded
    PROVE  LoadedInv'
BY SetUpStays DEF LoadedInv

LEMMA FailInv == ASSUME IInv, Fail PROVE IInv'
<1> USE DEF IInv, SimInv, Fail
<1>1. at' = "failed" /\ at' \notin Loaded
  BY DEF Loaded
<1>2. LoadedInv'
  BY <1>1, LoadedStays
<1>3. VersionsInv' /\ SoakInv' /\ FilesInv'
  BY <1>1 DEF VersionsInv, SoakInv, FilesInv, Loaded
<1> QED
  BY <1>2, <1>3

LEMMA LoadInv == ASSUME IInv, LoadTestCase PROVE IInv'
<1> USE DEF IInv, SimInv, LoadTestCase
<1>1. LoadedInv'
  BY DEF LoadedInv
<1>2. VersionsInv' /\ SoakInv' /\ FilesInv'
  BY DEF VersionsInv, SoakInv, FilesInv, Loaded
<1> QED
  BY <1>1, <1>2

LEMMA BuildVersionsInv == ASSUME IInv, BuildNodeVersions PROVE IInv'
<1> USE DEF IInv, SimInv, BuildNodeVersions
<1>1. LoadedInv'
  BY LoadedStays DEF Loaded
<1>2. VersionsInv'
  BY SetUpStays DEF VersionsInv
<1>3. SoakInv' /\ FilesInv'
  BY DEF SoakInv, FilesInv, Loaded
<1> QED
  BY <1>1, <1>2, <1>3

LEMMA InterpolateInv == ASSUME IInv, InterpolateConfigs PROVE IInv'
<1> USE DEF IInv, SimInv, InterpolateConfigs
<1>1. LoadedInv'
  BY LoadedStays DEF Loaded
<1>2. VersionsInv'
  BY SetUpStays DEF VersionsInv, Loaded
<1>3. SoakInv'
  BY DEF SoakInv
<1>4. DOMAIN ConfigsWritten = Nodes
  BY DEF ConfigsWritten
<1>5. FilesInv'
  BY <1>4, SetUpStays DEF FilesInv, Loaded
<1> QED
  BY <1>1, <1>2, <1>3, <1>5

LEMMA BuildSoakInv == ASSUME IInv, BuildSoakConfig PROVE IInv'
<1> USE DEF IInv, SimInv, BuildSoakConfig
<1>1. LoadedInv'
  BY LoadedStays DEF Loaded
<1>2. VersionsInv'
  BY SetUpStays DEF VersionsInv, Loaded
<1>3. SoakInv'
  BY DEF SoakInv
<1>4. FilesInv'
  BY SetUpStays DEF FilesInv, Loaded
<1> QED
  BY <1>1, <1>2, <1>3, <1>4

\* Clearing leaves no data, and config files where it does not take them along.
LEMMA ClearStorageFacts ==
    ASSUME FilesInv, at \in {"clear", "reset"}, ClearStorage, UNCHANGED <<dir, case>>
    PROVE  /\ dirty' = {}
           /\ DOMAIN written' = Nodes
           /\ \A n \in Nodes :
                 written'[n] = IF ClearedAway(n) THEN <<>> ELSE ConfigsWritten[n]
<1> DEFINE cleared == {case.nodes[n].storage : n \in Nodes}
<1>1. dirty' = dirty \ cleared
      /\ written' = [n \in Nodes |-> IF NodeName[n] \in cleared THEN <<>> ELSE written[n]]
  BY DEF ClearStorage
<1>2. dirty \subseteq cleared
  BY DEF FilesInv, Loaded
<1>3. \A n \in Nodes :
         written[n] = IF at = "clear" \/ ~ClearedAway(n) THEN ConfigsWritten[n] ELSE <<>>
  BY DEF FilesInv
<1>4. \A n \in Nodes : NodeName[n] \in cleared <=> ClearedAway(n)
  BY DEF ClearedAway
<1>5. DOMAIN written' = Nodes
  BY <1>1
<1>6. ASSUME NEW n \in Nodes
      PROVE  written'[n] = IF ClearedAway(n) THEN <<>> ELSE ConfigsWritten[n]
  <2> HIDE DEF cleared
  <2> QED
    BY <1>1, <1>3, <1>4
<1> QED
  BY <1>1, <1>2, <1>5, <1>6

LEMMA ClearInv == ASSUME IInv, ClearForInitialRun PROVE IInv'
<1> USE DEF IInv, SimInv, ClearForInitialRun
<1>1. LoadedInv'
  BY LoadedStays DEF Loaded
<1>2. VersionsInv'
  BY SetUpStays DEF VersionsInv, Loaded
<1>3. SoakInv'
  BY DEF SoakInv
<1>4. FilesInv'
  BY ClearStorageFacts, SetUpStays DEF FilesInv, Loaded
<1> QED
  BY <1>1, <1>2, <1>3, <1>4

LEMMA PhaseSucceedsInv == ASSUME IInv, PhaseSucceeds PROVE IInv'
<1> USE DEF IInv, SimInv, PhaseSucceeds
<1>1. LoadedInv'
  BY LoadedStays DEF Loaded, Running
<1>2. VersionsInv'
  <2>1. CASE at = "resync"
    BY <2>1 DEF VersionsInv, Loaded
  <2>2. CASE at = "initial"
    <3>1. versions = [n \in Nodes |-> VersionsForNode(n)]
      BY <2>2 DEF VersionsInv
    <3>2. \A n \in Nodes : Validate(VersionsForNode(n), "release") = Ok
      BY <3>1 DEF ManagerAccepts
    <3>3. \A home \in HomesUsed : ~Ambiguous(home)
      BY <2>2 DEF VersionsInv, Loaded
    <3> QED
      BY <2>2, <3>1, <3>2, <3>3, SetUpStays DEF VersionsInv
  <2> QED
    BY <2>1, <2>2 DEF Running
<1>3. SoakInv'
  BY DEF SoakInv, Running
<1>4. FilesInv'
  <2>1. CASE at = "resync"
    BY <2>1 DEF FilesInv, Loaded
  <2>2. CASE at = "initial"
    <3>1. Loadable(dir) /\ case = LoadedFrom(dir)
      BY <2>2 DEF LoadedInv, Loaded
    <3>2. dirty = {}
      BY <2>2 DEF FilesInv, Loaded
    <3>3. ASSUME NEW n \in Nodes, NEW i \in 1 .. Len(case.versions)
          PROVE  written[n][i].storage = case.nodes[n].storage
      <4>1. written[n] = ConfigsWritten[n]
        BY <2>2 DEF FilesInv
      <4>2. written[n][i] = Interpolated(case.nodes[n].files[i])
        BY <4>1, <3>1, LoadedFacts DEF ConfigsWritten
      <4>3. case.nodes[n].files[i] \in ConfigFile
            /\ case.nodes[n].files[i].storage = case.nodes[n].storage
        BY <3>1, LoadedFacts
      <4> QED
        BY <4>2, <4>3 DEF Interpolated, ConfigFile
    <3>4. DOMAIN case.versions = 1 .. Len(case.versions)
      BY <3>1, LoadedFacts
    <3>5. dirty' \subseteq {case.nodes[n].storage : n \in Nodes}
      BY <3>2, <3>3, <3>4
    <3> QED
      BY <2>2, <3>5, SetUpStays DEF FilesInv, Loaded
  <2> QED
    BY <2>1, <2>2 DEF Running
<1> QED
  BY <1>1, <1>2, <1>3, <1>4

\* The configs of the resync differ from those of the initial run in the last stop
\* height alone.
LEMMA ResyncFacts ==
    ASSUME IInv, at = "reset", StartResync
    PROVE  /\ versions' = [n \in Nodes |->
                  [VersionsForNode(n) EXCEPT ![Len(case.versions)].stop = Extended(@)]]
           /\ soak' \in {None, <<Extended(Last(case.versions).stop)>>}
<1> USE DEF IInv, SimInv
<1>1. Loadable(dir) /\ case = LoadedFrom(dir)
  BY DEF LoadedInv, Loaded
<1>2. DOMAIN case.versions = 1 .. Len(case.versions) /\ Len(case.versions) \in Nat \ {0}
  BY <1>1, LoadedFacts
<1>3. \A n \in Nodes : Len(VersionsForNode(n)) = Len(case.versions)
  BY <1>2 DEF VersionsForNode
<1>4. versions = [n \in Nodes |-> VersionsForNode(n)]
  BY DEF VersionsInv
<1>5. versions' = [n \in Nodes |->
                  [VersionsForNode(n) EXCEPT ![Len(case.versions)].stop = Extended(@)]]
  BY <1>3, <1>4 DEF StartResync, ResyncVersions
<1>6. soak' \in {None, <<Extended(Last(case.versions).stop)>>}
  <2>1. soak' = IF soak = None \/ case.extra = 0 THEN None ELSE <<Extended(Last(soak))>>
    BY DEF StartResync, ResyncSoak
  <2>2. soak \in {None, [i \in DOMAIN case.versions |-> case.versions[i].stop]}
    BY DEF SoakInv
  <2>3. ASSUME soak # None PROVE Last(soak) = Last(case.versions).stop
    <3>1. soak = [i \in 1 .. Len(case.versions) |-> case.versions[i].stop]
      BY <1>2, <2>2, <2>3
    <3>2. Len(soak) = Len(case.versions) /\ Len(soak) \in 1 .. Len(case.versions)
      BY <1>2, <3>1
    <3> QED
      BY <3>1, <3>2 DEF Last
  <2> QED
    BY <2>1, <2>3
<1> QED
  BY <1>5, <1>6

LEMMA ResyncInv == ASSUME IInv, StartResync PROVE IInv'
<1> USE DEF IInv, SimInv
<1>1. at = "reset" /\ at' = "resync" /\ UNCHANGED <<dir, build, case>> /\ ClearStorage
  BY DEF StartResync
<1>2. LoadedInv'
  BY <1>1, LoadedStays DEF Loaded
<1>3. VersionsInv'
  <2>1. \A home \in HomesUsed : ~Ambiguous(home)
    BY <1>1 DEF VersionsInv, Loaded
  <2>2. \A n \in Nodes : Validate(VersionsForNode(n), "release") = Ok
    BY <1>1 DEF VersionsInv
  <2> QED
    BY <1>1, <2>1, <2>2, ResyncFacts, SetUpStays DEF VersionsInv
<1>4. SoakInv'
  <2>1. soak' \in {None, <<Extended(Last(case.versions).stop)>>}
    BY <1>1, ResyncFacts
  <2> QED
    BY <1>1, <2>1, SetUpStays DEF SoakInv
<1>5. FilesInv'
  BY <1>1, ClearStorageFacts, SetUpStays DEF FilesInv, Loaded
<1> QED
  BY <1>1, <1>2, <1>3, <1>4, <1>5

\* However the test case's directory is laid out, what the phases find was made from
\* it: from the files that passed the checks, node by node and version by version.
THEOREM SimInvHolds == SimSpec => []SimInv
<1>1. SimInit => IInv
  <2> SUFFICES ASSUME SimInit PROVE IInv
    OBVIOUS
  <2>1. dir \in CaseDir /\ at = "load" /\ case = None /\ dirty = {}
    BY DEF SimInit
  <2> QED
    BY <2>1 DEF IInv, SimInv, LoadedInv, VersionsInv, SoakInv, FilesInv, Loaded
<1>2. IInv /\ [SimNext]_simVars => IInv'
  <2> SUFFICES ASSUME IInv, [SimNext]_simVars PROVE IInv'
    OBVIOUS
  <2>1. CASE LoadTestCase
    BY <2>1, LoadInv
  <2>2. CASE LoadFails
    BY <2>2, FailInv DEF LoadFails
  <2>3. CASE BuildNodeVersions
    BY <2>3, BuildVersionsInv
  <2>4. CASE SetupFails
    BY <2>4, FailInv DEF SetupFails
  <2>5. CASE InterpolateConfigs
    BY <2>5, InterpolateInv
  <2>6. CASE BuildSoakConfig
    BY <2>6, BuildSoakInv
  <2>7. CASE ClearForInitialRun
    BY <2>7, ClearInv
  <2>8. CASE PhaseSucceeds
    BY <2>8, PhaseSucceedsInv
  <2>9. CASE PhaseFails
    BY <2>9, FailInv DEF PhaseFails
  <2>10. CASE StartResync
    BY <2>10, ResyncInv
  <2>11. CASE ResetFails
    BY <2>11, FailInv DEF ResetFails
  <2>12. CASE UNCHANGED simVars
    <3>1. UNCHANGED <<dir, at, build, case, versions, soak, written, dirty>>
      BY <2>12 DEF simVars
    <3>2. LoadedInv'
      BY <3>1, LoadedStays DEF IInv, SimInv
    <3>3. VersionsInv'
      BY <3>1, SetUpStays DEF IInv, SimInv, VersionsInv
    <3>4. SoakInv' /\ FilesInv'
      BY <3>1, SetUpStays DEF IInv, SimInv, SoakInv, FilesInv
    <3> QED
      BY <3>1, <3>2, <3>3, <3>4 DEF IInv, SimInv
  <2> QED
    BY <2>1, <2>2, <2>3, <2>4, <2>5, <2>6, <2>7, <2>8, <2>9, <2>10, <2>11, <2>12
    DEF SimNext
<1>3. IInv => SimInv
  BY DEF IInv
<1> QED
  BY <1>1, <1>2, <1>3, PTL DEF SimSpec

\* IInv is an invariant: the directory does not change.
LEMMA IInvHolds == SimSpec => []IInv
<1>1. SimInit => dir \in CaseDir
  BY DEF SimInit
<1>2. dir \in CaseDir /\ [SimNext]_simVars => (dir \in CaseDir)'
  <2>1. [SimNext]_simVars => dir' = dir
    BY DEF SimNext, LoadTestCase, LoadFails, BuildNodeVersions, SetupFails,
           InterpolateConfigs, BuildSoakConfig, ClearForInitialRun, PhaseSucceeds,
           PhaseFails, StartResync, ResetFails, Fail, simVars
  <2> QED
    BY <2>1
<1>3. (dir \in CaseDir) /\ SimInv => IInv
  BY DEF IInv
<1> QED
  BY <1>1, <1>2, <1>3, SimInvHolds, PTL DEF SimSpec

-----------------------------------------------------------------------------
(* The properties.                                                          *)

\* A phase starts on fresh storage, although one path per node is cleared: every
\* version's config has been checked to have that path.
THEOREM StorageFresh == SimSpec => []PhasesStartFresh
<1>1. IInv => PhasesStartFresh
  BY DEF IInv, SimInv, FilesInv, PhasesStartFresh, Running, Loaded
<1> QED
  BY <1>1, IInvHolds, PTL

\* Two nodes never share a port or a storage path, although only the first versions'
\* are compared.
THEOREM NodesApart == SimSpec => []NodesKeepApart
<1>1. IInv => NodesKeepApart
  <2> SUFFICES ASSUME IInv, case # None PROVE NodesKeepApart
    BY DEF NodesKeepApart
  <2>1. dir \in CaseDir /\ Loadable(dir) /\ case = LoadedFrom(dir)
    BY DEF IInv, SimInv, LoadedInv
  <2>2. DOMAIN case.versions = 1 .. Len(case.versions)
    BY <2>1, LoadedFacts
  <2> QED
    BY <2>1, <2>2, LoadedFacts DEF NodesKeepApart
<1> QED
  BY <1>1, IInvHolds, PTL

\* In both phases a manager finds its own node's config files or, where they have
\* been cleared with some node's storage, none.
THEOREM ConfigsFound == SimSpec => []ConfigsInPlace
<1>1. IInv => ConfigsInPlace
  <2> SUFFICES ASSUME IInv, Running, NEW n \in Nodes
               PROVE  written[n] = IF ClearedAway(n) THEN <<>>
                                   ELSE [i \in DOMAIN case.versions |->
                                            Interpolated(FileOf(dir, n, i - 1))]
    BY DEF ConfigsInPlace
  <2>1. dir \in CaseDir /\ Loadable(dir) /\ case = LoadedFrom(dir)
    BY DEF IInv, SimInv, LoadedInv, Running, Loaded
  <2>2. DOMAIN case.versions = 1 .. Len(case.versions)
    BY <2>1, LoadedFacts
  <2>3. written[n] = IF ClearedAway(n) THEN <<>> ELSE ConfigsWritten[n]
    BY DEF IInv, SimInv, FilesInv, Running
  <2>4. ConfigsWritten[n] = [i \in DOMAIN case.versions |->
                                Interpolated(case.nodes[n].files[i])]
    BY DEF ConfigsWritten
  <2>5. \A i \in DOMAIN case.versions : case.nodes[n].files[i] = FileOf(dir, n, i - 1)
    BY <2>1, <2>2, LoadedFacts
  <2> QED
    BY <2>3, <2>4, <2>5
<1> QED
  BY <1>1, IInvHolds, PTL

\* What a manager's config says of a version in a phase.
LEMMA VersionInPhase ==
    ASSUME IInv, Running, NEW n \in Nodes, NEW i \in DOMAIN case.versions
    PROVE  /\ DOMAIN case.versions = 1 .. Len(case.versions)
           /\ Len(case.versions) \in Nat \ {0}
           /\ DOMAIN versions[n] = DOMAIN case.versions
           /\ Len(versions[n]) = Len(case.versions)
           /\ versions[n][i].start = case.versions[i].start
           /\ versions[n][i].migration = Migration(case.nodes[n].files[i].home)
           /\ versions[n][i].stop =
                 IF at = "resync" /\ i = Len(case.versions)
                 THEN Extended(case.versions[i].stop)
                 ELSE case.versions[i].stop
<1>1. dir \in CaseDir /\ Loadable(dir) /\ case = LoadedFrom(dir)
  BY DEF IInv, SimInv, LoadedInv, Running, Loaded
<1>2. DOMAIN case.versions = 1 .. Len(case.versions) /\ Len(case.versions) \in Nat \ {0}
  BY <1>1, LoadedFacts
<1>3. /\ VersionsForNode(n) =
            [j \in 1 .. Len(case.versions) |->
                [start     |-> case.versions[j].start,
                 stop      |-> case.versions[j].stop,
                 migration |-> Migration(case.nodes[n].files[j].home)]]
      /\ Len(VersionsForNode(n)) = Len(case.versions)
  BY <1>2 DEF VersionsForNode
<1>4. CASE at = "initial"
  <2>1. versions[n] = VersionsForNode(n)
    BY <1>4 DEF IInv, SimInv, VersionsInv
  <2> QED
    BY <1>2, <1>3, <1>4, <2>1
<1>5. CASE at = "resync"
  <2>1. versions[n] = [VersionsForNode(n) EXCEPT ![Len(case.versions)].stop = Extended(@)]
    BY <1>5 DEF IInv, SimInv, VersionsInv
  <2>2. PICK c : c = VersionsForNode(n)
    OBVIOUS
  <2>3. PICK e : e = Extended(c[Len(case.versions)].stop)
    OBVIOUS
  <2>4. versions[n] = [c EXCEPT ![Len(case.versions)].stop = e]
    BY <2>1, <2>2, <2>3
  <2>5. DOMAIN c = 1 .. Len(case.versions)
    BY <1>3, <2>2
  <2>6. DOMAIN versions[n] = 1 .. Len(case.versions) /\ Len(versions[n]) = Len(case.versions)
    BY <1>2, <2>4, <2>5
  <2>7. ASSUME i # Len(case.versions) PROVE versions[n][i] = c[i]
    BY <1>2, <2>4, <2>5, <2>7
  <2>8. ASSUME i = Len(case.versions) PROVE versions[n][i] = [c[i] EXCEPT !.stop = e]
    BY <1>2, <2>4, <2>5, <2>8
  <2>9. c[i] = [start     |-> case.versions[i].start,
                stop      |-> case.versions[i].stop,
                migration |-> Migration(case.nodes[n].files[i].home)]
    BY <1>2, <1>3, <2>2
  <2>10. i = Len(case.versions) => e = Extended(case.versions[i].stop)
    BY <2>3, <2>9
  <2> QED
    BY <1>2, <1>5, <2>6, <2>7, <2>8, <2>9, <2>10
<1> QED
  BY <1>4, <1>5 DEF Running

\* The migration run with a version is the one of the directory in which the
\* node's config file for it really is.
THEOREM MigrationsMatch == SimSpec => []MigratesWithItsVersion
<1>1. IInv => MigratesWithItsVersion
  <2> SUFFICES ASSUME IInv, Running, NEW n \in Nodes, NEW i \in DOMAIN case.versions
               PROVE  LET home == FileOf(dir, n, i - 1).home
                          migration == versions[n][i].migration
                      IN  IF migration = None THEN dir.scripts[home] = {}
                          ELSE /\ migration.home = home
                               /\ dir.scripts[home] = {migration.name}
    BY DEF MigratesWithItsVersion
  <2>1. dir \in CaseDir /\ Loadable(dir) /\ case = LoadedFrom(dir)
    BY DEF IInv, SimInv, LoadedInv, Running, Loaded
  <2>2. PICK home : home = FileOf(dir, n, i - 1).home
    OBVIOUS
  <2>3. case.nodes[n].files[i].home = home /\ home \in Homes
    BY <2>1, <2>2, VersionInPhase, LoadedFacts DEF ConfigFile
  <2>4. versions[n][i].migration = Migration(home)
    BY <2>3, VersionInPhase
  <2>5. dir.scripts[home] \subseteq Scripts
    BY <2>1, <2>3 DEF CaseDir
  <2>6. dir.scripts[home] # Scripts
    <3>1. home \in HomesUsed
      BY <2>3 DEF HomesUsed
    <3> QED
      BY <3>1 DEF IInv, SimInv, VersionsInv, Ambiguous, Running, Loaded
  <2>7. CASE dir.scripts[home] = {}
    BY <2>2, <2>4, <2>7 DEF Migration
  <2>8. CASE dir.scripts[home] # {}
    <3>1. PICK s \in Scripts : dir.scripts[home] = {s}
      BY <2>5, <2>6, <2>8 DEF Scripts
    <3>2. versions[n][i].migration = [home |-> home, name |-> s]
      BY <2>4, <3>1 DEF Migration
    <3>3. versions[n][i].migration # None
      BY <2>3, <3>2, TestCaseAssumption
    <3> QED
      BY <2>2, <3>1, <3>2, <3>3
  <2> QED
    BY <2>7, <2>8
<1> QED
  BY <1>1, IInvHolds, PTL

\* The resync's configs are accepted: all that was changed is the last stop height,
\* and a wrapped one is accepted too.
THEOREM ResyncAccepted == SimSpec => []ResyncIsAccepted
<1>1. IInv => ResyncIsAccepted
  <2> SUFFICES ASSUME IInv, at = "resync", NEW n \in Nodes PROVE ManagerAccepts(n)
    BY DEF ResyncIsAccepted
  <2> DEFINE last == Len(case.versions)
             c == VersionsForNode(n)
  <2>1. dir \in CaseDir /\ Loadable(dir) /\ case = LoadedFrom(dir)
    BY DEF IInv, SimInv, LoadedInv, Loaded
  <2>2. /\ last \in Nat \ {0} /\ DOMAIN case.versions = 1 .. last
        /\ \A i \in 1 .. last : case.versions[i] \in VersionSpec
        /\ case.extra \in Heights
    BY <2>1, LoadedFacts
  <2>3. versions[n] = [c EXCEPT ![last].stop = Extended(@)]
    BY DEF IInv, SimInv, VersionsInv
  <2>4. Validate(c, "release") = Ok
    BY DEF IInv, SimInv, VersionsInv
  <2>5. SameButLastStop(c, versions[n])
    <3>1. DOMAIN c = 1 .. last /\ Len(c) = last
      BY <2>2 DEF VersionsForNode
    <3>2. DOMAIN versions[n] = 1 .. last /\ Len(versions[n]) = last
      BY <2>2, <2>3, <3>1
    <3>3. \A i \in 1 .. last : /\ c[i].start = case.versions[i].start
                               /\ c[i].stop = case.versions[i].stop
      BY <2>2 DEF VersionsForNode
    <3>4. \A i \in 1 .. last : /\ versions[n][i].start = case.versions[i].start
                               /\ i # last => versions[n][i].stop = case.versions[i].stop
      BY <2>2, VersionInPhase DEF Running
    <3>5. versions[n][last].stop = Extended(case.versions[last].stop)
      BY <2>2, last \in 1 .. last, VersionInPhase DEF Running
    <3>6. case.versions[last].stop \in Heights
      BY <2>2 DEF VersionSpec
    <3>7. versions[n][last].stop \in Nat /\ c[last].stop \in Nat
      BY <2>2, <3>3, <3>5, <3>6, ExtendedType DEF Heights
    <3> QED
      BY <2>2, <3>1, <3>2, <3>3, <3>4, <3>7, NoneAssumption DEF SameButLastStop
  <2>6. Len(c) \in Nat
    BY <2>2 DEF VersionsForNode
  <2> HIDE DEF c
  <2>7. Validate(versions[n], "release") = Ok
    BY <2>4, <2>5, <2>6, LastStopUnchecked
  <2> QED
    BY <2>7 DEF ManagerAccepts
<1> QED
  BY <1>1, IInvHolds, PTL

\* The soak manager is told the heights at which the nodes are stopped.
THEOREM SoakFollows == SimSpec => []SoakStopsWithNodes
<1>1. IInv => SoakStopsWithNodes
  <2> SUFFICES ASSUME IInv, Running, soak # None, NEW n \in Nodes
               PROVE  LET stops == [i \in DOMAIN versions[n] |-> versions[n][i].stop]
                      IN  IF at = "initial" THEN soak = stops ELSE soak = <<Last(stops)>>
    BY DEF SoakStopsWithNodes
  <2> DEFINE stops == [i \in DOMAIN versions[n] |-> versions[n][i].stop]
             last == Len(case.versions)
  <2>1. dir \in CaseDir /\ Loadable(dir) /\ case = LoadedFrom(dir)
    BY DEF IInv, SimInv, LoadedInv, Running, Loaded
  <2>2. last \in Nat \ {0} /\ DOMAIN case.versions = 1 .. last /\ last \in 1 .. last
    BY <2>1, LoadedFacts
  <2>3. CASE at = "initial"
    <3>1. soak = [i \in DOMAIN case.versions |-> case.versions[i].stop]
      BY <2>3 DEF IInv, SimInv, SoakInv
    <3>2. DOMAIN versions[n] = DOMAIN case.versions
      BY <2>2, VersionInPhase
    <3>3. \A i \in DOMAIN case.versions : versions[n][i].stop = case.versions[i].stop
      BY <2>3, VersionInPhase
    <3> QED
      BY <2>3, <3>1, <3>2, <3>3
  <2>4. CASE at = "resync"
    <3>1. soak = <<Extended(Last(case.versions).stop)>>
      BY <2>4 DEF IInv, SimInv, SoakInv
    <3>2. DOMAIN versions[n] = 1 .. last
      BY <2>2, VersionInPhase
    <3>3. versions[n][last].stop = Extended(case.versions[last].stop)
      BY <2>2, <2>4, VersionInPhase
    <3>4. Len(stops) = last /\ stops[last] = versions[n][last].stop
      BY <2>2, <3>2
    <3> QED
      BY <2>4, <3>1, <3>3, <3>4 DEF Last
  <2> QED
    BY <2>3, <2>4 DEF Running
<1> QED
  BY <1>1, IInvHolds, PTL

=============================================================================
