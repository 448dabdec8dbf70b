----------------------- MODULE SoakCoordinatorProofs -----------------------
(***************************************************************************)
(* Proofs about SoakCoordinator, for any number of versions and workers,   *)
(* any heights and any width of the salt.                                  *)
(***************************************************************************)
EXTENDS SoakCoordinator, TLAPS

-----------------------------------------------------------------------------
(* Salts.                                                                   *)

LEMMA SaltRange ==
    /\ 2^SaltBits \in Nat \ {0}
    /\ Salts = 0 .. 2^SaltBits - 1
    /\ Salt0 \in 0 .. 2^SaltBits - 1
    /\ Workers \in Nat /\ K \in Nat \ {0}
<1>1. 2^SaltBits \in Int
  BY SoakAssumption
<1> QED
  BY <1>1, SoakAssumption, VersionAssumption DEF Salts

\* Adding in two steps, each kept to its width, is adding at once.
LEMMA WrapAdd ==
    ASSUME NEW m \in Nat \ {0}, NEW s \in 0 .. m - 1, NEW x \in Nat, NEW w \in Nat,
           x + w <= m
    PROVE  (((s + x) % m) + w) % m = (s + (x + w)) % m
<1> DEFINE r == (s + x) % m
           t == (r + w) % m
           u == (s + (x + w)) % m
<1>1. s + x \in 0 .. 2 * m - 1 /\ s + (x + w) \in 0 .. 2 * m - 1
  OBVIOUS
<1>2. r = IF s + x < m THEN s + x ELSE s + x - m
  BY <1>1
<1>3. u = IF s + (x + w) < m THEN s + (x + w) ELSE s + (x + w) - m
  BY <1>1
<1> HIDE DEF r, u
<1>4. r \in 0 .. m - 1 /\ r + w \in 0 .. 2 * m - 1
  BY <1>2
<1>5. t = IF r + w < m THEN r + w ELSE r + w - m
  BY <1>4
<1> HIDE DEF t
<1>6. t = u
  BY <1>2, <1>3, <1>5
<1> QED
  BY <1>6 DEF r, t, u

\* Numbers below the width that are added to the same salt stay apart.
LEMMA WrapApart ==
    ASSUME NEW m \in Nat \ {0}, NEW s \in 0 .. m - 1,
           NEW i \in 0 .. m - 1, NEW j \in 0 .. m - 1, (s + i) % m = (s + j) % m
    PROVE  i = j
<1> DEFINE p == (s + i) % m
           q == (s + j) % m
<1>1. s + i \in 0 .. 2 * m - 1 /\ s + j \in 0 .. 2 * m - 1
  OBVIOUS
<1>2. p = IF s + i < m THEN s + i ELSE s + i - m
  BY <1>1
<1>3. q = IF s + j < m THEN s + j ELSE s + j - m
  BY <1>1
<1>4. p = q
  OBVIOUS
<1> HIDE DEF p, q
<1> QED
  BY <1>2, <1>3, <1>4

LEMMA TimesMonotone ==
    ASSUME NEW w \in Nat, NEW a \in Nat, NEW b \in Nat, a <= b
    PROVE  /\ w * a \in Nat /\ w * b \in Nat
           /\ w * a <= w * b
           /\ w * (a + 1) = w * a + w
<1>1. PICK d \in Nat : b = a + d
  BY b - a \in Nat
<1>2. w * (a + d) = w * a + w * d /\ w * d \in Nat
  OBVIOUS
<1> QED
  BY <1>1, <1>2

\* The salts of n versions and of one more fit into a salt.
LEMMA SaltsFit ==
    ASSUME NEW n \in 0 .. K
    PROVE  /\ Workers * n \in Nat
           /\ Workers * (n + 1) = Workers * n + Workers
           /\ Workers * n + Workers <= 2^SaltBits
<1>1. n \in Nat /\ n + 1 \in Nat /\ n + 1 <= K + 1 /\ K + 1 \in Nat
  BY SaltRange
<1>2. /\ Workers * n \in Nat
      /\ Workers * (n + 1) = Workers * n + Workers
  BY <1>1, SaltRange, TimesMonotone, n <= n
<1>3. Workers * (n + 1) <= Workers * (K + 1)
  BY <1>1, SaltRange, TimesMonotone
<1>4. Workers * (K + 1) <= 2^SaltBits
  BY SoakAssumption
<1>5. Workers * (K + 1) \in Int /\ Workers * (n + 1) \in Int
  BY <1>1, SaltRange
<1> QED
  BY <1>2, <1>3, <1>4, <1>5, SaltRange

\* The coordinator's salts are those of the sequence of versions.
LEMMA NextSaltIsAfter ==
    ASSUME NEW n \in 0 .. K
    PROVE  NextSalt(SaltAfter(n)) = SaltAfter(n + 1)
<1> DEFINE m == 2^SaltBits
           x == Workers * n
<1>1. /\ m \in Nat \ {0} /\ Salt0 \in 0 .. m - 1 /\ Workers \in Nat /\ x \in Nat
      /\ Workers * (n + 1) = x + Workers /\ x + Workers <= m
  BY SaltsFit, SaltRange
<1> HIDE DEF m, x
<1>2. (((Salt0 + x) % m) + Workers) % m = (Salt0 + (x + Workers)) % m
  BY <1>1, WrapAdd
<1> QED
  BY <1>1, <1>2 DEF NextSalt, SaltAfter, m, x

\* The salts of a version's workers, counted from the test case's salt.
LEMMA WorkerSaltsAre ==
    ASSUME NEW n \in 0 .. K
    PROVE  WorkerSalts(SaltAfter(n)) =
              {(Salt0 + j) % 2^SaltBits : j \in Workers * n .. Workers * n + Workers - 1}
<1> DEFINE m == 2^SaltBits
           x == Workers * n
           Salt(j) == (Salt0 + j) % m
<1>1. /\ m \in Nat \ {0} /\ Salt0 \in 0 .. m - 1 /\ Workers \in Nat /\ x \in Nat
      /\ x + Workers <= m
  BY SaltsFit, SaltRange
<1> HIDE DEF m, x
<1>2. ASSUME NEW w \in 0 .. Workers - 1
      PROVE  (Salt(x) + w) % m = Salt(x + w)
  BY <1>1, WrapAdd
<1> HIDE DEF Salt
<1>3. ASSUME NEW j \in x .. x + Workers - 1
      PROVE  j - x \in 0 .. Workers - 1 /\ x + (j - x) = j
  BY <1>1
<1>4. \A w \in 0 .. Workers - 1 : x + w \in x .. x + Workers - 1
  BY <1>1
<1>5. {(Salt(x) + w) % m : w \in 0 .. Workers - 1}
          = {Salt(j) : j \in x .. x + Workers - 1}
  <2>1. {(Salt(x) + w) % m : w \in 0 .. Workers - 1} = {Salt(x + w) : w \in 0 .. Workers - 1}
    BY <1>2
  <2>2. {Salt(x + w) : w \in 0 .. Workers - 1} = {Salt(j) : j \in x .. x + Workers - 1}
    BY <1>3, <1>4
  <2> QED
    BY <2>1, <2>2
<1> QED
  BY <1>5 DEF WorkerSalts, SaltAfter, Salt, m, x

\* What workers are given after n versions is new, and then n + 1 have been served.
LEMMA WorkerSaltsNew ==
    ASSUME NEW n \in 0 .. K
    PROVE  /\ WorkerSalts(SaltAfter(n)) \cap SaltsUpTo(n) = {}
           /\ SaltsUpTo(n) \cup WorkerSalts(SaltAfter(n)) \subseteq SaltsUpTo(n + 1)
<1> DEFINE m == 2^SaltBits
           x == Workers * n
<1>1. /\ m \in Nat \ {0} /\ Workers \in Nat /\ x \in Nat
      /\ Workers * (n + 1) = x + Workers /\ x + Workers <= m
  BY SaltsFit, SaltRange
<1>2. WorkerSalts(SaltAfter(n)) = {(Salt0 + j) % m : j \in x .. x + Workers - 1}
  BY WorkerSaltsAre
<1>3. /\ SaltsUpTo(n) = {(Salt0 + j) % m : j \in 0 .. x - 1}
      /\ SaltsUpTo(n + 1) = {(Salt0 + j) % m : j \in 0 .. (x + Workers) - 1}
  BY <1>1 DEF SaltsUpTo
<1>4. ASSUME NEW i \in 0 .. m - 1, NEW j \in 0 .. m - 1,
             (Salt0 + i) % m = (Salt0 + j) % m
      PROVE  i = j
  BY <1>1, <1>4, SaltRange, WrapApart
<1> HIDE DEF m, x
<1>5. ASSUME NEW i \in x .. x + Workers - 1, NEW j \in 0 .. x - 1
      PROVE  (Salt0 + i) % m # (Salt0 + j) % m
  <2>1. i \in 0 .. m - 1 /\ j \in 0 .. m - 1 /\ i # j
    BY <1>1
  <2> QED
    BY <1>4, <2>1
<1>6. /\ 0 .. x - 1 \subseteq 0 .. (x + Workers) - 1
      /\ x .. x + Workers - 1 \subseteq 0 .. (x + Workers) - 1
  BY <1>1
<1> QED
  BY <1>2, <1>3, <1>5, <1>6

LEMMA SaltsGrow ==
    ASSUME NEW n \in 0 .. K
    PROVE  SaltsUpTo(n) \subseteq SaltsUpTo(n + 1)
BY WorkerSaltsNew

\* All versions of the initial run are behind the resync's.
LEMMA SaltsUpToMonotone ==
    ASSUME NEW n \in 0 .. K
    PROVE  SaltsUpTo(n) \subseteq SaltsUpTo(K)
<1>1. n \in Nat /\ n <= K
  BY SaltRange
<1>2. Workers * n \in Nat /\ Workers * K \in Nat /\ Workers * n <= Workers * K
  BY <1>1, SaltRange, TimesMonotone
<1> QED
  BY <1>2 DEF SaltsUpTo

-----------------------------------------------------------------------------
(* Types.                                                                   *)

\* Stop heights are heights, those of the soak manager's config too.
LEMMA StopType ==
    ASSUME TypeOK
    PROVE  /\ \A k \in Versions : NodeStop(k) \in Nat
           /\ BinaryOf(idx) \in Versions /\ SoakStopOf(idx) \in Nat /\ Target(idx) \in Int
           /\ SoakLen \in 1 .. K
<1>1. \A k \in Versions : Stop[k] \in Nat /\ NodeStop(k) \in Nat
  BY VersionAssumption, SoakAssumption DEF NodeStop
<1>2. BinaryOf(idx) \in Versions
  BY VersionAssumption DEF TypeOK, BinaryOf, Versions
<1>3. Safety \in Nat
  BY SoakAssumption
<1> QED
  BY <1>1, <1>2, <1>3, VersionAssumption DEF SoakStopOf, Target, SafelyBefore, SoakLen

LEMMA SaltType ==
    /\ \A s \in Salts : NextSalt(s) \in Salts
    /\ ResyncSalt \in Salts
<1>1. \A x \in Int : x % 2^SaltBits \in Salts
  BY SaltRange
<1>2. \A s \in Salts : s + Workers \in Int
  BY SaltRange
<1>3. Salt0 + Workers * K \in Int
  BY SaltRange
<1> QED
  BY <1>1, <1>2, <1>3 DEF NextSalt, ResyncSalt

LEMMA WorkerSaltsType ==
    ASSUME NEW s \in Salts PROVE WorkerSalts(s) \subseteq Salts
<1>1. \A x \in Int : x % 2^SaltBits \in Salts
  BY SaltRange
<1>2. \A w \in 0 .. Workers - 1 : s + w \in Int
  BY SaltRange
<1> QED
  BY <1>1, <1>2 DEF WorkerSalts

\* The end of stop_soak_process: the loop goes on, or the coordinator returns.
LEMMA StoppedType ==
    ASSUME TypeOK, TaskInv, Stopped
    PROVE  /\ task' \in Tasks /\ result' \in Results \cup {None} /\ worker' = "none"
           /\ idx' \in Versions /\ salt' \in Salts /\ prevStop' \in Nat
           /\ leaving' \in BOOLEAN
<1>1. idx + 1 < SoakLen => idx + 1 \in Versions
  BY StopType, VersionAssumption DEF TypeOK, Versions
<1>2. NextSalt(salt) \in Salts /\ SoakStopOf(idx) \in Nat
  BY SaltType, StopType DEF TypeOK
<1> QED
  BY <1>1, <1>2 DEF Stopped, Return, TypeOK, Tasks, Results, Errors

LEMMA TypeStep ==
    ASSUME CoordinatorInv, [Next]_vars PROVE TypeOK'
<1> USE DEF nodeVars, loopVars
<1>1. TypeOK /\ TaskInv /\ NodeInv /\ Pace \in Nat
  BY SoakAssumption DEF CoordinatorInv
<1>2. CASE SequencerReady \/ NotReady \/ StopNear \/ StopFar \/ Terminate
  BY <1>1, <1>2 DEF TypeOK, Tasks, SequencerReady, NotReady, StopNear, StopFar, Terminate
<1>3. CASE StartWorker
  BY <1>1, <1>3, WorkerSaltsType DEF TypeOK, Tasks, StartWorker
<1>4. CASE StartFails \/ ReceiveShutdown \/ WorkerEndedEarly \/ WaitFails \/ FinalWaitEnds
  <2>1. task' \in Tasks /\ result' \in Results \cup {None} /\ due' \in 0 .. Pace
    BY <1>1, <1>4 DEF TypeOK, Tasks, Results, Errors, StartFails, ReceiveShutdown, WorkerEndedEarly, WaitFails,
                      FinalWaitEnds, Return
  <2>2. leaving' \in BOOLEAN /\ worker' \in {"none", "running", "exited"}
    BY <1>1, <1>4 DEF TypeOK, StartFails, ReceiveShutdown, WorkerEndedEarly, WaitFails, FinalWaitEnds
  <2> QED
    BY <1>1, <1>4, <2>1, <2>2 DEF TypeOK, StartFails, ReceiveShutdown, WorkerEndedEarly, WaitFails,
                                  FinalWaitEnds
<1>5. CASE GraceReaps \/ GraceKills
  BY <1>1, <1>5, StoppedType DEF TypeOK, GraceReaps, GraceKills
<1>6. CASE TryWaitFindsExit
  <2>1. CASE Stopped
    BY <1>1, <1>6, <2>1, StoppedType DEF TypeOK, TryWaitFindsExit
  <2>2. CASE worker' = "none" /\ Return("SoakTestFailed") /\ UNCHANGED loopVars
    BY <1>1, <1>6, <2>2 DEF TypeOK, Tasks, Results, Errors, TryWaitFindsExit, Return
  <2> QED
    BY <1>6, <2>1, <2>2 DEF TryWaitFindsExit
<1>7. CASE StartResync
  <2>1. 0 \in Versions /\ 0 \in 0 .. K /\ ResyncSalt \in Salts /\ 0 \in 0 .. Pace
    BY <1>1, SaltType, VersionAssumption DEF Versions
  <2>2. task' \in Tasks /\ result' \in Results \cup {None}
    BY <1>7 DEF Tasks, Results, Errors, StartResync
  <2> QED
    BY <1>1, <1>7, <2>1, <2>2 DEF TypeOK, StartResync
<1>8. CASE EndTest
  BY <1>1, <1>8 DEF TypeOK, EndTest
<1>14. CASE ResyncPanics
  BY <1>1, <1>14 DEF TypeOK, ResyncPanics
<1>15. CASE NodeUp
  BY <1>1, <1>15 DEF TypeOK, NodeUp
<1>12. CASE NodeFails \/ MasterEnds \/ NodesEnd
  BY <1>1, <1>12 DEF TypeOK, NodeFails, MasterEnds, NodesEnd
<1>13. CASE WorkerExits
  BY <1>1, <1>13 DEF TypeOK, WorkerExits
<1>9. CASE ProduceBlock
  BY <1>1, <1>9 DEF TypeOK, ProduceBlock
<1>10. CASE NodeStops
  <2>1. node' \in 0 .. K
    BY <1>1, <1>10, VersionAssumption DEF TypeOK, NodeInv, NodeStops
  <2> QED
    BY <1>1, <1>10, <2>1 DEF TypeOK, NodeStops
<1>11. CASE Over \/ UNCHANGED vars
  BY <1>1, <1>11 DEF TypeOK, Over, vars
<1> QED
  BY <1>2, <1>3, <1>4, <1>5, <1>6, <1>7, <1>8, <1>9, <1>10, <1>11, <1>12, <1>13, <1>14,
     <1>15
     DEF Next, Coordinator

-----------------------------------------------------------------------------
(* The worker and the coordinator's result.                                 *)

\* No step of the nodes touches the coordinator or its worker.
LEMMA NodesLeaveCoordinator ==
    ASSUME NodeUp \/ ProduceBlock \/ NodeStops \/ NodeFails \/ MasterEnds \/ NodesEnd \/ Over
              \/ UNCHANGED vars
    PROVE  UNCHANGED <<phase, test, task, idx, salt, prevStop, result, worker, code, used,
                       early>>
BY DEF NodeUp, ProduceBlock, NodeStops, NodeFails, MasterEnds, NodesEnd, Over, vars, nodeVars, loopVars

LEMMA TaskStep ==
    ASSUME CoordinatorInv, [Next]_vars PROVE TaskInv'
<1> USE NoneAssumption DEF nodeVars, loopVars, Soaking, PhaseDone, PhaseOk
<1>1. TypeOK /\ TaskInv
  BY DEF CoordinatorInv
<1>2. CASE SequencerReady \/ NotReady \/ StartWorker \/ StopNear \/ StopFar \/ Terminate
  BY <1>1, <1>2 DEF TaskInv, SequencerReady, NotReady, StartWorker, StopNear, StopFar,
                    Terminate
<1>3. CASE StartFails \/ ReceiveShutdown \/ WorkerEndedEarly \/ WaitFails \/ FinalWaitEnds
  BY <1>1, <1>3 DEF TaskInv, Results, Errors, StartFails, ReceiveShutdown, WorkerEndedEarly, WaitFails,
                    FinalWaitEnds, Return
<1>4. ASSUME Stopped, UNCHANGED <<phase, test, nodes>>, task \in Soaking PROVE TaskInv'
  BY <1>1, <1>4, VersionAssumption DEF TypeOK, TaskInv, Results, Errors, Stopped, Return, SoakLen,
                                       Versions
<1>5. CASE GraceReaps \/ GraceKills
  BY <1>4, <1>5 DEF GraceReaps, GraceKills
<1>6. CASE TryWaitFindsExit
  <2>1. CASE Stopped
    BY <1>4, <1>6, <2>1 DEF TryWaitFindsExit
  <2>2. CASE worker' = "none" /\ Return("SoakTestFailed") /\ UNCHANGED loopVars
    BY <1>1, <1>6, <2>2 DEF TaskInv, Results, Errors, TryWaitFindsExit, Return
  <2> QED
    BY <1>6, <2>1, <2>2 DEF TryWaitFindsExit
<1>7. CASE StartResync
  BY <1>1, <1>7 DEF TaskInv, Results, Errors, StartResync
<1>8. CASE EndTest \/ ResyncPanics \/ WorkerExits
  BY <1>1, <1>8 DEF TaskInv, EndTest, ResyncPanics, WorkerExits
<1>9. CASE NodeUp \/ ProduceBlock \/ NodeStops \/ NodeFails \/ MasterEnds \/ NodesEnd \/ Over
             \/ UNCHANGED vars
  BY <1>1, <1>9, NodesLeaveCoordinator
     DEF TaskInv, NodeUp, ProduceBlock, NodeStops, NodeFails, MasterEnds, NodesEnd, Over, vars
<1> QED
  BY <1>2, <1>3, <1>5, <1>6, <1>7, <1>8, <1>9 DEF Next, Coordinator

\* A failure that is still to be reported is not lost on the way.
LEMMA EarlyStep ==
    ASSUME CoordinatorInv, [Next]_vars PROVE EarlyInv'
<1> USE NoneAssumption DEF nodeVars, loopVars, Soaking
<1>1. TypeOK /\ TaskInv /\ EarlyInv
  BY DEF CoordinatorInv
<1>2. result \in {"SoakTestWaitFailed", "SoakTestFailed"} => task = "ended"
  BY <1>1 DEF TaskInv, Results, Errors
<1>3. CASE SequencerReady \/ NotReady \/ StartWorker \/ StopNear \/ StopFar \/ Terminate
  BY <1>1, <1>2, <1>3 DEF EarlyInv, SequencerReady, NotReady, StartWorker, StopNear, StopFar,
                          Terminate
<1>4. CASE StartFails \/ ReceiveShutdown \/ WorkerEndedEarly \/ WaitFails \/ FinalWaitEnds
  BY <1>1, <1>2, <1>4 DEF EarlyInv, TaskInv, StartFails, ReceiveShutdown, WorkerEndedEarly, WaitFails,
                          FinalWaitEnds, Return
<1>5. CASE GraceReaps \/ GraceKills
  <2>1. ~early
    BY <1>1, <1>2, <1>5 DEF EarlyInv, GraceReaps, GraceKills
  <2> QED
    BY <1>5, <2>1 DEF EarlyInv, GraceReaps, GraceKills
<1>6. CASE TryWaitFindsExit
  <2>1. code = 0 => ~early
    BY <1>1, <1>2, <1>6 DEF EarlyInv, TryWaitFindsExit
  <2> QED
    BY <1>6, <2>1 DEF EarlyInv, TryWaitFindsExit, Return
<1>7. CASE StartResync
  <2>1. ~early
    BY <1>1, <1>7 DEF EarlyInv, StartResync, PhaseDone, PhaseOk, Errors
  <2> QED
    BY <1>7, <2>1 DEF EarlyInv, StartResync
<1>8. CASE EndTest \/ ResyncPanics
  BY <1>1, <1>8 DEF EarlyInv, EndTest, ResyncPanics
<1>9. CASE WorkerExits
  BY <1>1, <1>2, <1>9 DEF EarlyInv, TaskInv, WorkerExits
<1>10. CASE NodeUp \/ ProduceBlock \/ NodeStops \/ NodeFails \/ MasterEnds \/ NodesEnd \/ Over
              \/ UNCHANGED vars
  BY <1>1, <1>10, NodesLeaveCoordinator DEF EarlyInv
<1> QED
  BY <1>3, <1>4, <1>5, <1>6, <1>7, <1>8, <1>9, <1>10 DEF Next, Coordinator

-----------------------------------------------------------------------------
(* The nodes.                                                               *)

\* No step of the coordinator or of the worker touches the nodes.
LEMMA CoordinatorLeavesNodes ==
    ASSUME Coordinator \/ EndTest \/ ResyncPanics \/ WorkerExits \/ Over \/ UNCHANGED vars
    PROVE  UNCHANGED <<phase, nodes, node, up, height, shutdown>>
<1> USE DEF nodeVars
<1>1. CASE SequencerReady \/ NotReady \/ StartWorker \/ StartFails \/ ReceiveShutdown
  BY <1>1 DEF SequencerReady, NotReady, StartWorker, StartFails, ReceiveShutdown
<1>2. CASE StopNear \/ StopFar \/ WorkerEndedEarly \/ WaitFails \/ TryWaitFindsExit \/ Terminate
  BY <1>2 DEF StopNear, StopFar, WorkerEndedEarly, WaitFails, TryWaitFindsExit, Terminate
<1>3. CASE GraceReaps \/ GraceKills \/ FinalWaitEnds
  BY <1>3 DEF GraceReaps, GraceKills, FinalWaitEnds
<1>4. CASE EndTest \/ ResyncPanics \/ WorkerExits \/ Over \/ UNCHANGED vars
  BY <1>4 DEF EndTest, ResyncPanics, WorkerExits, Over, vars
<1> QED
  BY <1>1, <1>2, <1>3, <1>4 DEF Coordinator

LEMMA NodeStep ==
    ASSUME CoordinatorInv, [Next]_vars PROVE NodeInv'
<1>1. TypeOK /\ NodeInv
  BY DEF CoordinatorInv
<1>2. CASE Coordinator \/ EndTest \/ ResyncPanics \/ WorkerExits \/ Over \/ UNCHANGED vars
  BY <1>1, <1>2, CoordinatorLeavesNodes DEF NodeInv
<1>3. CASE StartResync
  BY <1>3 DEF NodeInv, StartResync
<1>4. CASE NodeUp \/ ProduceBlock \/ NodeFails \/ MasterEnds
  BY <1>1, <1>4 DEF NodeInv, NodeUp, ProduceBlock, NodeFails, MasterEnds
<1>5. CASE NodeStops
  BY <1>1, <1>5, VersionAssumption DEF TypeOK, NodeInv, NodeStops
<1>6. CASE NodesEnd
  BY <1>1, <1>6, VersionAssumption DEF TypeOK, NodeInv, NodesEnd
<1> QED
  BY <1>2, <1>3, <1>4, <1>5, <1>6 DEF Next

-----------------------------------------------------------------------------
(* The salts the workers have had.                                          *)

LEMMA SaltStep ==
    ASSUME CoordinatorInv, [Next]_vars PROVE SaltInv'
<1> USE DEF nodeVars, loopVars
<1> DEFINE served == IF task \in Waiting THEN Soaked ELSE Soaked + 1
<1>1. TypeOK /\ TaskInv /\ SaltInv /\ used \subseteq SaltsUpTo(served)
  BY DEF CoordinatorInv, SaltInv
<1>2. /\ Soaked \in 0 .. K
      /\ phase = "initial" => Soaked = idx /\ Soaked + 1 \in 0 .. K
      /\ SoakLen \in 1 .. K /\ (phase = "resync" => SoakLen = 1 /\ idx = 0)
  BY <1>1, VersionAssumption DEF TypeOK, TaskInv, Soaked, SoakLen, Versions
<1>3. SaltsUpTo(Soaked) \subseteq SaltsUpTo(Soaked + 1)
  BY <1>2, SaltsGrow
<1> HIDE DEF served
\* Waiting is given up without a worker, or goes on.
<1>4. ASSUME UNCHANGED <<phase, idx, salt, used>>, task' \in Waiting => task \in Waiting,
             task' \in Soaking => task \in Waiting \cup Soaking
      PROVE  SaltInv'
  BY <1>1, <1>3, <1>4 DEF SaltInv, Soaked, served
<1>5. CASE SequencerReady \/ NotReady \/ StopNear \/ StopFar \/ Terminate
  BY <1>4, <1>5 DEF Waiting, Soaking, SequencerReady, NotReady, StopNear, StopFar, Terminate
<1>6. CASE StartFails \/ ReceiveShutdown \/ WorkerEndedEarly \/ WaitFails \/ FinalWaitEnds
  BY <1>4, <1>6 DEF Waiting, Soaking, StartFails, ReceiveShutdown, WorkerEndedEarly, WaitFails,
                    FinalWaitEnds, Return
<1>7. CASE StartWorker
  <2>1. /\ task \in Waiting /\ task' = "soaking" /\ UNCHANGED <<phase, idx, salt>>
        /\ used' = used \cup WorkerSalts(salt)
    BY <1>7 DEF StartWorker, Waiting
  <2>2. salt = SaltAfter(Soaked) /\ used \subseteq SaltsUpTo(Soaked)
    BY <1>1, <2>1 DEF SaltInv, served
  <2>3. used' \subseteq SaltsUpTo(Soaked + 1)
    BY <1>2, <2>1, <2>2, WorkerSaltsNew
  <2> QED
    BY <2>1, <2>2, <2>3 DEF SaltInv, Soaked, Waiting, Soaking
<1>8. ASSUME Stopped, UNCHANGED <<phase, used>>, task \in Soaking PROVE SaltInv'
  <2>1. salt = SaltAfter(Soaked) /\ used \subseteq SaltsUpTo(Soaked + 1)
    BY <1>1, <1>8 DEF SaltInv, served, Waiting, Soaking
  <2>2. NextSalt(salt) = SaltAfter(Soaked + 1)
    BY <1>2, <2>1, NextSaltIsAfter
  <2>3. CASE task' \notin Waiting
    <3>1. idx' = idx /\ task' \notin Soaking
      BY <1>8, <2>3 DEF Stopped, Return, Soaking, Waiting
    <3> QED
      BY <1>8, <2>1, <2>3, <3>1 DEF SaltInv, Soaked, Waiting, Soaking
  <2>4. CASE task' \in Waiting
    <3>1. idx' = idx + 1 /\ idx + 1 < SoakLen /\ task' = "ready" /\ salt' = NextSalt(salt)
      BY <1>8, <2>4 DEF Stopped, Return, Waiting
    <3>2. phase = "initial"
      BY <1>1, <1>2, <3>1 DEF TypeOK
    <3>3. Soaked' = Soaked + 1
      BY <1>2, <1>8, <3>1, <3>2 DEF Soaked
    <3> QED
      BY <1>8, <2>1, <2>2, <3>1, <3>3 DEF SaltInv, Waiting, Soaking
  <2> QED
    BY <2>3, <2>4
<1>9. CASE GraceReaps \/ GraceKills
  BY <1>8, <1>9 DEF GraceReaps, GraceKills, Soaking
<1>10. CASE TryWaitFindsExit
  <2>1. CASE Stopped
    BY <1>8, <1>10, <2>1 DEF TryWaitFindsExit, Soaking
  <2>2. CASE worker' = "none" /\ Return("SoakTestFailed") /\ UNCHANGED loopVars
    BY <1>4, <1>10, <2>2 DEF TryWaitFindsExit, Return, Waiting, Soaking
  <2> QED
    BY <1>10, <2>1, <2>2 DEF TryWaitFindsExit
<1>11. CASE StartResync
  <2>1. used \subseteq SaltsUpTo(Soaked + 1) /\ Soaked + 1 \in 0 .. K
    BY <1>1, <1>2, <1>11 DEF StartResync, PhaseDone, served, Waiting
  <2>2. Soaked' = K /\ used' = used /\ salt' = SaltAfter(K)
    BY <1>11 DEF StartResync, Soaked, ResyncSalt, SaltAfter
  <2>3. used' \subseteq SaltsUpTo(K)
    BY <2>1, <2>2, SaltsUpToMonotone
  <2>4. SaltsUpTo(K) \subseteq SaltsUpTo(K + 1)
    BY SaltRange, SaltsGrow
  <2> QED
    BY <2>2, <2>3, <2>4 DEF SaltInv
<1>12. CASE EndTest \/ ResyncPanics \/ WorkerExits
  BY <1>4, <1>12 DEF EndTest, ResyncPanics, WorkerExits, Waiting, Soaking
<1>13. CASE NodeUp \/ ProduceBlock \/ NodeStops \/ NodeFails \/ MasterEnds \/ NodesEnd \/ Over
              \/ UNCHANGED vars
  BY <1>4, <1>13, NodesLeaveCoordinator DEF Waiting, Soaking
<1> QED
  BY <1>5, <1>6, <1>7, <1>9, <1>10, <1>11, <1>12, <1>13 DEF Next, Coordinator

-----------------------------------------------------------------------------
(* The coordinator follows the nodes, if the margins are kept.              *)

\* What the margins give at version k.
LEMMA MarginsAt ==
    ASSUME Margins, NEW k \in Versions
    PROVE  /\ StartOf(k) \in Nat /\ Stop[k] \in Nat /\ SafelyBefore(Stop[k]) \in Nat
           /\ StartOf(k) + Warmup + 5 * Pace < Stop[k]
           /\ SafelyBefore(Stop[k]) + 3 * Pace <= Stop[k]
           /\ StartOf(k + 1) = Stop[k]
<1>1. Safety \in Nat /\ Warmup \in Nat /\ Pace \in Nat /\ 3 * Pace <= Safety
  BY SoakAssumption DEF Margins
<1>2. Stop[k] \in Nat /\ k \in 0 .. K - 1 /\ K \in Nat
  BY VersionAssumption DEF Versions
<1>3. StartOf(k) \in Nat
  <2>1. k # 0 => k - 1 \in Versions
    BY <1>2 DEF Versions
  <2> QED
    BY <2>1, VersionAssumption DEF StartOf
<1>4. StartOf(k) + Warmup + 5 * Pace < Stop[k]
  BY DEF Margins
<1>5. StartOf(k + 1) = Stop[k]
  <2>1. k + 1 # 0 /\ (k + 1) - 1 = k
    BY <1>2
  <2> QED
    BY <2>1 DEF StartOf
<1>6. SafelyBefore(Stop[k]) \in Nat /\ SafelyBefore(Stop[k]) + 3 * Pace <= Stop[k]
  BY <1>1, <1>2, <1>3, <1>4 DEF SafelyBefore
<1> QED
  BY <1>2, <1>3, <1>4, <1>5, <1>6

\* The following is only claimed of the initial run and until the master is gone.
LEMMA FollowScope ==
    ASSUME [Next]_vars, phase' = "initial", nodes' \notin {"gone", "failed"}
    PROVE  phase = "initial" /\ nodes \notin {"gone", "failed"} /\ ~StartResync /\ ~MasterEnds
<1>1. ~StartResync /\ ~MasterEnds
  BY DEF StartResync, MasterEnds
<1>2. CASE Coordinator \/ EndTest \/ ResyncPanics \/ WorkerExits \/ Over \/ UNCHANGED vars
  BY <1>1, <1>2, CoordinatorLeavesNodes
<1>3. CASE NodeUp \/ ProduceBlock \/ NodeStops \/ NodeFails \/ NodesEnd
  BY <1>1, <1>3 DEF NodeUp, ProduceBlock, NodeStops, NodeFails, NodesEnd
<1> QED
  BY <1>1, <1>2, <1>3 DEF Next

\* A worker starts, and its poll, SIGTERM and end come, within a step's blocks each,
\* and before the node stops.
LEMMA FollowStep ==
    ASSUME CoordinatorInv, Margins, [Next]_vars PROVE FollowInv'
<1> SUFFICES ASSUME phase' = "initial", nodes' \notin {"gone", "failed"}
             PROVE  FollowInv'
  BY DEF FollowInv
<1> DEFINE Bounds(t, h, d, k) ==
      LET begin == StartOf(k) + Warmup + d
          near  == SafelyBefore(Stop[k]) + d
      IN  /\ t = "ready"    => h <= begin
          /\ t = "height"   => h <= begin + Pace
          /\ t = "soaking"  => h <= begin + 2 * Pace \/ h < near
          /\ t = "stopping" => h <= begin + 3 * Pace \/ h < near + Pace
          /\ t = "grace"    => h <= begin + 4 * Pace \/ h < near + 2 * Pace
           Tracks(n, h, u) ==
          /\ StartOf(n) <= h
          /\ n < K => h <= Stop[n]
          /\ ~u => h = StartOf(n)
           Meets(t, k, n, p, u) ==
          /\ t \in Waiting => n \in {k - 1, k} /\ p = StartOf(k)
          /\ t \in Soaking => u /\ n = k
<1>1. phase = "initial" /\ nodes \notin {"gone", "failed"} /\ ~StartResync /\ ~MasterEnds
  BY FollowScope
<1>2. /\ TypeOK /\ TaskInv /\ NodeInv /\ Pace \in Nat /\ Warmup \in Nat
      /\ height \in Nat /\ due \in 0 .. Pace /\ idx \in 0 .. K - 1 /\ node \in 0 .. K
      /\ idx \in Versions /\ K \in Nat
  BY SoakAssumption, VersionAssumption DEF CoordinatorInv, TypeOK, Versions
<1>3. Tracks(node, height, up) /\ Meets(task, idx, node, prevStop, up)
        /\ Bounds(task, height, due, idx)
  BY <1>1 DEF CoordinatorInv, FollowInv
<1> SUFFICES Tracks(node', height', up') /\ Meets(task', idx', node', prevStop', up')
               /\ Bounds(task', height', due', idx')
  BY DEF FollowInv
<1>4. /\ StartOf(idx) \in Nat /\ Stop[idx] \in Nat /\ SafelyBefore(Stop[idx]) \in Nat
      /\ StartOf(idx) + Warmup + 5 * Pace < Stop[idx]
      /\ SafelyBefore(Stop[idx]) + 3 * Pace <= Stop[idx]
      /\ StartOf(idx + 1) = Stop[idx]
  BY <1>2, MarginsAt
\* A node of the version before stands below the height at which this one starts.
<1>5. node = idx - 1 => /\ node < K /\ StartOf(node) \in Nat /\ StartOf(idx) = Stop[node]
                        /\ StartOf(node) + Warmup + 5 * Pace < StartOf(idx)
  <2>1. ASSUME node = idx - 1 PROVE node \in Versions /\ node + 1 = idx /\ node < K
    BY <1>2, <2>1 DEF Versions
  <2> QED
    BY <2>1, MarginsAt
<1>6. node = idx => node < K
  BY <1>2
\* A coordinator that waits or soaks beside a node of its version does so before the
\* node stops.
<1>7. ASSUME node = idx, task \in Waiting \cup Soaking PROVE height < Stop[idx]
  BY <1>2, <1>3, <1>4, <1>7 DEF Waiting, Soaking
<1> HIDE DEF Bounds, Tracks, Meets
<1>8. CASE SequencerReady
  <2>1. /\ task = "ready" /\ task' = "height" /\ due' = 0
        /\ UNCHANGED <<node, up, height, idx, prevStop>>
    BY <1>8 DEF SequencerReady, nodeVars, loopVars
  <2>2. Tracks(node', height', up') /\ Meets(task', idx', node', prevStop', up')
    BY <1>3, <2>1 DEF Tracks, Meets, Waiting, Soaking
  <2> QED
    BY <1>2, <1>3, <1>4, <2>1, <2>2 DEF Bounds
<1>9. CASE NotReady
  <2>1. /\ task \in Waiting /\ task' = "ready" /\ due' = 0
        /\ UNCHANGED <<node, up, height, idx, prevStop>>
    BY <1>9 DEF NotReady, Waiting, nodeVars, loopVars
  <2>2. ~up \/ height <= StartOf(node) + Warmup \/ height <= StartOf(idx)
    BY <1>2, <1>3, <1>4, <1>9, <2>1
       DEF NotReady, MayBeUnready, HeightAdvanced, Waiting, Meets
  <2>3. height <= StartOf(idx) + Warmup
    <3>1. ~up => height = StartOf(node)
      BY <1>3 DEF Tracks
    <3>2. node \in {idx - 1, idx}
      BY <1>3, <2>1 DEF Meets
    <3> QED
      BY <1>2, <1>4, <1>5, <2>2, <3>1, <3>2
  <2>4. Tracks(node', height', up') /\ Meets(task', idx', node', prevStop', up')
    BY <1>3, <2>1 DEF Tracks, Meets, Waiting, Soaking
  <2> QED
    BY <1>2, <1>4, <2>1, <2>3, <2>4 DEF Bounds
<1>10. CASE StartWorker
  <2>1. /\ task = "height" /\ task' = "soaking" /\ due' = 0 /\ up /\ height > prevStop
        /\ UNCHANGED <<node, up, height, idx, prevStop>>
    BY <1>10 DEF StartWorker, HeightAdvanced, nodeVars, loopVars
  <2>2. node = idx
    <3>1. node \in {idx - 1, idx} /\ prevStop = StartOf(idx)
      BY <1>3, <2>1 DEF Meets, Waiting
    <3>2. node = idx - 1 => height <= Stop[node]
      BY <1>3, <1>5 DEF Tracks
    <3> QED
      BY <1>2, <1>4, <1>5, <2>1, <3>1, <3>2
  <2>3. height <= StartOf(idx) + Warmup + 2 * Pace
    BY <1>2, <1>3, <1>4, <2>1 DEF Bounds
  <2>4. Tracks(node', height', up') /\ Meets(task', idx', node', prevStop', up')
    BY <1>3, <2>1, <2>2 DEF Tracks, Meets, Waiting, Soaking
  <2>5. Bounds("soaking", height, 0, idx)
    BY <1>2, <1>4, <2>3 DEF Bounds
  <2> QED
    BY <2>1, <2>4, <2>5
\* With no more than to return or to wait for the end, nothing is promised of nodes.
<1>11. ASSUME UNCHANGED <<node, up, height>>, task' \in {"final", "ended"}
       PROVE  Tracks(node', height', up') /\ Meets(task', idx', node', prevStop', up')
                /\ Bounds(task', height', due', idx')
  BY <1>3, <1>11 DEF Waiting, Soaking, Tracks, Meets, Bounds
<1>12. CASE StartFails \/ WorkerEndedEarly \/ WaitFails \/ FinalWaitEnds
  BY <1>11, <1>12 DEF StartFails, WorkerEndedEarly, WaitFails, FinalWaitEnds, Return, nodeVars
<1>13. CASE ReceiveShutdown
  \* When the shutdown is sent no node runs, so no worker does.
  <2>1. worker = "none"
    <3>1. shutdown /\ nodes \notin {"running", "failing"} /\ task \in {"ready", "height", "soaking"}
      BY <1>1, <1>2, <1>13 DEF ReceiveShutdown, NodeInv
    <3>2. ~up
      BY <1>2, <3>1 DEF NodeInv
    <3> QED
      BY <1>2, <1>3, <3>1, <3>2 DEF TaskInv, Meets, Soaking
  <2> QED
    BY <1>11, <1>13, <2>1 DEF ReceiveShutdown, Return, nodeVars
<1>14. CASE StopNear
  <2>1. /\ task = "soaking" /\ task' = "stopping" /\ due' = 0
        /\ UNCHANGED <<node, up, height, idx, prevStop>>
    BY <1>14 DEF StopNear, nodeVars, loopVars
  <2>2. Tracks(node', height', up') /\ Meets(task', idx', node', prevStop', up')
    BY <1>3, <2>1 DEF Tracks, Meets, Waiting, Soaking
  <2> QED
    BY <1>2, <1>3, <1>4, <2>1, <2>2 DEF Bounds
<1>15. CASE StopFar
  <2>1. /\ task = "soaking" /\ task' = "soaking" /\ due' = 0
        /\ ~up \/ height < Target(idx)
        /\ UNCHANGED <<node, up, height, idx, prevStop>>
    BY <1>15 DEF StopFar, nodeVars, loopVars
  <2>2. up
    BY <1>3, <2>1 DEF Meets, Soaking
  <2>3. Target(idx) = SafelyBefore(Stop[idx])
    BY <1>1 DEF Target, SoakStopOf, BinaryOf, NodeStop
  <2>4. Tracks(node', height', up') /\ Meets(task', idx', node', prevStop', up')
    BY <1>3, <2>1 DEF Tracks, Meets, Waiting, Soaking
  <2>5. Bounds("soaking", height, 0, idx)
    BY <1>2, <1>4, <2>1, <2>2, <2>3 DEF Bounds
  <2> QED
    BY <2>1, <2>4, <2>5
<1>16. CASE Terminate
  <2>1. /\ task = "stopping" /\ task' = "grace" /\ due' = 0
        /\ UNCHANGED <<node, up, height, idx, prevStop>>
    BY <1>16 DEF Terminate, nodeVars, loopVars
  <2>2. Tracks(node', height', up') /\ Meets(task', idx', node', prevStop', up')
    BY <1>3, <2>1 DEF Tracks, Meets, Waiting, Soaking
  <2> QED
    BY <1>2, <1>3, <1>4, <2>1, <2>2 DEF Bounds
\* The worker is gone while the node has yet to reach its stop height, where the next
\* version starts.
<1>17. ASSUME Stopped, UNCHANGED <<node, up, height>>, due' = 0, task \in Soaking
       PROVE  Tracks(node', height', up') /\ Meets(task', idx', node', prevStop', up')
                /\ Bounds(task', height', due', idx')
  <2>1. CASE task' \in {"final", "ended"}
    BY <1>11, <1>17, <2>1
  <2>2. CASE task' \notin {"final", "ended"}
    <3>1. /\ idx' = idx + 1 /\ idx + 1 < SoakLen /\ task' = "ready"
          /\ prevStop' = SoakStopOf(idx)
      BY <1>17, <2>2 DEF Stopped, Return
    <3>2. SoakStopOf(idx) = Stop[idx]
      BY <1>1 DEF SoakStopOf, BinaryOf, NodeStop
    <3>3. node = idx /\ height < Stop[idx]
      BY <1>3, <1>7, <1>17 DEF Meets
    <3>4. Tracks(node', height', up')
      BY <1>3, <1>17 DEF Tracks
    <3>5. Meets(task', idx', node', prevStop', up')
      BY <1>2, <1>4, <1>17, <3>1, <3>2, <3>3 DEF Meets, Waiting, Soaking
    <3> QED
      BY <1>2, <1>4, <1>17, <3>1, <3>3, <3>4, <3>5 DEF Bounds
  <2> QED
    BY <2>1, <2>2
<1>18. CASE GraceReaps \/ GraceKills
  BY <1>17, <1>18 DEF GraceReaps, GraceKills, Soaking, nodeVars
<1>19. CASE TryWaitFindsExit
  <2>1. CASE Stopped
    BY <1>17, <1>19, <2>1 DEF TryWaitFindsExit, Soaking, nodeVars
  <2>2. CASE worker' = "none" /\ Return("SoakTestFailed") /\ UNCHANGED loopVars
    BY <1>11, <1>19, <2>2 DEF TryWaitFindsExit, Return, nodeVars
  <2> QED
    BY <1>19, <2>1, <2>2 DEF TryWaitFindsExit
<1>20. ASSUME UNCHANGED <<node, up, height, task, idx, prevStop, due>>
       PROVE  Tracks(node', height', up') /\ Meets(task', idx', node', prevStop', up')
                /\ Bounds(task', height', due', idx')
  BY <1>3, <1>20
<1>21. CASE EndTest \/ ResyncPanics \/ WorkerExits \/ Over \/ UNCHANGED vars
  BY <1>20, <1>21 DEF EndTest, ResyncPanics, WorkerExits, Over, vars, nodeVars, loopVars
\* When all nodes have ended well, the last version has stopped.
<1>26. CASE NodesEnd
  <2>1. up' = FALSE /\ UNCHANGED <<node, height, task, idx, prevStop, due>>
    BY <1>26 DEF NodesEnd, loopVars
  <2>2. node = K /\ nodes = "running"
    BY <1>26 DEF NodesEnd
  <2>3. ~up
    BY <1>2, <2>2 DEF NodeInv
  <2> QED
    BY <1>2, <1>20, <2>1, <2>3 DEF TypeOK
<1>25. CASE NodeFails
  <2>1. up' = up /\ UNCHANGED <<node, height, task, idx, prevStop, due>>
    BY <1>2, <1>25 DEF NodeFails, TypeOK, loopVars
  <2> QED
    BY <1>20, <2>1
<1>22. CASE NodeUp
  BY <1>3, <1>22 DEF NodeUp, Tracks, Meets, nodeVars, loopVars
<1>23. CASE ProduceBlock
  <2>1. /\ up /\ height < NodeStop(node) /\ due < Pace /\ height' = height + 1
        /\ due' = due + 1 /\ UNCHANGED <<node, up, task, idx, prevStop>>
    BY <1>23 DEF ProduceBlock, loopVars
  <2>2. NodeStop(node) = Stop[node] /\ node \in Versions
    BY <1>1, <1>2, <2>1 DEF NodeStop, NodeInv, Versions
  <2>3. Tracks(node', height', up')
    <3>1. StartOf(node) \in Nat /\ Stop[node] \in Nat
      BY <2>2, MarginsAt
    <3> QED
      BY <1>2, <1>3, <2>1, <2>2, <3>1 DEF Tracks
  <2>4. Meets(task', idx', node', prevStop', up')
    BY <1>3, <2>1 DEF Meets
  <2>5. Bounds(task, height + 1, due + 1, idx)
    BY <1>2, <1>3, <1>4 DEF Bounds
  <2> QED
    BY <2>1, <2>3, <2>4, <2>5
<1>24. CASE NodeStops
  <2>1. /\ up /\ height = NodeStop(node) /\ up' = FALSE /\ node' = node + 1
        /\ UNCHANGED <<height, task, idx, prevStop, due>>
    BY <1>24 DEF NodeStops, loopVars
  <2>2. NodeStop(node) = Stop[node] /\ node \in Versions
    BY <1>1, <1>2, <2>1 DEF NodeStop, NodeInv, Versions
  <2>3. StartOf(node + 1) = Stop[node] /\ Stop[node] \in Nat
    BY <2>2, MarginsAt
  <2>4. node # idx \/ task \notin Waiting \cup Soaking
    BY <1>4, <1>7, <2>1, <2>2
  <2>5. Tracks(node', height', up')
    <3>1. ASSUME node + 1 < K PROVE Stop[node] <= Stop[node + 1]
      <4>1. node + 1 \in Versions
        BY <1>2, <3>1 DEF Versions
      <4> QED
        BY <1>2, <2>3, <4>1, MarginsAt
    <3> QED
      BY <1>2, <2>1, <2>2, <2>3, <3>1 DEF Tracks
  <2>6. Meets(task', idx', node', prevStop', up')
    BY <1>2, <1>3, <2>1, <2>4 DEF Meets
  <2> QED
    BY <1>3, <2>1, <2>5, <2>6
<1> QED
  BY <1>1, <1>8, <1>9, <1>10, <1>12, <1>13, <1>14, <1>15, <1>16, <1>18, <1>19, <1>21, <1>22,
     <1>23, <1>24, <1>25, <1>26
     DEF Next, Coordinator

-----------------------------------------------------------------------------
(* The inductive invariant and what follows from it.                        *)

LEMMA InitInv == Init => CoordinatorInv
<1> SUFFICES ASSUME Init PROVE CoordinatorInv
  OBVIOUS
<1> USE NoneAssumption DEF Init, Waiting, Soaking
<1>1. /\ K \in Nat \ {0} /\ Pace \in Nat /\ Warmup \in Nat /\ 0 \in 0 .. Pace
      /\ 0 \in Versions /\ 0 \in 0 .. K
  BY SoakAssumption, VersionAssumption DEF Versions
<1>2. TypeOK
  BY <1>1, SoakAssumption DEF TypeOK, Tasks
<1>3. TaskInv /\ EarlyInv /\ NodeInv
  BY DEF TaskInv, EarlyInv, NodeInv
<1>4. SaltInv
  <2>1. Workers * 0 = 0 /\ Salt0 % 2^SaltBits = Salt0
    BY SaltRange
  <2>2. Salt0 + 0 = Salt0
    BY SaltRange
  <2> QED
    BY <2>1, <2>2 DEF SaltInv, SaltAfter, Soaked
<1>5. ASSUME Margins PROVE FollowInv
  <2>1. StartOf(0) = 0 /\ Stop[0] \in Nat
    BY <1>1, VersionAssumption DEF StartOf
  <2> QED
    BY <1>1, <2>1 DEF FollowInv
<1> QED
  BY <1>2, <1>3, <1>4, <1>5 DEF CoordinatorInv

LEMMA InvStep == CoordinatorInv /\ [Next]_vars => CoordinatorInv'
<1> SUFFICES ASSUME CoordinatorInv, [Next]_vars PROVE CoordinatorInv'
  OBVIOUS
<1>1. TypeOK' /\ TaskInv' /\ EarlyInv' /\ NodeInv' /\ SaltInv'
  BY TypeStep, TaskStep, EarlyStep, NodeStep, SaltStep
<1>2. Margins' => FollowInv'
  BY FollowStep DEF Margins
<1> QED
  BY <1>1, <1>2 DEF CoordinatorInv

\* The state of the coordinator, its worker and the nodes is consistent at all times.
THEOREM CoordinatorInvariant == Spec => []CoordinatorInv
BY InitInv, InvStep, PTL DEF Spec

\* A worker that has failed before the coordinator turned to stopping it fails the
\* test case (try_wait in stop_soak_process and the select of run_soak_coordinator).
THEOREM EarlyFailureCounts == Spec => []EarlyFailureFailsTest
<1>1. CoordinatorInv => EarlyFailureFailsTest
  BY NoneAssumption DEF CoordinatorInv, TaskInv, EarlyInv, EarlyFailureFailsTest, PhaseDone,
                        PhaseOk, Errors
<1> QED
  BY <1>1, CoordinatorInvariant, PTL

\* Workers of different versions and phases never share a salt.
THEOREM SaltsAreFresh == Spec => NoSaltReused
<1>1. ASSUME CoordinatorInv, [Next]_vars
      PROVE  [task = "height" /\ task' = "soaking" => WorkerSalts(salt) \cap used = {}]_vars
  <2> SUFFICES ASSUME task = "height" PROVE WorkerSalts(salt) \cap used = {}
    OBVIOUS
  <2>1. Soaked \in 0 .. K
    BY <1>1, VersionAssumption DEF CoordinatorInv, TypeOK, Soaked, Versions
  <2>2. salt = SaltAfter(Soaked) /\ used \subseteq SaltsUpTo(Soaked)
    BY <1>1 DEF CoordinatorInv, SaltInv, Waiting
  <2> QED
    BY <2>1, <2>2, WorkerSaltsNew
<1> QED
  BY <1>1, CoordinatorInvariant, PTL DEF Spec, NoSaltReused

\* When a phase or the test case ends there is no worker (run_with_soak waits for the
\* coordinator, and the coordinator for its worker).
THEOREM PhasesEndWithoutWorker == Spec => NoWorkerAcrossPhases
<1>1. ASSUME CoordinatorInv, [Next]_vars
      PROVE  [phase' # phase \/ test' # test => worker = "none" /\ worker' = "none"]_vars
  <2> USE DEF nodeVars, loopVars
  <2>1. ASSUME StartResync \/ ResyncPanics \/ EndTest
        PROVE  worker = "none" /\ worker' = "none"
    BY <1>1, <2>1 DEF CoordinatorInv, TaskInv, Soaking, StartResync, ResyncPanics,
                       EndTest, PhaseDone
  <2>2. ASSUME ~StartResync, ~ResyncPanics, ~EndTest PROVE phase' = phase /\ test' = test
    <3>1. CASE NodeUp \/ ProduceBlock \/ NodeStops \/ NodeFails \/ MasterEnds \/ NodesEnd \/ Over
                  \/ UNCHANGED vars
      BY <3>1, NodesLeaveCoordinator
    <3>2. CASE Coordinator \/ WorkerExits
      BY <3>2 DEF Coordinator, WorkerExits, SequencerReady, NotReady, StartWorker, StartFails,
                  ReceiveShutdown, StopNear, StopFar, WorkerEndedEarly, WaitFails, TryWaitFindsExit,
                  Terminate, GraceReaps, GraceKills, FinalWaitEnds
    <3> QED
      BY <1>1, <2>2, <3>1, <3>2 DEF Next
  <2> QED
    BY <2>1, <2>2
<1> QED
  BY <1>1, CoordinatorInvariant, PTL DEF Spec, NoWorkerAcrossPhases

\* With versions and a safety margin as long as Margins asks for, the workers of the
\* initial run only ever work against a node of their version that is up
\* (wait_for_version_ready and the poll of run_soak_coordinator).
THEOREM WorkersFollowTheirNode ==
    ASSUME Margins
    PROVE  Spec => []WorkersMeetTheirNode
<1>1. CoordinatorInv => WorkersMeetTheirNode
  <2> SUFFICES ASSUME CoordinatorInv, phase = "initial", worker = "running",
                      nodes \notin {"gone", "failed"}
               PROVE  up /\ node = BinaryOf(idx)
    BY DEF WorkersMeetTheirNode
  <2>1. task \in Soaking
    BY DEF CoordinatorInv, TypeOK, TaskInv
  <2>2. FollowInv
    BY Margins DEF CoordinatorInv
  <2> QED
    BY <2>1, <2>2 DEF FollowInv, BinaryOf
<1> QED
  BY <1>1, CoordinatorInvariant, PTL

=============================================================================
