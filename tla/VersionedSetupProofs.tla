------------------------ MODULE VersionedSetupProofs ------------------------
(***************************************************************************)
(* Proofs about VersionedSetup, for all lists of versions and callers: it  *)
(* is a user of ArtifactCache, so that what is proved of the cache holds   *)
(* with these callers, and the binaries it prepares belong to the versions *)
(* they are returned for.                                                  *)
(***************************************************************************)
EXTENDS VersionedSetup, ArtifactCacheProofs, FiniteSetTheorems

\* A list of versions after it has been loaded.
Resolved == [source : Commits \cup {LocalHead}, migration : Migrations \cup {None}]

-----------------------------------------------------------------------------
(* Pairing artifacts with versions.                                         *)

\* A remote version is one more than there are before it.
LEMMA RemoteCounts ==
    ASSUME NEW versions \in Seq(Resolved),
           NEW a \in 0 .. Len(versions), NEW b \in 0 .. Len(versions)
    PROVE  /\ RemoteUpTo(versions, a) \in Nat
           /\ a <= b => RemoteUpTo(versions, a) <= RemoteUpTo(versions, b)
           /\ a < b /\ IsRemote(versions[b])
                => RemoteUpTo(versions, a) < RemoteUpTo(versions, b)
<1> DEFINE R(i) == {j \in 1 .. i : IsRemote(versions[j])}
<1>1. ASSUME NEW i \in 0 .. Len(versions) PROVE IsFiniteSet(R(i)) /\ Cardinality(R(i)) \in Nat
  <2>1. IsFiniteSet(1 .. i)
    BY FS_Interval
  <2>2. IsFiniteSet(R(i))
    BY <2>1, FS_Subset
  <2> QED
    BY <2>2, FS_CardinalityType
<1>2. ASSUME a <= b PROVE Cardinality(R(a)) <= Cardinality(R(b))
  <2>1. R(a) \subseteq R(b)
    BY <1>2
  <2> QED
    BY <1>1, <2>1, FS_Subset
<1>3. ASSUME a < b, IsRemote(versions[b]) PROVE Cardinality(R(a)) < Cardinality(R(b))
  <2>1. R(a) \subseteq R(b) /\ b \in R(b) /\ b \notin R(a)
    BY <1>3
  <2>2. IsFiniteSet(R(b)) /\ R(a) \in SUBSET R(b) /\ R(a) # R(b)
    BY <1>1, <2>1
  <2> HIDE DEF R
  <2>3. Cardinality(R(a)) <= Cardinality(R(b)) /\ Cardinality(R(b)) # Cardinality(R(a))
    BY <2>2, FS_Subset
  <2> QED
    BY <1>1, <2>3
<1> QED
  BY <1>1, <1>2, <1>3 DEF RemoteUpTo

\* Counting up to a remote version finds it again.
LEMMA RemoteIsFound ==
    ASSUME NEW versions \in Seq(Resolved), NEW i \in DOMAIN versions, IsRemote(versions[i])
    PROVE  /\ RemoteUpTo(versions, i) \in 1 .. RemoteUpTo(versions, Len(versions))
           /\ RemoteAt(versions, RemoteUpTo(versions, i)) = i
<1>1. Len(versions) \in Nat /\ DOMAIN versions = 1 .. Len(versions)
  OBVIOUS
<1>2. /\ RemoteUpTo(versions, 0) \in Nat /\ RemoteUpTo(versions, i) \in Nat
      /\ RemoteUpTo(versions, Len(versions)) \in Nat
      /\ RemoteUpTo(versions, 0) < RemoteUpTo(versions, i)
      /\ RemoteUpTo(versions, i) <= RemoteUpTo(versions, Len(versions))
  BY <1>1, RemoteCounts
<1>3. ASSUME NEW j \in DOMAIN versions, IsRemote(versions[j]),
             RemoteUpTo(versions, j) = RemoteUpTo(versions, i)
      PROVE  j = i
  <2>1. RemoteUpTo(versions, j) \in Nat
    BY <1>1, RemoteCounts
  <2>2. j < i => RemoteUpTo(versions, j) < RemoteUpTo(versions, i)
    BY <1>1, RemoteCounts
  <2>3. i < j => RemoteUpTo(versions, i) < RemoteUpTo(versions, j)
    BY <1>1, <1>3, RemoteCounts
  <2> QED
    BY <1>1, <1>2, <1>3, <2>1, <2>2, <2>3
<1>4. RemoteAt(versions, RemoteUpTo(versions, i)) = i
  BY <1>3 DEF RemoteAt
<1> QED
  BY <1>2, <1>4

\* prepare_rollup_binaries gives every remote version of any list the artifact of its
\* own commit, wherever the local ones are.
LEMMA DealtOut ==
    ASSUME NEW versions \in Seq(Resolved), NEW url, NEW t, NEW artifacts,
           \A p \in DOMAIN SetupJob(url, t, versions).requests :
               artifacts[p] = KeyOf(SetupJob(url, t, versions).requests[p]),
           NEW i \in DOMAIN versions, IsRemote(versions[i])
    PROVE  /\ RemoteUpTo(versions, i) \in DOMAIN SetupJob(url, t, versions).requests
           /\ PreparedVersions(versions, artifacts)[i].binary
                = artifacts[RemoteUpTo(versions, i)]
           /\ artifacts[RemoteUpTo(versions, i)]
                = [commit |-> versions[i].source, name |-> CacheName(t)]
<1> DEFINE p == RemoteUpTo(versions, i)
           requests == SetupJob(url, t, versions).requests
<1>1. p \in 1 .. RemoteUpTo(versions, Len(versions)) /\ RemoteAt(versions, p) = i
  BY RemoteIsFound
<1> HIDE DEF p
<1>2. p \in DOMAIN requests /\ requests[p] = [commit |-> versions[i].source, target |-> t]
  BY <1>1 DEF SetupJob
<1> HIDE DEF requests
<1>3. artifacts[p] = [commit |-> versions[i].source, name |-> CacheName(t)]
  BY <1>2 DEF requests, KeyOf
<1>4. PreparedVersions(versions, artifacts)[i].binary = artifacts[p]
  BY DEF PreparedVersions, p
<1> QED
  BY <1>2, <1>3, <1>4 DEF p, requests

-----------------------------------------------------------------------------
(* The list of versions.                                                    *)

\* Only the last version listed is the working tree.
LEMMA LoadedVersions ==
    ASSUME NEW s \in Seq(Entries), Loadable(s), s # None
    PROVE  /\ LoadVersions(s) \in Seq(Resolved)
           /\ Len(LoadVersions(s)) = IF s = <<>> THEN 1 ELSE Len(s)
           /\ ~IsRemote(LoadVersions(s)[Len(LoadVersions(s))])
           /\ \A i \in DOMAIN s : LoadVersions(s)[i].migration = s[i].migration
           /\ \A i \in 1 .. Len(LoadVersions(s)) - 1 :
                 /\ i \in DOMAIN s
                 /\ IsRemote(LoadVersions(s)[i])
                 /\ LoadVersions(s)[i].source = s[i].commit
<1>1. CASE s = <<>>
  <2>1. LoadVersions(s) = <<[source |-> LocalHead, migration |-> None]>>
    BY <1>1 DEF LoadVersions
  <2>2. [source |-> LocalHead, migration |-> None] \in Resolved
    BY DEF Resolved
  <2>3. LoadVersions(s) \in Seq(Resolved) /\ Len(LoadVersions(s)) = 1
    BY <2>1, <2>2
  <2>4. LoadVersions(s)[1].source = LocalHead
    BY <2>1
  <2>5. DOMAIN s = {} /\ 1 .. 1 - 1 = {}
    BY <1>1
  <2> QED
    BY <1>1, <2>3, <2>4, <2>5 DEF IsRemote
<1>2. CASE s # <<>>
  <2> DEFINE V == LoadVersions(s)
  <2>1. V = [i \in DOMAIN s |->
                [source    |-> IF i = Len(s) THEN LocalHead ELSE s[i].commit,
                 migration |-> s[i].migration]]
    BY <1>2 DEF LoadVersions
  <2>2. Len(s) \in Nat \ {0} /\ DOMAIN s = 1 .. Len(s)
    BY <1>2
  <2> HIDE DEF V
  <2>3. ASSUME NEW i \in 1 .. Len(s)
        PROVE  s[i].commit \in Commits /\ s[i].migration \in Migrations \cup {None}
    <3>1. s[i] \in Entries /\ s[i].commit # None
      BY <2>2 DEF Loadable
    <3> QED
      BY <3>1 DEF Entries
  <2>4. ASSUME NEW i \in 1 .. Len(s) PROVE V[i] \in Resolved
    <3>1. V[i] = [source    |-> IF i = Len(s) THEN LocalHead ELSE s[i].commit,
                  migration |-> s[i].migration]
      BY <2>1, <2>2
    <3> QED
      BY <2>3, <3>1 DEF Resolved
  <2>5. V \in Seq(Resolved) /\ Len(V) = Len(s)
    <3>1. \A n \in Nat : V \in [1 .. n -> Resolved] => V \in Seq(Resolved) /\ Len(V) = n
      OBVIOUS
    <3>2. V \in [1 .. Len(s) -> Resolved]
      BY <2>1, <2>2, <2>4
    <3> QED
      BY <2>2, <3>1, <3>2
  <2>6. ~IsRemote(V[Len(s)])
    BY <2>1, <2>2 DEF IsRemote
  <2>7. \A i \in 1 .. Len(s) : V[i].migration = s[i].migration
    BY <2>1
  <2>8. ASSUME NEW i \in 1 .. Len(s) - 1
        PROVE  i \in DOMAIN s /\ IsRemote(V[i]) /\ V[i].source = s[i].commit
    <3>1. \A n \in Nat : \A k \in 1 .. n - 1 : k \in 1 .. n /\ k # n
      OBVIOUS
    <3>2. i \in 1 .. Len(s) /\ i # Len(s)
      BY <2>2, <3>1
    <3> QED
      BY <2>1, <2>2, <2>3, <3>2, SpecsAssumption DEF IsRemote
  <2> QED
    BY <1>2, <2>2, <2>5, <2>6, <2>7, <2>8 DEF V
<1> QED
  BY <1>1, <1>2

-----------------------------------------------------------------------------
(* The callers are users of the cache.                                      *)

LEMMA CallersStep == [Next]_allVars => [CacheNext]_vars
<1> SUFFICES ASSUME [Next]_allVars PROVE [CacheNext]_vars
  OBVIOUS
<1>1. CASE CallBuilder
  BY <1>1, CallsAssumption DEF CallBuilder, CacheNext
<1>2. CASE SetUp
  BY <1>2, CallsAssumption DEF SetUp, CacheNext
<1>3. CASE (Step \/ ReadTextFile) /\ UNCHANGED setupVars
  BY <1>3 DEF CacheNext
<1>4. CASE BuildLocal \/ BuildLocalFails \/ TestCaseFails \/ CallReturns
  BY <1>4 DEF BuildLocal, BuildLocalFails, TestCaseFails, CallReturns, CacheNext
<1>5. CASE UNCHANGED allVars
  BY <1>5 DEF allVars
<1> QED
  BY <1>1, <1>2, <1>3, <1>4, <1>5 DEF Next

\* prepare_artifacts, prepare_rollup_binaries and run_test_case do nothing to the cache
\* but to ask the builder for their jobs' binaries: what is proved of ArtifactCache
\* holds with these callers.
THEOREM CallersUseCache == Spec => CacheSpec
<1>1. Init => CacheInit
  BY DEF Init
<1> QED
  BY <1>1, CallersStep, PTL DEF Spec, CacheSpec

\* Complete cached binaries are of their own commit, whichever callers took turns.
THEOREM SetupCacheSafe == Spec => []CacheHoldsOwnCommit
BY CallersUseCache, CacheSafe, PTL

\* To all the callers, the cache is a write-once store.
THEOREM SetupStoreRefinement == Spec => ImplementsBinaryStore
BY CallersUseCache, StoreRefinement, PTL

-----------------------------------------------------------------------------
(* The versions get their binaries.                                         *)

\* A process that runs has nothing prepared, and one that has ended keeps its job.
LEMMA RunsKeepLists ==
    ASSUME Step \/ ReadTextFile
    PROVE  /\ job' = job
           /\ at = "down" => at' = "down" /\ got' = got
<1>1. CASE ReadTextFile
  BY <1>1 DEF ReadTextFile
<1>2. CASE Step
  BY <1>2
     DEF Step, Command, AllPrepared, TargetDisabled, UseCached, StartBuilding, Killed,
         Clone, CloneFails, Fetch, FetchFails, Checkout, CheckoutFails, Build, BuildFails,
         StartCopy, EndCopy, CopyFails, Goto, Return, Fail, FailOnItsOwn, FailByChance
<1> QED
  BY <1>1, <1>2

LEMMA SetupStep ==
    ASSUME SetupInv, [Next]_allVars PROVE SetupInv'
<1> USE DEF setupVars
<1>1. CacheInv' /\ HandedOut'
  BY CallersStep, NextInv, HandedOutStep DEF SetupInv
<1>2. ListInv /\ PreparedInv /\ HandedOut
  BY DEF SetupInv
<1>3. SUFFICES ListInv' /\ PreparedInv'
  BY <1>1 DEF SetupInv
<1>4. CASE CallBuilder
  BY <1>4 DEF CallBuilder, ListInv, PreparedInv
<1>5. CASE SetUp
  <2>1. PICK s \in VersionSpecs, url \in SetupUrls, t \in SetupTargets :
             /\ Loadable(s) /\ StartJob(SetupJob(url, t, LoadVersions(s)))
             /\ spec' = IF s = None THEN <<>> ELSE s
             /\ setupTarget' = t
    BY <1>5 DEF SetUp
  <2>2. /\ job' = SetupJob(url, t, LoadVersions(s)) /\ job' # None
        /\ job'.requests = SetupJob(job'.url, setupTarget', LoadVersions(s)).requests
    BY <2>1, CallsAssumption, NoneAssumption DEF StartJob, SetupJob
  <2>3. LoadVersions(spec') = LoadVersions(s)
    BY <2>1 DEF LoadVersions
  <2>4. spec' \in Seq(Entries) /\ Loadable(spec')
    BY <2>1, SpecsAssumption DEF Loadable
  <2>5. ListInv'
    BY <2>2, <2>3, <2>4 DEF ListInv
  <2>6. PreparedInv'
    BY <1>5 DEF SetUp, PreparedInv
  <2> QED
    BY <2>5, <2>6
<1>6. CASE (Step \/ ReadTextFile) /\ UNCHANGED setupVars
  BY <1>2, <1>6, RunsKeepLists DEF ListInv, PreparedInv
<1>7. CASE BuildLocal
  <2>1. /\ at = "returned" /\ at' = "down" /\ spec # None /\ UNCHANGED <<job, got, spec, setupTarget>>
        /\ prepared' = PreparedVersions(LoadVersions(spec), got)
    BY <1>7 DEF BuildLocal, JobDone
  <2>2. Len(got) = Len(job.requests)
    BY <1>2, <2>1 DEF ListInv, HandedOut
  <2> QED
    BY <1>2, <2>1, <2>2 DEF ListInv, PreparedInv
<1>8. CASE BuildLocalFails \/ TestCaseFails \/ CallReturns
  <2>1. at # "down" /\ UNCHANGED <<job, spec, setupTarget, prepared>>
    BY <1>8 DEF BuildLocalFails, TestCaseFails, CallReturns, CallerFails, FailByChance, Fail,
                JobDone
  <2> QED
    BY <1>2, <2>1 DEF ListInv, PreparedInv
<1>9. CASE UNCHANGED allVars
  BY <1>2, <1>9 DEF allVars, vars, ListInv, PreparedInv
<1> QED
  BY <1>4, <1>5, <1>6, <1>7, <1>8, <1>9 DEF Next

\* What a caller has asked for, got and made of it belongs together.
THEOREM SetupInvariant == Spec => []SetupInv
<1>1. Init => SetupInv
  BY InitInv DEF Init, CacheInit, SetupInv, HandedOut, ListInv, PreparedInv
<1>2. SetupInv /\ [Next]_allVars => SetupInv'
  BY SetupStep
<1> QED
  BY <1>1, <1>2, PTL DEF Spec

LEMMA PreparedForVersions ==
    ASSUME SetupInv PROVE VersionsGetTheirBinaries
<1> SUFFICES ASSUME prepared # <<>> PROVE VersionsGetTheirBinaries
  BY DEF VersionsGetTheirBinaries
<1> DEFINE V == LoadVersions(spec)
           n == Len(V)
           requests == SetupJob(job.url, setupTarget, V).requests
<1>1. /\ spec \in Seq(Entries) /\ Loadable(spec) /\ spec # None
      /\ job # None /\ job.requests = requests
      /\ Len(got) = Len(job.requests)
      /\ prepared = PreparedVersions(V, got)
  BY DEF SetupInv, ListInv, PreparedInv
<1>2. /\ V \in Seq(Resolved)
      /\ n = IF spec = <<>> THEN 1 ELSE Len(spec)
      /\ ~IsRemote(V[n])
      /\ \A i \in DOMAIN spec : V[i].migration = spec[i].migration
      /\ \A i \in 1 .. n - 1 :
            i \in DOMAIN spec /\ IsRemote(V[i]) /\ V[i].source = spec[i].commit
  BY <1>1, LoadedVersions
<1> HIDE DEF V, requests
<1>3. n \in Nat \ {0} /\ DOMAIN V = 1 .. n /\ DOMAIN spec \subseteq 1 .. n
  <2>1. n \in Nat /\ DOMAIN V = 1 .. n
    <3>1. V \in Seq(Resolved)
      BY <1>2
    <3> QED
      BY <3>1
  <2>2. CASE spec = <<>>
    <3>1. n = 1 /\ DOMAIN spec = {}
      BY <1>2, <2>2
    <3> QED
      BY <2>1, <3>1
  <2>3. CASE spec # <<>>
    BY <1>1, <1>2, <2>1, <2>3
  <2> QED
    BY <2>2, <2>3
<1> HIDE DEF n
<1>4. Len(prepared) = n
  <2>1. prepared = [i \in 1 .. n |-> prepared[i]]
    BY <1>1, <1>3 DEF PreparedVersions
  <2>2. prepared \in [1 .. n -> {prepared[i] : i \in 1 .. n}]
    BY <2>1
  <2> QED
    BY <1>3, <2>2
<1>5. \A i \in 1 .. n : prepared[i].migration = V[i].migration
  BY <1>1, <1>3 DEF PreparedVersions
<1>6. prepared[n].binary = LocalHead
  BY <1>1, <1>2, <1>3 DEF PreparedVersions
\* The binaries that came back are those of the requests.
<1>7. /\ DOMAIN requests = DOMAIN got
      /\ \A p \in DOMAIN requests : /\ got[p] = KeyOf(requests[p])
                                    /\ got[p] \in Keys /\ cache[got[p]] # None
  <2>1. got \in Seq(Keys) /\ requests \in Seq(Requests)
    BY <1>1, JobsAssumption DEF SetupInv, CacheInv, TypeOK
  <2>2. DOMAIN requests = DOMAIN got
    BY <1>1, <2>1
  <2> QED
    BY <1>1, <2>1, <2>2 DEF SetupInv, HandedOut
<1>8. ASSUME NEW i \in 1 .. n - 1
      PROVE  LET binary == prepared[i].binary
             IN  /\ binary = [commit |-> spec[i].commit, name |-> CacheName(setupTarget)]
                 /\ cache[binary] \in BuildsFor(binary) \cup {Torn}
  <2> DEFINE p == RemoteUpTo(V, i)
  <2>1. i \in DOMAIN V /\ IsRemote(V[i]) /\ V[i].source = spec[i].commit
    BY <1>2, <1>3
  <2>2. /\ p \in DOMAIN requests
        /\ prepared[i].binary = got[p]
        /\ got[p] = [commit |-> V[i].source, name |-> CacheName(setupTarget)]
    BY <1>1, <1>2, <1>7, <2>1, DealtOut DEF requests
  <2> HIDE DEF p
  <2>3. cache[got[p]] \in BuildsFor(got[p]) \cup {Torn}
    BY <1>7, <2>2 DEF SetupInv, CacheInv, CacheHoldsOwnCommit
  <2> QED
    BY <2>1, <2>2, <2>3
<1> QED
  BY <1>2, <1>3, <1>4, <1>5, <1>6, <1>8 DEF VersionsGetTheirBinaries

\* prepare_rollup_binaries returns for every version but the last a binary of its own
\* commit and for the last one the working tree's, each with its version's migration.
THEOREM VersionsPrepared == Spec => []VersionsGetTheirBinaries
<1>1. SetupInv => VersionsGetTheirBinaries
  BY PreparedForVersions
<1> QED
  BY <1>1, SetupInvariant, PTL

=============================================================================
