------------------------ MODULE ArtifactCacheProofs ------------------------
(***************************************************************************)
(* Proofs about ArtifactCache, for all repositories, targets and jobs: the *)
(* inductive invariant, that a complete cached binary is one of its own    *)
(* commit, and that the cache is a write-once store.                       *)
(***************************************************************************)
EXTENDS ArtifactCache, TLAPS

LEMMA InitInv == CacheInit => CacheInv
<1> SUFFICES ASSUME CacheInit PROVE CacheInv
  OBVIOUS
<1> USE DEF CacheInit
<1>1. TypeOK
  <2>1. <<>> \in Seq(Keys)
    OBVIOUS
  <2>2. runs \in 0 .. MaxRuns
    BY NoneAssumption
  <2> QED
    BY <2>1, <2>2 DEF TypeOK
<1>2. RequestInv /\ CheckoutInv
  BY DEF RequestInv, CheckoutInv, InRepo
<1>3. WriterInv /\ CacheHoldsOwnCommit
  BY DEF WriterInv, CacheHoldsOwnCommit
<1> QED
  BY <1>1, <1>2, <1>3 DEF CacheInv

\* What is asked for is one of the job's requests, and its key is a key.
LEMMA RequestType ==
  ASSUME TypeOK, job # None, Len(got) <= Len(job.requests), Asked
  PROVE  /\ Request \in Requests
         /\ Request.target # None =>
              /\ Key \in Keys
              /\ Request.target.bin \in Bins
              /\ [commit |-> Request.commit, target |-> Request.target] \in BuildsFor(Key)
<1>1. job \in Jobs /\ job.requests \in Seq(Requests) /\ got \in Seq(Keys)
  BY JobsAssumption DEF TypeOK
<1>2. Len(got) + 1 \in 1 .. Len(job.requests)
  BY <1>1 DEF Asked
<1>3. Request \in Requests
  BY <1>1, <1>2 DEF Request
<1>4. ASSUME Request.target # None
      PROVE  /\ Key \in Keys
             /\ Request.target.bin \in Bins
             /\ [commit |-> Request.commit, target |-> Request.target] \in BuildsFor(Key)
  <2>1. Request.target \in Targets /\ Request.commit \in Commits
    BY <1>3, <1>4 DEF Requests
  <2> QED
    BY <2>1 DEF Key, KeyOf, Keys, Bins, BuildsFor, Builds
<1> QED
  BY <1>3, <1>4

-----------------------------------------------------------------------------
(* Steps that leave the cache and the checkout of the builder alone.        *)

\* A process starts, ends, or is told to stop: nobody works in the checkout
\* afterwards.
LEMMA LeavesRepo ==
  ASSUME CacheInv, TypeOK', RequestInv', at' \notin InRepo, UNCHANGED cache
  PROVE  CacheInv'
<1>1. CheckoutInv' /\ WriterInv'
  BY DEF CheckoutInv, WriterInv, InRepo
<1>2. CacheHoldsOwnCommit'
  BY DEF CacheInv, CacheHoldsOwnCommit
<1> QED
  BY <1>1, <1>2 DEF CacheInv

LEMMA StartJobInv ==
  ASSUME CacheInv, NEW j \in Jobs, StartJob(j) PROVE CacheInv'
<1> USE DEF StartJob, repoVars
<1>1. TypeOK'
  <2>1. <<>> \in Seq(Keys)
    OBVIOUS
  <2>2. runs' \in 0 .. MaxRuns
    BY NoneAssumption DEF CacheInv, TypeOK
  <2> QED
    BY <2>1, <2>2 DEF CacheInv, TypeOK
<1>2. job'.requests \in Seq(Requests) /\ Len(got') = 0 /\ job' # None
  BY JobsAssumption, NoneAssumption
<1>3. RequestInv'
  BY <1>2 DEF RequestInv, InRepo
<1> QED
  BY <1>1, <1>3, LeavesRepo DEF InRepo

LEMMA FailInv ==
  ASSUME CacheInv, Fail, fault' \in BOOLEAN, UNCHANGED <<repoVars, built, cache>>
  PROVE  CacheInv'
<1> USE DEF Fail, repoVars
<1>1. TypeOK'
  BY DEF CacheInv, TypeOK
<1>2. RequestInv'
  BY DEF RequestInv, InRepo
<1> QED
  BY <1>1, <1>2, LeavesRepo DEF InRepo

LEMMA EndsInv ==
  ASSUME CacheInv, JobDone \/ AllPrepared PROVE CacheInv'
<1> USE DEF JobDone, AllPrepared, Goto, repoVars
<1>1. TypeOK'
  BY DEF CacheInv, TypeOK
<1>2. RequestInv'
  BY DEF CacheInv, RequestInv, InRepo, Asked
<1> QED
  BY <1>1, <1>2, LeavesRepo DEF InRepo

LEMMA KilledInv ==
  ASSUME CacheInv, Killed PROVE CacheInv'
<1> USE DEF Killed
<1>1. repo' \in Clones \cup {None}
  BY JobsAssumption DEF CacheInv, TypeOK, RequestInv, Clones
<1>2. head' \in Commits \cup {None} /\ locked' \in BOOLEAN
  <2>1. CASE at = "checkout" /\ CanCheckOut
    BY <2>1, RequestType DEF CacheInv, TypeOK, RequestInv, InRepo, Requests
  <2> QED
    BY <2>1 DEF CacheInv, TypeOK
<1>3. TypeOK'
  BY <1>1, <1>2 DEF CacheInv, TypeOK
<1>4. RequestInv'
  BY DEF RequestInv, InRepo
<1>5. at' \notin InRepo /\ UNCHANGED cache
  BY DEF InRepo
<1> QED
  BY <1>3, <1>4, <1>5, LeavesRepo

LEMMA ReadTextFileInv ==
  ASSUME CacheInv, ReadTextFile PROVE CacheInv'
<1> USE DEF ReadTextFile
<1>1. repo' \in Clones \cup {None}
  BY DEF CacheInv, TypeOK, Clones
<1>2. runs' \in 0 .. MaxRuns
  BY NoneAssumption DEF CacheInv, TypeOK
<1>3. TypeOK'
  BY <1>1, <1>2 DEF CacheInv, TypeOK
<1>4. RequestInv'
  BY DEF RequestInv, InRepo
<1> QED
  BY <1>3, <1>4, LeavesRepo DEF InRepo

-----------------------------------------------------------------------------
(* Steps of get_target_binary.                                              *)

\* The key is added to what the caller gets, and the next request is looked at.
LEMMA ReturnInv ==
  ASSUME CacheInv, Return, at \in InRepo \cup {"check"}, Asked, Request.target # None,
         UNCHANGED <<repoVars, built>>, cache' \in [Keys -> Builds \cup {None, Torn}],
         CacheHoldsOwnCommit'
  PROVE  CacheInv'
<1> USE DEF Return, repoVars
<1>1. job # None /\ Len(got) <= Len(job.requests) /\ Key \in Keys
  BY RequestType DEF CacheInv, RequestInv, InRepo
<1>2. TypeOK'
  BY <1>1 DEF CacheInv, TypeOK
<1>3. /\ job.requests \in Seq(Requests) /\ got \in Seq(Keys)
      /\ Len(got') = Len(got) + 1
  BY <1>1, JobsAssumption DEF CacheInv, TypeOK
<1>4. RequestInv'
  BY <1>1, <1>3 DEF RequestInv, Asked, InRepo
<1>5. CheckoutInv' /\ WriterInv'
  BY DEF CheckoutInv, WriterInv, InRepo
<1> QED
  BY <1>2, <1>4, <1>5 DEF CacheInv

LEMMA UseCachedInv ==
  ASSUME CacheInv, UseCached PROVE CacheInv'
<1>1. CacheHoldsOwnCommit' /\ cache' \in [Keys -> Builds \cup {None, Torn}]
  BY DEF CacheInv, TypeOK, UseCached, CacheHoldsOwnCommit
<1> QED
  BY <1>1, ReturnInv DEF UseCached

\* On to another step for the same request: its parts of the invariant are left.
LEMMA GotoInv ==
  ASSUME CacheInv, NEW step \in InRepo, Goto(step), TypeOK', at \in InRepo \cup {"check"},
         Asked, Request.target # None, CheckoutInv', WriterInv', CacheHoldsOwnCommit'
  PROVE  CacheInv'
<1>1. RequestInv'
  BY DEF Goto, CacheInv, RequestInv, InRepo, Asked, Request
<1> QED
  BY <1>1 DEF CacheInv

LEMMA StartBuildingInv ==
  ASSUME CacheInv, StartBuilding PROVE CacheInv'
<1> USE DEF StartBuilding, Goto, repoVars
<1>1. TypeOK'
  BY DEF CacheInv, TypeOK, InRepo
<1>2. CheckoutInv' /\ WriterInv'
  BY DEF CheckoutInv, WriterInv, InRepo, Miss, Key, Request
<1>3. CacheHoldsOwnCommit'
  BY DEF CacheInv, CacheHoldsOwnCommit
<1>4. "ensure" \in InRepo /\ at \in InRepo \cup {"check"}
  BY DEF InRepo
<1> QED
  BY <1>1, <1>2, <1>3, <1>4, GotoInv

LEMMA EnsureInv ==
  ASSUME CacheInv, Clone \/ Fetch PROVE CacheInv'
<1> USE DEF Clone, Fetch, Goto
<1>1. repo' \in Clones
  <2>1. job.url \in Urls
    BY JobsAssumption DEF CacheInv, TypeOK, RequestInv
  <2>2. CASE Clone
    BY <2>1, <2>2 DEF Clones
  <2>3. CASE Fetch
    <3>1. repo \in Clones /\ repo' \in {repo, [repo EXCEPT !.whole = TRUE]}
      BY <2>3 DEF CacheInv, TypeOK
    <3> QED
      BY <3>1 DEF Clones
  <2> QED
    BY <2>2, <2>3
<1>2. TypeOK'
  BY <1>1 DEF CacheInv, TypeOK, InRepo
<1>3. repo' # None
  BY <1>1, NoneAssumption
<1>4. CheckoutInv' /\ WriterInv'
  BY <1>1, <1>3 DEF CacheInv, CheckoutInv, WriterInv, InRepo, Key, Request
<1>5. CacheHoldsOwnCommit'
  BY DEF CacheInv, CacheHoldsOwnCommit
<1>6. Asked /\ Request.target # None
  BY DEF CacheInv, RequestInv, InRepo
<1> QED
  BY <1>2, <1>4, <1>5, <1>6, GotoInv DEF InRepo

LEMMA CheckoutStepInv ==
  ASSUME CacheInv, Checkout PROVE CacheInv'
<1> USE DEF Checkout, Goto
<1>1. Asked /\ Request.target # None /\ Request \in Requests
  BY RequestType DEF CacheInv, RequestInv, InRepo
<1>2. TypeOK'
  BY <1>1 DEF CacheInv, TypeOK, InRepo, Requests
<1>3. CheckoutInv' /\ WriterInv'
  BY DEF CacheInv, CheckoutInv, WriterInv, InRepo, Key, Request, CanCheckOut
<1>4. CacheHoldsOwnCommit'
  BY DEF CacheInv, CacheHoldsOwnCommit
<1> QED
  BY <1>1, <1>2, <1>3, <1>4, GotoInv DEF InRepo

LEMMA BuildInv ==
  ASSUME CacheInv, Build PROVE CacheInv'
<1> USE DEF Build, Goto, repoVars
<1>1. /\ Asked /\ Request.target # None /\ Request.target.bin \in Bins
      /\ [commit |-> Request.commit, target |-> Request.target] \in Builds
      /\ head = Request.commit
  BY RequestType DEF CacheInv, RequestInv, CheckoutInv, InRepo, BuildsFor
<1>2. TypeOK'
  BY <1>1 DEF CacheInv, TypeOK, InRepo
<1>3. Request' = Request /\ Key' = Key
  BY DEF Request, Key
<1>4. built'[Request.target.bin] = [commit |-> head, target |-> Request.target]
  BY <1>1 DEF CacheInv, TypeOK
<1>5. CheckoutInv' /\ WriterInv'
  BY <1>1, <1>3, <1>4 DEF CacheInv, CheckoutInv, WriterInv, InRepo
<1>6. CacheHoldsOwnCommit'
  BY DEF CacheInv, CacheHoldsOwnCommit
<1> QED
  BY <1>1, <1>2, <1>5, <1>6, GotoInv DEF InRepo

LEMMA StartCopyInv ==
  ASSUME CacheInv, StartCopy PROVE CacheInv'
<1> USE DEF StartCopy, Goto, repoVars
<1>1. Asked /\ Request.target # None /\ Key \in Keys
  BY RequestType DEF CacheInv, RequestInv, InRepo
<1>2. TypeOK'
  BY <1>1 DEF CacheInv, TypeOK, InRepo
<1>3. Request' = Request /\ Key' = Key
  BY DEF Request, Key
<1>4. cache'[Key] = Torn
  BY <1>1 DEF CacheInv, TypeOK
<1>5. CheckoutInv' /\ WriterInv'
  BY <1>3, <1>4 DEF CacheInv, CheckoutInv, WriterInv, InRepo
<1>6. CacheHoldsOwnCommit'
  BY DEF CacheInv, TypeOK, CacheHoldsOwnCommit
<1> QED
  BY <1>1, <1>2, <1>5, <1>6, GotoInv DEF InRepo

\* What is copied is the build of the key: it was made from the commit that is
\* checked out, and that is the one asked for.
LEMMA BuiltIsOwn ==
  ASSUME CacheInv, at = "copying"
  PROVE  /\ Asked /\ Request.target # None /\ Key \in Keys
         /\ built[Request.target.bin] \in BuildsFor(Key)
BY RequestType DEF CacheInv, RequestInv, CheckoutInv, InRepo

LEMMA EndCopyInv ==
  ASSUME CacheInv, EndCopy PROVE CacheInv'
<1> USE DEF EndCopy
<1>1. /\ Asked /\ Request.target # None /\ Key \in Keys
      /\ built[Request.target.bin] \in BuildsFor(Key)
  BY BuiltIsOwn
<1>2. cache' \in [Keys -> Builds \cup {None, Torn}]
  BY <1>1 DEF CacheInv, TypeOK, BuildsFor
<1>3. CacheHoldsOwnCommit'
  BY <1>1 DEF CacheInv, TypeOK, CacheHoldsOwnCommit
<1> QED
  BY <1>1, <1>2, <1>3, ReturnInv DEF InRepo

LEMMA FailsInv ==
  ASSUME CacheInv,
         \/ CallerFails \/ TargetDisabled \/ CloneFails \/ FetchFails
         \/ CheckoutFails \/ BuildFails \/ CopyFails
  PROVE  CacheInv'
<1>1. Fail /\ fault' \in BOOLEAN /\ UNCHANGED <<repoVars, built, cache>>
  BY DEF CallerFails, TargetDisabled, CloneFails, FetchFails, CheckoutFails, BuildFails,
         CopyFails, FailOnItsOwn, FailByChance, CacheInv, TypeOK
<1> QED
  BY <1>1, FailInv

-----------------------------------------------------------------------------
LEMMA NextInv ==
  ASSUME CacheInv, [CacheNext]_vars PROVE CacheInv'
<1>1. CASE UNCHANGED vars
  BY <1>1 DEF vars, repoVars, CacheInv, TypeOK, RequestInv, CheckoutInv, WriterInv,
              CacheHoldsOwnCommit, Asked, Request, Key
<1>2. CASE \E j \in Jobs : StartJob(j)
  BY <1>2, StartJobInv
<1>3. CASE JobDone \/ AllPrepared
  BY <1>3, EndsInv
<1>4. CASE ReadTextFile
  BY <1>4, ReadTextFileInv
<1>5. CASE Killed
  BY <1>5, KilledInv
<1>6. CASE UseCached
  BY <1>6, UseCachedInv
<1>7. CASE StartBuilding
  BY <1>7, StartBuildingInv
<1>8. CASE Clone \/ Fetch
  BY <1>8, EnsureInv
<1>9. CASE Checkout
  BY <1>9, CheckoutStepInv
<1>10. CASE Build
  BY <1>10, BuildInv
<1>11. CASE StartCopy
  BY <1>11, StartCopyInv
<1>12. CASE EndCopy
  BY <1>12, EndCopyInv
<1>13. CASE \/ CallerFails \/ TargetDisabled \/ CloneFails \/ FetchFails
            \/ CheckoutFails \/ BuildFails \/ CopyFails
  BY <1>13, FailsInv
<1> QED
  BY <1>1, <1>2, <1>3, <1>4, <1>5, <1>6, <1>7, <1>8, <1>9, <1>10, <1>11, <1>12, <1>13
  DEF CacheNext, Step, Command

\* The inductive invariant holds in every reachable state: the builder's view of
\* the checkout, of target/release and of the cache agrees with what is there.
THEOREM IInvHolds == CacheSpec => []CacheInv
<1>1. CacheInit => CacheInv
  BY InitInv
<1>2. CacheInv /\ [CacheNext]_vars => CacheInv'
  BY NextInv
<1> QED
  BY <1>1, <1>2, PTL DEF CacheSpec

\* A complete cached binary was built from the commit it is cached under.
THEOREM CacheSafe == CacheSpec => []CacheHoldsOwnCommit
<1>1. CacheInv => CacheHoldsOwnCommit
  BY DEF CacheInv
<1> QED
  BY <1>1, IInvHolds, PTL

-----------------------------------------------------------------------------
(* What is handed out.                                                      *)

\* Nothing but the copying of a build writes to the cache.
LEMMA OnlyCopyWrites ==
  ASSUME CacheNext, ~StartCopy, ~EndCopy
  PROVE  cache' = cache /\ at' # "copying"
BY DEF CacheNext, Step, Command, StartJob, JobDone, CallerFails, ReadTextFile,
   AllPrepared, TargetDisabled, UseCached, StartBuilding, Killed, Clone, CloneFails, Fetch,
   FetchFails, Checkout, CheckoutFails, Build, BuildFails, CopyFails, Goto, Return, Fail,
   FailOnItsOwn, FailByChance

\* Nothing is ever removed from the cache.
LEMMA CacheKeeps ==
  ASSUME CacheInv, [CacheNext]_vars, NEW k \in Keys, cache[k] # None
  PROVE  cache'[k] # None
<1>1. CASE StartCopy
  BY <1>1, NoneAssumption DEF StartCopy, CacheInv, TypeOK
<1>2. CASE EndCopy
  <2>1. built[Request.target.bin] # None
    BY <1>2, BuiltIsOwn, NoneAssumption DEF EndCopy, BuildsFor
  <2> QED
    BY <1>2, <2>1 DEF EndCopy, CacheInv, TypeOK
<1>3. CASE UNCHANGED vars
  BY <1>3 DEF vars
<1> QED
  BY <1>1, <1>2, <1>3, OnlyCopyWrites

LEMMA HandedOutStep ==
  ASSUME CacheInv, HandedOut, [CacheNext]_vars PROVE HandedOut'
<1>1. /\ got \in Seq(Keys) /\ DOMAIN got = 1 .. Len(got) /\ Len(got) \in Nat
      /\ job # None => Len(job.requests) \in Nat
  BY JobsAssumption DEF CacheInv, TypeOK
<1>2. \A i \in DOMAIN got : cache[got[i]] # None => cache'[got[i]] # None
  BY <1>1, CacheKeeps
<1>3. ASSUME UNCHANGED <<job, got>>, at' # "returned" PROVE HandedOut'
  BY <1>2, <1>3 DEF HandedOut
<1>4. CASE \E j \in Jobs : StartJob(j)
  <2>1. PICK j \in Jobs : StartJob(j)
    BY <1>4
  <2>2. got' = <<>> /\ at' = "check" /\ Len(job'.requests) \in Nat
    BY <2>1, JobsAssumption DEF StartJob
  <2> QED
    BY <2>2 DEF HandedOut
<1>5. CASE AllPrepared
  <2>1. job # None /\ Len(got) <= Len(job.requests) /\ UNCHANGED <<job, got, cache>>
    BY <1>5 DEF AllPrepared, Goto, CacheInv, RequestInv
  <2>2. Len(got) = Len(job.requests)
    BY <1>1, <1>5, <2>1 DEF AllPrepared, Asked
  <2> QED
    BY <2>1, <2>2 DEF HandedOut
\* The binary asked for is there when its key is returned.
<1>6. ASSUME Return, Asked, Request.target # None, Key \in Keys, cache'[Key] # None,
             job # None
      PROVE  HandedOut'
  <2>1. got' = Append(got, Key) /\ job' = job /\ at' = "check"
    BY <1>6 DEF Return
  <2>2. /\ Len(got') = Len(got) + 1 /\ DOMAIN got' = 1 .. Len(got) + 1
        /\ \A i \in 1 .. Len(got) : got'[i] = got[i]
        /\ got'[Len(got) + 1] = Key
    BY <1>1, <1>6, <2>1
  <2>3. Len(got') <= Len(job.requests)
    BY <1>1, <1>6, <2>2 DEF Asked
  <2>4. ASSUME NEW i \in 1 .. Len(got) + 1
        PROVE  /\ job.requests[i].target # None
               /\ got'[i] = KeyOf(job.requests[i])
               /\ cache'[got'[i]] # None
    <3>1. CASE i = Len(got) + 1
      BY <1>6, <2>2, <3>1 DEF Key, Request
    <3>2. CASE i # Len(got) + 1
      <4>1. i \in DOMAIN got
        BY <1>1, <3>2
      <4> QED
        BY <1>1, <1>2, <1>6, <2>2, <4>1 DEF HandedOut
    <3> QED
      BY <3>1, <3>2
  <2> QED
    BY <2>1, <2>2, <2>3, <2>4 DEF HandedOut
<1>7. CASE UseCached
  <2>1. Key \in Keys /\ job # None
    BY <1>7, RequestType DEF UseCached, CacheInv, RequestInv
  <2> QED
    BY <1>6, <1>7, <2>1 DEF UseCached, Miss
<1>8. CASE EndCopy
  <2>1. /\ Asked /\ Request.target # None /\ Key \in Keys
        /\ built[Request.target.bin] # None
    BY <1>8, BuiltIsOwn, NoneAssumption DEF EndCopy, BuildsFor
  <2>2. cache'[Key] # None /\ job # None
    BY <1>8, <2>1 DEF EndCopy, CacheInv, TypeOK, RequestInv, InRepo
  <2> QED
    BY <1>6, <1>8, <2>1, <2>2 DEF EndCopy
<1>9. CASE UNCHANGED vars
  BY <1>9 DEF vars, HandedOut
<1>10. ASSUME CacheNext, ~(\E j \in Jobs : StartJob(j)), ~AllPrepared, ~UseCached, ~EndCopy
       PROVE  UNCHANGED <<job, got>> /\ at' # "returned"
  BY <1>10
     DEF CacheNext, Step, Command, JobDone, CallerFails, ReadTextFile, TargetDisabled,
         StartBuilding, Killed, Clone, CloneFails, Fetch, FetchFails, Checkout,
         CheckoutFails, Build, BuildFails, StartCopy, CopyFails, Goto, Fail, FailOnItsOwn,
         FailByChance
<1> QED
  BY <1>3, <1>4, <1>5, <1>7, <1>8, <1>9, <1>10

\* A caller gets one binary for each of its requests, in their order, and none of
\* them leaves the cache.
THEOREM RequestsAreAnswered == CacheSpec => []HandedOut
<1>1. CacheInit => HandedOut
  BY DEF CacheInit, HandedOut
<1>2. CacheInv /\ HandedOut /\ [CacheNext]_vars => HandedOut'
  BY HandedOutStep
<1> QED
  BY <1>1, <1>2, IInvHolds, PTL DEF CacheSpec

-----------------------------------------------------------------------------
(* The refinement.                                                          *)

LEMMA StoreInit == CacheInit => Store!Init
BY DEF CacheInit, Store!Init

LEMMA StoreStep ==
  ASSUME CacheInv, [CacheNext]_vars PROVE [Store!Next]_(Store!vars)
<1> DEFINE writing == IF at = "copying" THEN Key ELSE None
<1>1. CASE StartCopy
  <2>1. Key \in Keys /\ Key' = Key
    BY <1>1, RequestType DEF StartCopy, Goto, CacheInv, RequestInv, InRepo, Key, Request
  <2>2. cache[Key] = None
    BY <1>1 DEF StartCopy, CacheInv, WriterInv
  <2>3. writing = None /\ writing' = Key
    BY <1>1, <2>1 DEF StartCopy, Goto
  <2>4. Store!Begin
    BY <1>1, <2>1, <2>2, <2>3 DEF StartCopy, Store!Begin
  <2> QED
    BY <2>4 DEF Store!Next
<1>2. CASE EndCopy
  <2>1. Key \in Keys /\ built[Request.target.bin] \in BuildsFor(Key)
    BY <1>2, BuiltIsOwn DEF EndCopy
  <2>2. writing = Key /\ writing' = None /\ Key # None
    BY <1>2, <2>1, NoneAssumption DEF EndCopy, Return
  <2>3. Store!Complete
    BY <1>2, <2>1, <2>2 DEF EndCopy, Store!Complete
  <2> QED
    BY <2>3 DEF Store!Next
<1>3. CASE cache' = cache /\ at = "copying" /\ at' # "copying"
  <2>1. Key \in Keys
    BY <1>3, BuiltIsOwn
  <2>2. Store!CutOff
    BY <1>3, <2>1, NoneAssumption DEF Store!CutOff
  <2> QED
    BY <2>2 DEF Store!Next
<1>4. CASE cache' = cache /\ at # "copying" /\ at' # "copying"
  BY <1>4 DEF Store!vars
<1>5. CASE UNCHANGED vars
  BY <1>5 DEF vars, Store!vars, Key, Request
<1> QED
  BY <1>1, <1>2, <1>3, <1>4, <1>5, OnlyCopyWrites

\* To those who use it the cache is a write-once store: an entry is written by one
\* builder, from a build of its own commit, and never again.
THEOREM StoreRefinement == CacheSpec => ImplementsBinaryStore
<1>1. CacheInit => Store!Init
  BY StoreInit
<1>2. CacheInv /\ [CacheNext]_vars => [Store!Next]_(Store!vars)
  BY StoreStep
<1> QED
  BY <1>1, <1>2, IInvHolds, PTL DEF CacheSpec, ImplementsBinaryStore, Store!Spec

=============================================================================
