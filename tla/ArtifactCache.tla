--------------------------- MODULE ArtifactCache ---------------------------
(***************************************************************************)
(* RollupBuilder (src/crates/sov-versioned-artifact-builder/src/lib.rs):   *)
(* binaries built from a git checkout and cached by commit and cache name. *)
(* The checkout and the cache are files in cache_dir and outlive the       *)
(* processes that use them.  One process at a time works on a job, the     *)
(* sequence of binaries its caller asks for; it may be killed at any point *)
(* together with the command it waits for, and then the next one finds     *)
(* what it left.  git, cargo and the disk may fail at any time.            *)
(***************************************************************************)
EXTENDS Integers, Sequences

CONSTANTS
    Urls,       \* repositories
    Commits,    \* commit hashes
    CommitsOf,  \* CommitsOf[url]: those a repository has
    Targets,    \* BuildTargets: [bin, cache_name, features]
    Jobs,       \* [url, requests : sequence of [commit, target]]
    None,       \* nothing there; a target that is disabled
    Torn,       \* a file that is there and incomplete
    MaxRuns     \* bound: processes started

CacheName(t) == IF t.cache_name = None THEN t.bin ELSE t.cache_name

Keys     == [commit : Commits, name : {CacheName(t) : t \in Targets}]
Requests == [commit : Commits, target : Targets \cup {None}]
Builds   == [commit : Commits, target : Targets]

\* A clone is whole unless git was killed while it made it.
Clones == [url : Urls, whole : BOOLEAN]

BuildsFor(k) == {b \in Builds : b.commit = k.commit /\ CacheName(b.target) = k.name}

ASSUME RepositoriesAssumption == CommitsOf \in [Urls -> SUBSET Commits]
ASSUME JobsAssumption == Jobs \subseteq [url : Urls, requests : Seq(Requests)]
ASSUME NoneAssumption ==
    /\ None \notin Targets \cup Commits \cup Clones \cup Keys \cup Builds \cup Jobs
    /\ Torn \notin Builds \cup {None}
    /\ MaxRuns \in Nat

VARIABLES
    \* cache_dir
    repo,       \* the clone, or None
    head,       \* the commit that is checked out, None for a fresh clone
    locked,     \* a killed git has left its index.lock
    built,      \* built[bin]: target/release/<bin>, a build or None
    cache,      \* cache[k]: binaries/<commit>/<name>, a build, Torn or None
    \* The process.
    at,         \* where it is, "down" if there is none
    job,
    got,        \* the binaries returned so far, as keys
    outcome,    \* of the last process, "none" before and while it runs
    fault,      \* a command of it has failed that could have succeeded
    runs

repoVars == <<repo, head, locked>>
vars == <<repoVars, built, cache, at, job, got, outcome, fault, runs>>

Bins == {t.bin : t \in Targets}

InRepo == {"ensure", "checkout", "build", "store", "copying"}

TypeOK ==
    /\ repo \in Clones \cup {None}
    /\ head \in Commits \cup {None}
    /\ locked \in BOOLEAN
    /\ built \in [Bins -> Builds \cup {None}]
    /\ cache \in [Keys -> Builds \cup {None, Torn}]
    /\ at \in {"down", "check", "returned"} \cup InRepo
    /\ job \in Jobs \cup {None}
    /\ got \in Seq(Keys)
    /\ outcome \in {"none", "ok", "failed", "killed"}
    /\ fault \in BOOLEAN
    /\ runs \in 0 .. MaxRuns

CacheInit ==
    /\ repo = None /\ head = None /\ locked = FALSE
    /\ built = [b \in Bins |-> None]
    /\ cache = [k \in Keys |-> None]
    /\ at = "down" /\ job = None /\ got = <<>>
    /\ outcome = "none" /\ fault = FALSE /\ runs = 0

\* The binary that is asked for, and where it is cached (binary_cache_path).
Asked == Len(got) < Len(job.requests)
Request == job.requests[Len(got) + 1]
KeyOf(request) == [commit |-> request.commit, name |-> CacheName(request.target)]
Key == KeyOf(Request)

-----------------------------------------------------------------------------
(* The process as a whole.                                                  *)

StartJob(j) ==
    /\ at = "down"
    /\ runs < MaxRuns
    /\ at' = "check"
    /\ job' = j
    /\ got' = <<>>
    /\ outcome' = "none"
    /\ fault' = FALSE
    /\ runs' = runs + 1
    /\ UNCHANGED <<repoVars, built, cache>>

\* An error goes all the way up: the callers stop at the first one.
Fail ==
    /\ at' = "down"
    /\ outcome' = "failed"
    /\ UNCHANGED <<job, got, runs>>

FailOnItsOwn == Fail /\ UNCHANGED fault
FailByChance == Fail /\ fault' = TRUE

Goto(step) ==
    /\ at' = step
    /\ UNCHANGED <<job, got, outcome, fault, runs>>

AllPrepared ==
    /\ at = "check" /\ ~Asked
    /\ Goto("returned")
    /\ UNCHANGED <<repoVars, built, cache>>

JobDone ==
    /\ at = "returned"
    /\ at' = "down"
    /\ outcome' = "ok"
    /\ UNCHANGED <<repoVars, built, cache, job, got, fault, runs>>

\* What the caller does between two binaries or with all of them fails.
CallerFails ==
    /\ at \in {"check", "returned"}
    /\ FailByChance
    /\ UNCHANGED <<repoVars, built, cache>>

Return ==
    /\ at' = "check"
    /\ got' = Append(got, Key)
    /\ UNCHANGED <<job, outcome, fault, runs>>

-----------------------------------------------------------------------------
(* get_target_binary                                                        *)

TargetDisabled ==
    /\ at = "check" /\ Asked
    /\ Request.target = None
    /\ FailOnItsOwn
    /\ UNCHANGED <<repoVars, built, cache>>

\* Mutant: a cached binary is built again.
Miss_Always == TRUE

\* The cached file is looked for, not into.
Miss == cache[Key] = None

UseCached ==
    /\ at = "check" /\ Asked
    /\ Request.target # None
    /\ ~Miss
    /\ Return
    /\ UNCHANGED <<repoVars, built, cache>>

StartBuilding ==
    /\ at = "check" /\ Asked
    /\ Request.target # None
    /\ Miss
    /\ Goto("ensure")
    /\ UNCHANGED <<repoVars, built, cache>>

-----------------------------------------------------------------------------
(* ensure_repo: clone if there is nothing, else fetch.                      *)

Clone ==
    /\ at = "ensure"
    /\ repo = None
    /\ repo' = [url |-> job.url, whole |-> TRUE]
    /\ Goto("checkout")
    /\ UNCHANGED <<head, locked, built, cache>>

\* A git clone that fails removes what it has made.
CloneFails ==
    /\ at = "ensure"
    /\ repo = None
    /\ FailByChance
    /\ UNCHANGED <<repoVars, built, cache>>

\* Nobody compares the clone's origin with repo_url.  In what a killed git clone
\* has left a fetch may get the rest or, where there is no remote yet, nothing.
Fetch ==
    /\ at = "ensure"
    /\ repo # None
    /\ repo' \in {repo, [repo EXCEPT !.whole = TRUE]}
    /\ Goto("checkout")
    /\ UNCHANGED <<head, locked, built, cache>>

FetchFails ==
    /\ at = "ensure"
    /\ repo # None
    /\ IF repo.whole THEN FailByChance ELSE FailOnItsOwn
    /\ UNCHANGED <<repoVars, built, cache>>

-----------------------------------------------------------------------------
(* checkout                                                                 *)

CanCheckOut == repo.whole /\ ~locked /\ Request.commit \in CommitsOf[repo.url]

Checkout ==
    /\ at = "checkout"
    /\ CanCheckOut
    /\ head' = Request.commit
    /\ Goto("build")
    /\ UNCHANGED <<repo, locked, built, cache>>

\* Mutant: git's status is not looked at.
CheckoutFails_Ignored ==
    /\ at = "checkout"
    /\ Goto("build")
    /\ UNCHANGED <<repoVars, built, cache>>

CheckoutFails ==
    /\ at = "checkout"
    /\ IF CanCheckOut THEN FailByChance ELSE FailOnItsOwn
    /\ UNCHANGED <<repoVars, built, cache>>

-----------------------------------------------------------------------------
(* build_target                                                             *)

Build ==
    /\ at = "build"
    /\ built' = [built EXCEPT ![Request.target.bin] =
                    [commit |-> head, target |-> Request.target]]
    /\ Goto("store")
    /\ UNCHANGED <<repoVars, cache>>

\* Mutant: cargo's status is not looked at, only whether there is a binary.
BuildFails_IfNoBinary ==
    /\ at = "build"
    /\ IF built[Request.target.bin] = None THEN FailByChance ELSE Goto("store")
    /\ UNCHANGED <<repoVars, built, cache>>

\* cargo fails, or leaves no binary where it is expected.
BuildFails ==
    /\ at = "build"
    /\ FailByChance
    /\ UNCHANGED <<repoVars, built, cache>>

\* fs::copy creates or truncates the cached file, then fills it.
StartCopy ==
    /\ at = "store"
    /\ cache' = [cache EXCEPT ![Key] = Torn]
    /\ Goto("copying")
    /\ UNCHANGED <<repoVars, built>>

EndCopy ==
    /\ at = "copying"
    /\ cache' = [cache EXCEPT ![Key] = built[Request.target.bin]]
    /\ Return
    /\ UNCHANGED <<repoVars, built>>

\* The directory cannot be made, or the disk is full.
CopyFails ==
    /\ at \in {"store", "copying"}
    /\ FailByChance
    /\ UNCHANGED <<repoVars, built, cache>>

-----------------------------------------------------------------------------
\* The process is killed, a git it waits for with it.
Killed ==
    /\ at # "down"
    /\ at' = "down"
    /\ outcome' = "killed"
    /\ IF at = "ensure" /\ repo = None
         THEN repo' \in {None} \cup [url : {job.url}, whole : BOOLEAN]
         ELSE UNCHANGED repo
    /\ IF at = "checkout" /\ CanCheckOut
         THEN head' \in {head, Request.commit} /\ locked' \in BOOLEAN
         ELSE UNCHANGED <<head, locked>>
    /\ UNCHANGED <<built, cache, job, got, fault, runs>>

\* read_text_file_at_commit: ensure_repo and a git show, nothing is checked out.
ReadTextFile ==
    /\ at = "down"
    /\ runs < MaxRuns
    /\ runs' = runs + 1
    /\ \E url \in Urls :
          repo' \in IF repo = None THEN {None} \cup [url : {url}, whole : BOOLEAN]
                                   ELSE {repo, [repo EXCEPT !.whole = TRUE]}
    /\ UNCHANGED <<head, locked, built, cache, at, job, got, outcome, fault>>

Command ==
    \/ Clone \/ CloneFails \/ Fetch \/ FetchFails \/ Checkout \/ CheckoutFails
    \/ Build \/ BuildFails \/ StartCopy \/ EndCopy \/ CopyFails

Step ==
    \/ AllPrepared \/ TargetDisabled \/ UseCached \/ StartBuilding \/ Command \/ Killed

CacheNext ==
    \/ \E j \in Jobs : StartJob(j)
    \/ Step \/ JobDone \/ CallerFails \/ ReadTextFile

CacheSpec == CacheInit /\ [][CacheNext]_vars

-----------------------------------------------------------------------------
(* What must hold.                                                          *)

\* A cached binary that is complete was built from the commit it is cached
\* under, whatever was killed, failed, checked out or built in between.
CacheHoldsOwnCommit ==
    \A k \in Keys : cache[k] \notin {None, Torn} => cache[k] \in BuildsFor(k)

Store == INSTANCE BinaryStore WITH
            store   <- cache,
            writing <- IF at = "copying" THEN Key ELSE None

\* The cache is a write-once store: a binary that has been handed out, which a
\* manager or a node may be executing, is never written to again.
ImplementsBinaryStore == Store!Spec

-----------------------------------------------------------------------------
(* The inductive invariant.                                                 *)

\* Whoever works on the checkout has been asked for a binary of a target.
RequestInv ==
    /\ at # "down" => job # None /\ Len(got) <= Len(job.requests)
    /\ at \in InRepo => Asked /\ Request.target # None

\* Builds are made in a complete clone; nothing moves it between checkout and build.
CheckoutInv ==
    /\ at \in InRepo \ {"ensure"} => repo # None
    /\ at \in InRepo \ {"ensure", "checkout"} => repo.whole
    /\ at \in {"build", "store", "copying"} => head = Request.commit
    /\ at \in {"store", "copying"} =>
          built[Request.target.bin] = [commit |-> head, target |-> Request.target]

\* The one who builds has found nothing cached and is the only writer.
WriterInv ==
    /\ at \in {"ensure", "checkout", "build", "store"} => cache[Key] = None
    /\ at = "copying" => cache[Key] = Torn

CacheInv == TypeOK /\ RequestInv /\ CheckoutInv /\ WriterInv /\ CacheHoldsOwnCommit

\* A caller gets a binary for each of its requests, in their order, and what it has
\* got stays in the cache.
HandedOut ==
    job # None =>
        /\ Len(got) <= Len(job.requests)
        /\ at = "returned" => Len(got) = Len(job.requests)
        /\ \A i \in DOMAIN got :
              /\ job.requests[i].target # None
              /\ got[i] = KeyOf(job.requests[i])
              /\ cache[got[i]] # None

-----------------------------------------------------------------------------
(* What the documentation says and the code does not do.                    *)

\* Every binary of the job is there to be had.
Answerable ==
    \A i \in DOMAIN job.requests :
        /\ job.requests[i].target # None
        /\ job.requests[i].commit \in CommitsOf[job.url]

\* "Get the rollup binary for a specific commit", from the repository at repo_url,
\* which ensure_repo sees to it is "cloned and up to date": a process whose git,
\* cargo and disk do their work, in a cache where no git was killed before, gets
\* the binaries it asks for, complete and of the target it has configured.
GetsItsBinaries ==
    job # None /\ Answerable =>
        /\ outcome = "failed" => fault \/ locked \/ ~repo.whole
        /\ \A i \in DOMAIN got :
              cache[got[i]] = [commit |-> job.requests[i].commit,
                               target |-> job.requests[i].target]

=============================================================================
