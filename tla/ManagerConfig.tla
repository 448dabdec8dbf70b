--------------------------- MODULE ManagerConfig ---------------------------
(***************************************************************************)
(* ManagerConfig::validate (src/src/config.rs): the check a config file    *)
(* has to pass before the rollup manager runs it.  Heights are u64 in the  *)
(* code and W bits wide here.  Versions are numbered from 0 in the code's  *)
(* messages and from 1 in the sequence.                                    *)
(***************************************************************************)
EXTENDS Integers, Sequences, FiniteSetsExt

CONSTANTS
    W,            \* bits of a height
    MaxVersions,  \* bound: versions listed in a config file
    None          \* a missing start_height or stop_height

ASSUME WidthAssumption == W \in Nat \ {0} /\ MaxVersions \in Nat
ASSUME NoneAssumption == None \notin Nat

Heights  == 0 .. 2^W - 1
Optional == Heights \cup {None}

RollupVersion == [start : Optional, stop : Optional]
Configs == UNION {[1 .. n -> RollupVersion] : n \in 0 .. MaxVersions}

\* How the build treats prev_stop + 1 when it overflows: a debug build panics,
\* a release build wraps.
Builds == {"debug", "release"}

Ok == [error |-> "Ok", index |-> 0]
Err(e, i) == [error |-> e, index |-> i]

ASSUME VerdictAssumption == None # Ok

-----------------------------------------------------------------------------
(* validate                                                                 *)

\* Mutant: versions are expected to share the height they meet at.
ExpectedStart_Shared(prevStop) == prevStop

ExpectedStart(prevStop) == (prevStop + 1) % 2^W

\* Mutant: the last two versions may lack a stop height.
CheckVersion_LastTwoOpen(c, i, build) ==
    IF c[i + 1].start = None THEN Err("MissingStartHeight", i)
    ELSE IF i < Len(c) - 2 /\ c[i + 1].stop = None THEN Err("MissingStopHeight", i)
    ELSE IF c[i].stop = None THEN Err("UnwrapPanic", i)
    ELSE IF c[i + 1].start # ExpectedStart(c[i].stop) THEN Err("HeightGap", i)
    ELSE Ok

\* The body of the loop for the version at code index i.
CheckVersion(c, i, build) ==
    LET prev == c[i]
        curr == c[i + 1]
    IN  IF curr.start = None THEN Err("MissingStartHeight", i)
        ELSE IF i < Len(c) - 1 /\ curr.stop = None THEN Err("MissingStopHeight", i)
        ELSE IF prev.stop = None THEN Err("UnwrapPanic", i)
        ELSE IF build = "debug" /\ prev.stop = 2^W - 1 THEN Err("OverflowPanic", i)
        ELSE IF curr.start # ExpectedStart(prev.stop) THEN Err("HeightGap", i)
        ELSE Ok

\* Mutant: the errors are collected and the last one is returned.
CheckRest_LastError(c, build) ==
    LET wrong == {i \in 1 .. Len(c) - 1 : CheckVersion(c, i, build) # Ok}
    IN  IF wrong = {} THEN Ok ELSE CheckVersion(c, Max(wrong), build)

\* The loop returns at the first version that is wrong.
CheckRest(c, build) ==
    LET wrong == {i \in 1 .. Len(c) - 1 : CheckVersion(c, i, build) # Ok}
    IN  IF wrong = {} THEN Ok ELSE CheckVersion(c, Min(wrong), build)

Validate(c, build) ==
    IF Len(c) = 0 THEN Err("NoVersions", 0)
    ELSE IF c[1].start # None THEN Err("FirstVersionHasStartHeight", 0)
    ELSE IF Len(c) = 1 THEN Ok
    ELSE IF c[1].stop = None THEN Err("MissingStopHeight", 0)
    ELSE CheckRest(c, build)

-----------------------------------------------------------------------------
(* Loading some config file.                                                *)

VARIABLES
    config,     \* the parsed file
    verdict     \* what load returned, None before

vars == <<config, verdict>>

Init == config \in Configs /\ verdict = None

Load ==
    /\ verdict = None
    /\ \E build \in Builds : verdict' = Validate(config, build)
    /\ UNCHANGED config

Next == Load

Spec == Init /\ [][Next]_vars

-----------------------------------------------------------------------------
(* Properties.                                                              *)

Accepted == verdict = Ok

FirstHeight(v) == IF v.start = None THEN 0 ELSE v.start
LastHeight(v)  == IF v.stop = None THEN 2^W - 1 ELSE v.stop

\* The heights a version is in charge of.
RangeOf(v) == FirstHeight(v) .. LastHeight(v)

\* The `unwrap` of the previous version's stop height never meets a None,
\* although the check that makes it safe is made one iteration earlier.
NeverUnwrapsNone == verdict # None => verdict.error # "UnwrapPanic"

OneInCharge(h) ==
    \E i \in DOMAIN config :
        /\ h \in RangeOf(config[i])
        /\ \A j \in DOMAIN config \ {i} : h \notin RangeOf(config[j])

\* An accepted config whose last version has heights of its own puts exactly one
\* version in charge of every height up to that version's last, unless it has one
\* of two faults, each of which always breaks this: a stop height whose successor
\* wraps, which a release build accepts and a debug build does not, or a version
\* that stops below the height where the one before it stopped.
AcceptedPartitionsHeights ==
    (Accepted /\ RangeOf(config[Len(config)]) # {}) =>
        ((\A h \in 0 .. LastHeight(config[Len(config)]) : OneInCharge(h)) <=>
            /\ Validate(config, "debug") = Ok
            /\ \A i \in 1 .. Len(config) - 1 :
                  FirstHeight(config[i]) <= LastHeight(config[i]) + 1)

\* A version that is refused is the first wrong one: the versions before it
\* would have been accepted, with the last of them left without a stop height.
FirstFaultIsNamed ==
    (verdict # None /\ verdict # Ok /\ verdict.index > 0) =>
        LET before == SubSeq(config, 1, verdict.index)
        IN  \E build \in Builds :
                Validate([before EXCEPT ![verdict.index].stop = None], build) = Ok

=============================================================================
