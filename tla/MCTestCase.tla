----------------------------- MODULE MCTestCase -----------------------------
(***************************************************************************)
(* Config files for TLC: every file written by hand up to the bounds, and  *)
(* test cases of two versions.  Layouts, heights and links are varied one  *)
(* at a time, the others being those of a plain test case.                 *)
(***************************************************************************)
EXTENDS TestCase

MCNodeName == [n \in 0 .. MaxReplicas |-> IF n = 0 THEN "master" ELSE "replica"]

File(p, s, h) == [port |-> p, storage |-> s, home |-> h, db |-> "placeholder"]

\* A master and a replica, the scripts in v1.
PlainV(i) == [simple |-> None, master |-> File(1, "data", i),
              replica |-> [r \in 1 .. MaxReplicas |->
                              IF r = 1 THEN File(2, "data_replica", i) ELSE None]]

Spec1(start, stop) == [start |-> start, stop |-> stop]

PlainToml == [versions |-> <<Spec1(None, 1), Spec1(2, 2)>>, extra |-> 1, soak |-> TRUE]

PlainDir == [toml |-> PlainToml, v |-> [i \in VersionDirs |-> PlainV(i)],
             scripts |-> [h \in Homes |-> {}]]

Layouts(i) ==
    LET any == {File(p, s, i) : p \in Ports, s \in Storages}
    IN  [simple : {None, File(1, "data", i)},
         master : {None, Bad} \cup any,
         replica : {<<r1, r2>> : r1 \in {None} \cup any,
                                 r2 \in {None, File(2, "data_replica", i)}}]

LayoutDirs ==
    {[PlainDir EXCEPT !.v = [i \in VersionDirs |->
          CASE i = 0 -> v0 [] i = 1 -> v1 [] OTHER -> PlainV(i)]] :
        v0 \in Layouts(0), v1 \in Layouts(1)}

VersionSpecs == [start : Optional, stop : Heights]

HeightDirs ==
    {[PlainDir EXCEPT !.toml = [versions |-> vs, extra |-> extra, soak |-> sk]] :
        vs \in {<<>>} \cup {<<a>> : a \in VersionSpecs}
               \cup {<<a, b>> : a \in VersionSpecs, b \in VersionSpecs},
        extra \in 0 .. 2, sk \in BOOLEAN}
    \cup {[PlainDir EXCEPT !.toml = t] : t \in {None, Bad}}

LinkDirs ==
    {[PlainDir EXCEPT !.v[0].master.home = h0, !.v[1].master.home = h1,
                      !.v[1].replica[1].home = h2,
                      !.scripts = [PlainDir.scripts EXCEPT ![0] = s0, ![1] = s1]] :
        h0 \in Homes, h1 \in Homes, h2 \in Homes,
        s0 \in SUBSET Scripts, s1 \in SUBSET Scripts}

ByHand ==
    /\ Init
    /\ dir = None /\ at = "hand" /\ build = "release" /\ case = None /\ versions = <<>>
    /\ soak = None /\ written = <<>> /\ dirty = {}

FromTestCase ==
    /\ config = <<>> /\ verdict = None
    /\ dir \in LayoutDirs \cup HeightDirs \cup LinkDirs
    /\ SimInit

MCInit == ByHand \/ FromTestCase

MCNext ==
    \/ at = "hand" /\ Load /\ UNCHANGED simVars
    \/ SimNext /\ UNCHANGED vars

MCSpec == MCInit /\ [][MCNext]_<<vars, simVars>>

=============================================================================
