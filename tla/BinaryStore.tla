---------------------------- MODULE BinaryStore ----------------------------
(***************************************************************************)
(* What the artifact builder's cache is to those who use it: a write-once  *)
(* store of binaries by commit and name.  An entry is written by one       *)
(* writer, from the build of its own commit.  A writer may be cut off, and *)
(* what it leaves is never repaired.                                       *)
(***************************************************************************)
CONSTANTS
    Keys,           \* [commit, name]
    BuildsFor(_),   \* the builds that belong under a key
    None, Torn

VARIABLES
    store,      \* a build, Torn or None for each key
    writing     \* the key that is being written, or None

vars == <<store, writing>>

Init ==
    /\ store = [k \in Keys |-> None]
    /\ writing = None

Begin ==
    /\ writing = None
    /\ \E k \in Keys :
          /\ store[k] = None
          /\ store' = [store EXCEPT ![k] = Torn]
          /\ writing' = k

Complete ==
    /\ writing # None
    /\ \E b \in BuildsFor(writing) : store' = [store EXCEPT ![writing] = b]
    /\ writing' = None

CutOff ==
    /\ writing # None
    /\ writing' = None
    /\ UNCHANGED store

Next == Begin \/ Complete \/ CutOff

Spec == Init /\ [][Next]_vars

=============================================================================
