------------------------ MODULE ManagerConfigProofs ------------------------
(***************************************************************************)
(* Proofs about ManagerConfig, for config files of any length and heights  *)
(* of any width: no `unwrap` of a missing stop height, what an accepted    *)
(* config makes of the heights, and which version is named as wrong.       *)
(***************************************************************************)
EXTENDS ManagerConfig, FiniteSetTheorems, SequenceTheorems, TLAPS

\* A set of numbers has a least element: the intervals up to its
\* elements are well-founded by inclusion.
LEMMA MinIsMember ==
    ASSUME NEW S \in SUBSET Nat, S # {}
    PROVE  Min(S) \in S /\ \A y \in S : Min(S) <= y
<1> DEFINE upTo == {0 .. x : x \in S}
<1>1. upTo \subseteq FiniteSubsetsOf(Nat) /\ upTo # {}
  <2>1. ASSUME NEW x \in S PROVE 0 .. x \in SUBSET Nat /\ IsFiniteSet(0 .. x)
    BY FS_Interval
  <2> QED
    BY <2>1 DEF FiniteSubsetsOf
<1>2. PICK I \in upTo : \A J \in upTo : <<J, I>> \notin StrictSubsetOrdering(Nat)
  <2> HIDE DEF upTo
  <2> QED
    BY <1>1, FS_StrictSubsetOrderingWellFounded, WFMin
<1>3. PICK x \in S : I = 0 .. x
  OBVIOUS
<1>4. ASSUME NEW y \in S, y < x PROVE FALSE
  <2>1. 0 .. y \subseteq 0 .. x /\ 0 .. y # 0 .. x /\ 0 .. x \in SUBSET Nat
    BY <1>4, x \in 0 .. x, x \notin 0 .. y
  <2>2. <<0 .. y, 0 .. x>> \in StrictSubsetOrdering(Nat)
    BY <2>1 DEF StrictSubsetOrdering
  <2> QED
    BY <1>2, <1>3, <2>2
<1>5. \A y \in S : x <= y
  BY <1>4
<1> QED
  BY <1>5 DEF Min

-----------------------------------------------------------------------------
(* What validate has looked at when it returns.                             *)

LEMMA ConfigType ==
    ASSUME NEW c \in Configs
    PROVE  /\ Len(c) \in Nat /\ DOMAIN c = 1 .. Len(c)
           /\ c \in Seq(RollupVersion)
           /\ \A i \in 1 .. Len(c) : c[i].start \in Optional /\ c[i].stop \in Optional
<1>1. PICK n \in 0 .. MaxVersions : c \in [1 .. n -> RollupVersion]
  BY DEF Configs
<1>2. n \in Nat
  BY WidthAssumption
<1>3. c \in Seq(RollupVersion)
  BY <1>1, <1>2, SeqDef
<1>4. /\ Len(c) \in Nat /\ DOMAIN c = 1 .. Len(c)
      /\ \A i \in 1 .. Len(c) : c[i] \in RollupVersion
  BY <1>3
<1> QED
  BY <1>3, <1>4 DEF RollupVersion

\* The loop ends at the first version that is wrong, if there is one.
LEMMA RestChecked ==
    ASSUME NEW c, Len(c) \in Nat, NEW b
    PROVE  \/ /\ CheckRest(c, b) = Ok
              /\ \A i \in 1 .. Len(c) - 1 : CheckVersion(c, i, b) = Ok
           \/ \E i \in 1 .. Len(c) - 1 :
                 /\ CheckRest(c, b) = CheckVersion(c, i, b)
                 /\ CheckVersion(c, i, b) # Ok
                 /\ \A j \in 1 .. i - 1 : CheckVersion(c, j, b) = Ok
<1> DEFINE wrong == {i \in 1 .. Len(c) - 1 : CheckVersion(c, i, b) # Ok}
<1>1. CASE wrong = {}
  BY <1>1 DEF CheckRest
<1>2. CASE wrong # {}
  <2>1. Min(wrong) \in wrong /\ \A j \in wrong : Min(wrong) <= j
    BY <1>2, MinIsMember, wrong \in SUBSET Nat
  <2>2. \A j \in 1 .. Min(wrong) - 1 : CheckVersion(c, j, b) = Ok
    <3> SUFFICES ASSUME NEW j \in 1 .. Min(wrong) - 1, CheckVersion(c, j, b) # Ok
                 PROVE  FALSE
      OBVIOUS
    <3>1. j \in wrong
      BY <2>1
    <3> QED
      BY <2>1, <3>1
  <2> QED
    BY <1>2, <2>1, <2>2 DEF CheckRest
<1> QED
  BY <1>1, <1>2

\* A version that passes its check, in terms of the heights.
LEMMA VersionChecked ==
    ASSUME NEW c, NEW i, NEW b, CheckVersion(c, i, b) = Ok
    PROVE  /\ c[i + 1].start # None
           /\ i < Len(c) - 1 => c[i + 1].stop # None
           /\ c[i].stop # None
           /\ c[i + 1].start = ExpectedStart(c[i].stop)
BY DEF CheckVersion, Err, Ok

\* Below the largest height nothing overflows.
LEMMA NextHeight ==
    ASSUME NEW x \in Heights, x < 2^W - 1
    PROVE  ExpectedStart(x) = x + 1
<1>1. ASSUME NEW m \in Int, NEW y \in 0 .. m - 1, y < m - 1
      PROVE  (y + 1) % m = y + 1
  BY <1>1
<1>2. 2^W \in Int
  BY WidthAssumption
<1> QED
  BY <1>1, <1>2 DEF ExpectedStart, Heights

\* A config with a wrong version that has been looked for: the first versions
\* have passed the checks before the loop.
LEMMA VerdictOnVersion ==
    ASSUME NEW c, NEW b, Validate(c, b) # Ok, Validate(c, b).index # 0
    PROVE  /\ Validate(c, b) = CheckRest(c, b)
           /\ Len(c) # 0 /\ Len(c) # 1
           /\ c[1].start = None /\ c[1].stop # None
BY DEF Validate, Err

-----------------------------------------------------------------------------
VerdictInv ==
    /\ config \in Configs
    /\ verdict # None => \E b \in Builds : verdict = Validate(config, b)

LEMMA VerdictInvHolds == Spec => []VerdictInv
<1>1. Init => VerdictInv
  BY DEF Init, VerdictInv
<1>2. VerdictInv /\ [Next]_vars => VerdictInv'
  BY DEF VerdictInv, Next, Load, vars
<1> QED
  BY <1>1, <1>2, PTL DEF Spec

\* Whatever the file says and however the manager is built, `unwrap` is not called
\* on a stop height that is missing: the iteration before would have refused it.
THEOREM NoUnwrapOfNone == Spec => []NeverUnwrapsNone
<1>1. ASSUME VerdictInv PROVE NeverUnwrapsNone
  <2> SUFFICES ASSUME NEW b \in Builds, Validate(config, b).error = "UnwrapPanic"
               PROVE  FALSE
    BY <1>1 DEF VerdictInv, NeverUnwrapsNone
  <2> DEFINE c == config
  <2>1. Len(c) \in Nat
    BY <1>1, ConfigType DEF VerdictInv
  <2>2. /\ Validate(c, b) = CheckRest(c, b) /\ CheckRest(c, b) # Ok
        /\ c[1].stop # None
    BY DEF Validate, Err, Ok
  <2>3. PICK i \in 1 .. Len(c) - 1 :
           /\ CheckRest(c, b) = CheckVersion(c, i, b)
           /\ \A j \in 1 .. i - 1 : CheckVersion(c, j, b) = Ok
    BY <2>1, <2>2, RestChecked
  <2>4. c[i].stop = None
    BY <2>2, <2>3 DEF CheckVersion, Err, Ok
  <2>5. i # 1
    BY <2>2, <2>4
  <2>6. i - 1 \in 1 .. i - 1 /\ i - 1 < Len(c) - 1 /\ (i - 1) + 1 = i
    BY <2>1, <2>5
  <2>7. c[i].stop # None
    BY <2>3, <2>6, VersionChecked
  <2> QED
    BY <2>4, <2>7
<1> QED
  BY <1>1, VerdictInvHolds, PTL

-----------------------------------------------------------------------------
(* What an accepted config makes of the heights.                            *)

\* No version before the last goes up to the largest height.
NoneWraps(c) == \A i \in 1 .. Len(c) - 1 : LastHeight(c[i]) < 2^W - 1

LEMMA HeightType ==
    ASSUME NEW c \in Configs, NEW i \in 1 .. Len(c)
    PROVE  FirstHeight(c[i]) \in Int /\ LastHeight(c[i]) \in Int
<1>1. 2^W \in Int
  BY WidthAssumption
<1>2. c[i].start \in Optional /\ c[i].stop \in Optional
  BY ConfigType
<1> QED
  BY <1>1, <1>2 DEF Optional, Heights, FirstHeight, LastHeight

\* What the checks leave of the heights of an accepted config.
LEMMA AcceptedHeights ==
    ASSUME NEW c \in Configs, NEW b, Validate(c, b) = Ok
    PROVE  /\ Len(c) \in Nat \ {0}
           /\ FirstHeight(c[1]) = 0
           /\ \A i \in 1 .. Len(c) - 1 :
                 /\ CheckVersion(c, i, b) = Ok
                 /\ c[i].stop \in Heights
                 /\ LastHeight(c[i]) = c[i].stop
                 /\ FirstHeight(c[i + 1]) = ExpectedStart(c[i].stop)
<1>1. Len(c) \in Nat
  BY ConfigType
<1>2. /\ Len(c) # 0 /\ c[1].start = None
      /\ Len(c) = 1 \/ CheckRest(c, b) = Ok
  BY DEF Validate, Err, Ok
<1>3. ASSUME NEW i \in 1 .. Len(c) - 1
      PROVE  /\ CheckVersion(c, i, b) = Ok
             /\ c[i].stop \in Heights
             /\ LastHeight(c[i]) = c[i].stop
             /\ FirstHeight(c[i + 1]) = ExpectedStart(c[i].stop)
  <2>1. CheckVersion(c, i, b) = Ok
    <3>1. ASSUME Len(c) = 1 PROVE FALSE
      BY <3>1
    <3>2. CheckRest(c, b) = Ok
      BY <1>2, <3>1
    <3>3. \A k \in 1 .. Len(c) - 1 : CheckVersion(c, k, b) = Ok
      BY <1>1, <3>2, RestChecked
    <3> QED
      BY <3>3
  <2>2. /\ c[i + 1].start = ExpectedStart(c[i].stop) /\ c[i + 1].start # None
        /\ c[i].stop # None
    BY <2>1, VersionChecked
  <2>3. c[i].stop \in Heights
    BY <1>1, <2>2, ConfigType DEF Optional
  <2> QED
    BY <2>1, <2>2, <2>3 DEF FirstHeight, LastHeight
<1> QED
  BY <1>1, <1>2, <1>3 DEF FirstHeight

\* Each version starts right above the one before it.
LEMMA RangesMeet ==
    ASSUME NEW c \in Configs, NEW b, Validate(c, b) = Ok, NoneWraps(c)
    PROVE  \A i \in 1 .. Len(c) - 1 : FirstHeight(c[i + 1]) = LastHeight(c[i]) + 1
<1> SUFFICES ASSUME NEW i \in 1 .. Len(c) - 1
             PROVE  FirstHeight(c[i + 1]) = LastHeight(c[i]) + 1
  OBVIOUS
<1>1. /\ c[i].stop \in Heights /\ LastHeight(c[i]) = c[i].stop
      /\ FirstHeight(c[i + 1]) = ExpectedStart(c[i].stop)
  BY AcceptedHeights
<1>2. c[i].stop < 2^W - 1
  BY <1>1 DEF NoneWraps
<1> QED
  BY <1>1, <1>2, NextHeight

\* A debug build refuses what wraps, and nothing else that a release build accepts.
LEMMA DebugAccepts ==
    ASSUME NEW c \in Configs, NEW b \in Builds, Validate(c, b) = Ok
    PROVE  Validate(c, "debug") = Ok <=> NoneWraps(c)
<1>1. Len(c) \in Nat \ {0} /\ 2^W \in Int
  BY AcceptedHeights, WidthAssumption
<1>2. ASSUME Validate(c, "debug") = Ok, NEW i \in 1 .. Len(c) - 1
      PROVE  LastHeight(c[i]) < 2^W - 1
  <2>1. CheckVersion(c, i, "debug") = Ok /\ c[i].stop \in Heights /\ LastHeight(c[i]) = c[i].stop
    BY <1>2, AcceptedHeights
  <2>2. c[i].stop # 2^W - 1
    BY <2>1 DEF CheckVersion, Err, Ok
  <2> QED
    BY <1>1, <2>1, <2>2 DEF Heights
<1>3. ASSUME NoneWraps(c) PROVE Validate(c, "debug") = Ok
  <2>1. ASSUME NEW i \in 1 .. Len(c) - 1 PROVE CheckVersion(c, i, "debug") = Ok
    <3>1. CheckVersion(c, i, b) = Ok /\ c[i].stop # 2^W - 1
      <4>1. /\ CheckVersion(c, i, b) = Ok /\ c[i].stop \in Heights
            /\ LastHeight(c[i]) = c[i].stop
        BY AcceptedHeights
      <4> QED
        BY <1>1, <1>3, <4>1 DEF NoneWraps, Heights
    <3> QED
      BY <3>1 DEF CheckVersion, Err, Ok
  <2>2. CheckRest(c, "debug") = Ok
    BY <1>1, <2>1, RestChecked
  <2> QED
    BY <2>2 DEF Validate, Err, Ok
<1> QED
  BY <1>2, <1>3 DEF NoneWraps

\* None of the versions from lo on, the last excepted, stops below the height at
\* which the one before it stopped.
NoneFallsBack(c, lo) ==
    \A i \in lo .. Len(c) - 1 : FirstHeight(c[i]) <= LastHeight(c[i]) + 1

\* Then they start one above the other: the least version that did not would lie
\* right above one that does.
LEMMA StartsRise ==
    ASSUME NEW c \in Configs, NEW b, Validate(c, b) = Ok, NoneWraps(c),
           NEW lo \in 1 .. Len(c), NoneFallsBack(c, lo), NEW j \in lo .. Len(c)
    PROVE  FirstHeight(c[lo]) <= FirstHeight(c[j])
<1> DEFINE below == {k \in lo .. Len(c) : ~(FirstHeight(c[lo]) <= FirstHeight(c[k]))}
<1> SUFFICES ASSUME below # {} PROVE FALSE
  OBVIOUS
<1>1. Len(c) \in Nat \ {0}
  BY AcceptedHeights
<1>2. below \in SUBSET Nat
  BY <1>1
<1> DEFINE k == Min(below)
<1>3. k \in below /\ \A y \in below : k <= y
  BY <1>2, MinIsMember
<1> HIDE DEF k
<1>4. k \in lo .. Len(c) /\ ~(FirstHeight(c[lo]) <= FirstHeight(c[k]))
  BY <1>3
<1>5. FirstHeight(c[lo]) \in Int
  BY HeightType
<1>6. k # lo
  BY <1>4, <1>5
<1>7. /\ k - 1 \in lo .. Len(c) - 1 /\ k - 1 \in 1 .. Len(c) - 1
      /\ k - 1 \in 1 .. Len(c) /\ (k - 1) + 1 = k /\ k \in 1 .. Len(c)
  BY <1>1, <1>4, <1>6
<1>8. /\ FirstHeight(c[k - 1]) \in Int /\ LastHeight(c[k - 1]) \in Int
      /\ FirstHeight(c[k]) \in Int
  BY <1>7, HeightType
<1>9. FirstHeight(c[k]) = LastHeight(c[k - 1]) + 1
  BY <1>7, RangesMeet
<1>10. FirstHeight(c[k - 1]) <= LastHeight(c[k - 1]) + 1
  BY <1>7 DEF NoneFallsBack
<1>11. FirstHeight(c[lo]) <= FirstHeight(c[k - 1])
  BY <1>1, <1>3, <1>4, <1>6
<1> QED
  BY <1>4, <1>5, <1>8, <1>9, <1>10, <1>11

\* Of the versions from lo to n the least one that goes up to a height is in charge
\* of it.
LEMMA RangesCover ==
    ASSUME NEW c \in Configs, NEW b, Validate(c, b) = Ok, NoneWraps(c),
           NEW n \in 1 .. Len(c), NEW lo \in 1 .. n, NEW h \in Int,
           FirstHeight(c[lo]) <= h, h <= LastHeight(c[n])
    PROVE  \E i \in lo .. n : h \in RangeOf(c[i])
<1> DEFINE upTo == {i \in lo .. n : h <= LastHeight(c[i])}
<1>1. Len(c) \in Nat \ {0}
  BY AcceptedHeights
<1>2. \A i \in 1 .. Len(c) : FirstHeight(c[i]) \in Int /\ LastHeight(c[i]) \in Int
  BY HeightType
<1>3. upTo \in SUBSET Nat /\ n \in upTo
  BY <1>1
<1> DEFINE i == Min(upTo)
<1>4. i \in upTo /\ \A y \in upTo : i <= y
  BY <1>3, MinIsMember
<1> HIDE DEF i
<1>5. i \in lo .. n /\ i \in 1 .. Len(c) /\ h <= LastHeight(c[i])
  BY <1>1, <1>4
<1>6. FirstHeight(c[i]) <= h
  <2>1. CASE i = lo
    BY <2>1
  <2>2. CASE i # lo
    <3>1. /\ i - 1 \in lo .. n /\ i - 1 \in 1 .. Len(c) - 1 /\ i - 1 \in 1 .. Len(c)
          /\ (i - 1) + 1 = i
      BY <1>1, <1>5, <2>2
    <3>2. i - 1 \notin upTo
      BY <1>4, <1>5
    <3>3. LastHeight(c[i - 1]) < h
      BY <1>2, <3>1, <3>2
    <3>4. FirstHeight(c[i]) = LastHeight(c[i - 1]) + 1
      BY <3>1, RangesMeet
    <3>5. LastHeight(c[i - 1]) \in Int /\ FirstHeight(c[i]) \in Int
      BY <1>2, <1>5, <3>1
    <3> QED
      BY <3>3, <3>4, <3>5
  <2> QED
    BY <2>1, <2>2
<1> QED
  BY <1>2, <1>5, <1>6 DEF RangeOf

\* Two versions that share a height: nobody is in charge of it alone.
SharedHeight(c, h) ==
    \E i, j \in 1 .. Len(c) : i # j /\ h \in RangeOf(c[i]) /\ h \in RangeOf(c[j])

\* A stop height that wraps makes its successor start at 0 again.
LEMMA WrapShares ==
    ASSUME NEW c \in Configs, NEW b, Validate(c, b) = Ok, ~NoneWraps(c)
    PROVE  SharedHeight(c, 0)
<1>1. Len(c) \in Nat \ {0} /\ FirstHeight(c[1]) = 0 /\ 2^W \in Int
  BY AcceptedHeights, WidthAssumption
<1>2. PICK i \in 1 .. Len(c) - 1 : ~(LastHeight(c[i]) < 2^W - 1)
  BY DEF NoneWraps
<1>3. i \in 1 .. Len(c) /\ i + 1 \in 1 .. Len(c) /\ 1 \in 1 .. Len(c) /\ i + 1 # 1
  BY <1>1
<1>4. /\ c[i].stop \in Heights /\ LastHeight(c[i]) = c[i].stop
      /\ FirstHeight(c[i + 1]) = ExpectedStart(c[i].stop)
  BY AcceptedHeights
<1>5. c[i].stop = 2^W - 1 /\ 2^W > 0
  BY <1>1, <1>2, <1>4 DEF Heights
<1>6. FirstHeight(c[i + 1]) = 0
  <2>1. ASSUME NEW m \in Int, m > 0 PROVE ((m - 1) + 1) % m = 0
    BY <2>1
  <2> QED
    BY <1>1, <1>4, <1>5, <2>1 DEF ExpectedStart
<1>7. \A k \in 1 .. Len(c) : LastHeight(c[k]) \in Int /\ 0 <= LastHeight(c[k])
  <2> SUFFICES ASSUME NEW k \in 1 .. Len(c)
               PROVE  LastHeight(c[k]) \in Int /\ 0 <= LastHeight(c[k])
    OBVIOUS
  <2>1. c[k].stop \in Optional
    BY ConfigType
  <2> QED
    BY <1>1, <1>5, <2>1 DEF LastHeight, Optional, Heights
<1>8. 0 \in RangeOf(c[1]) /\ 0 \in RangeOf(c[i + 1])
  BY <1>1, <1>3, <1>6, <1>7 DEF RangeOf
<1> QED
  BY <1>3, <1>8 DEF SharedHeight

\* The last version that falls back makes its successor start in the range of some
\* earlier version, and from there on the heights are covered again up to the last.
LEMMA FallBackShares ==
    ASSUME NEW c \in Configs, NEW b, Validate(c, b) = Ok, NoneWraps(c),
           ~NoneFallsBack(c, 1), RangeOf(c[Len(c)]) # {}
    PROVE  \E h \in 0 .. LastHeight(c[Len(c)]) : SharedHeight(c, h)
<1> DEFINE distance == {Len(c) - i : i \in {k \in 1 .. Len(c) - 1 :
                            ~(FirstHeight(c[k]) <= LastHeight(c[k]) + 1)}}
<1>1. Len(c) \in Nat \ {0} /\ FirstHeight(c[1]) = 0
  BY AcceptedHeights
<1>2. distance \in SUBSET Nat /\ distance # {}
  BY <1>1 DEF NoneFallsBack
<1> DEFINE d == Min(distance)
<1>3. d \in distance /\ \A y \in distance : d <= y
  BY <1>2, MinIsMember
<1> HIDE DEF d
<1>4. PICK i \in 1 .. Len(c) - 1 :
         d = Len(c) - i /\ ~(FirstHeight(c[i]) <= LastHeight(c[i]) + 1)
  BY <1>3
<1>5. NoneFallsBack(c, i + 1)
  <2> SUFFICES ASSUME NEW k \in i + 1 .. Len(c) - 1,
                      ~(FirstHeight(c[k]) <= LastHeight(c[k]) + 1)
               PROVE  FALSE
    BY DEF NoneFallsBack
  <2>1. k \in 1 .. Len(c) - 1 /\ Len(c) - k < Len(c) - i
    BY <1>1
  <2>2. Len(c) - k \in distance
    BY <2>1
  <2> HIDE DEF distance
  <2>3. d <= Len(c) - k
    BY <1>3, <2>2
  <2> QED
    BY <1>1, <1>4, <2>1, <2>3
<1> HIDE DEF distance
<1>6. \A k \in 1 .. Len(c) : FirstHeight(c[k]) \in Int /\ LastHeight(c[k]) \in Int
  BY HeightType
<1>7. /\ i \in 1 .. Len(c) /\ i + 1 \in 1 .. Len(c) /\ Len(c) \in i + 1 .. Len(c)
      /\ 1 \in 1 .. Len(c) /\ Len(c) \in 1 .. Len(c)
  BY <1>1
<1>8. FirstHeight(c[i + 1]) = LastHeight(c[i]) + 1
  BY RangesMeet
<1>9. 0 <= LastHeight(c[i])
  <2>1. c[i].stop \in Heights /\ LastHeight(c[i]) = c[i].stop
    BY AcceptedHeights
  <2> QED
    BY <2>1 DEF Heights
<1>10. i # 1
  BY <1>1, <1>4, <1>6, <1>7, <1>9
<1>11. /\ i - 1 \in 1 .. Len(c) - 1 /\ i - 1 \in 1 .. Len(c) /\ (i - 1) + 1 = i
       /\ 1 \in 1 .. i - 1
  BY <1>1, <1>10
<1>12. FirstHeight(c[i]) = LastHeight(c[i - 1]) + 1
  BY <1>11, RangesMeet
<1> DEFINE h == FirstHeight(c[i + 1])
<1>13. h \in Int /\ 0 <= h /\ h <= LastHeight(c[i - 1])
  BY <1>4, <1>6, <1>7, <1>8, <1>9, <1>11, <1>12
<1>14. h <= LastHeight(c[Len(c)])
  <2>1. h <= FirstHeight(c[Len(c)])
    BY <1>5, <1>7, StartsRise
  <2>2. FirstHeight(c[Len(c)]) <= LastHeight(c[Len(c)])
    BY <1>6, <1>7 DEF RangeOf
  <2>3. FirstHeight(c[Len(c)]) \in Int /\ LastHeight(c[Len(c)]) \in Int
    BY <1>6, <1>7
  <2> HIDE DEF h
  <2> QED
    BY <1>13, <2>1, <2>2, <2>3
<1>15. PICK j \in 1 .. i - 1 : h \in RangeOf(c[j])
  BY <1>1, <1>11, <1>13, RangesCover
<1>16. PICK k \in i + 1 .. Len(c) : h \in RangeOf(c[k])
  <2>1. FirstHeight(c[i + 1]) <= h
    BY <1>13
  <2>2. h \in Int
    BY <1>13
  <2> HIDE DEF h
  <2> QED
    BY <1>7, <1>14, <2>1, <2>2, RangesCover
<1>17. j # k /\ j \in 1 .. Len(c) /\ k \in 1 .. Len(c)
  BY <1>1
<1>18. h \in 0 .. LastHeight(c[Len(c)])
  BY <1>6, <1>7, <1>13, <1>14
<1>19. SharedHeight(c, h)
  BY <1>15, <1>16, <1>17 DEF SharedHeight
<1> QED
  BY <1>18, <1>19

\* Without either fault the versions that start one above the other share nothing.
LEMMA NothingShared ==
    ASSUME NEW c \in Configs, NEW b, Validate(c, b) = Ok, NoneWraps(c),
           NoneFallsBack(c, 1), NEW i \in 1 .. Len(c), NEW j \in 1 .. Len(c), i < j,
           NEW h, h \in RangeOf(c[i]), h \in RangeOf(c[j])
    PROVE  FALSE
<1>1. Len(c) \in Nat \ {0}
  BY AcceptedHeights
<1>2. i \in 1 .. Len(c) - 1 /\ i + 1 \in 1 .. Len(c) /\ j \in i + 1 .. Len(c)
  BY <1>1
<1>3. FirstHeight(c[i + 1]) = LastHeight(c[i]) + 1
  BY <1>2, RangesMeet
<1>4. NoneFallsBack(c, i + 1)
  BY <1>1, <1>2 DEF NoneFallsBack
<1>5. FirstHeight(c[i + 1]) <= FirstHeight(c[j])
  BY <1>2, <1>4, StartsRise
<1>6. LastHeight(c[i]) \in Int /\ FirstHeight(c[j]) \in Int
      /\ FirstHeight(c[i]) \in Int /\ LastHeight(c[j]) \in Int
  BY HeightType
<1> QED
  BY <1>3, <1>5, <1>6 DEF RangeOf

\* An accepted config whose last version has heights of its own puts exactly one
\* version in charge of every height if, and only if, no stop height wraps and no
\* version falls back.
THEOREM AcceptedIsPartition == Spec => []AcceptedPartitionsHeights
<1>1. ASSUME VerdictInv PROVE AcceptedPartitionsHeights
  <2> DEFINE c == config
             last == LastHeight(c[Len(c)])
  <2> SUFFICES ASSUME Accepted, RangeOf(c[Len(c)]) # {}
               PROVE  (\A h \in 0 .. last : OneInCharge(h)) <=>
                          (Validate(c, "debug") = Ok /\ NoneFallsBack(c, 1))
    BY DEF AcceptedPartitionsHeights, NoneFallsBack
  <2>1. c \in Configs
    BY <1>1 DEF VerdictInv
  <2>2. PICK b \in Builds : Validate(c, b) = Ok
    BY <1>1, VerdictAssumption DEF VerdictInv, Accepted
  <2>3. DOMAIN c = 1 .. Len(c) /\ Len(c) \in Nat \ {0} /\ FirstHeight(c[1]) = 0
    BY <2>1, <2>2, ConfigType, AcceptedHeights
  <2>4. Validate(c, "debug") = Ok <=> NoneWraps(c)
    BY <2>1, <2>2, DebugAccepts
  <2>5. ASSUME NoneWraps(c), NoneFallsBack(c, 1), NEW h \in 0 .. last
        PROVE  OneInCharge(h)
    <3>1. /\ Len(c) \in 1 .. Len(c) /\ 1 \in 1 .. Len(c) /\ last \in Int
      BY <2>1, <2>3, HeightType
    <3>2. h \in Int /\ FirstHeight(c[1]) <= h /\ h <= last
      BY <2>3, <3>1
    <3>3. PICK i \in 1 .. Len(c) : h \in RangeOf(c[i])
      BY <2>1, <2>2, <2>5, <3>1, <3>2, RangesCover
    <3>4. ASSUME NEW j \in 1 .. Len(c), j # i, h \in RangeOf(c[j]) PROVE FALSE
      <4>1. i < j \/ j < i
        BY <2>3, <3>4
      <4> QED
        BY <2>1, <2>2, <2>5, <3>3, <3>4, <4>1, NothingShared
    <3> QED
      BY <2>3, <3>3, <3>4 DEF OneInCharge
  <2>6. ASSUME NEW h \in 0 .. last, OneInCharge(h), SharedHeight(c, h) PROVE FALSE
    BY <2>3, <2>6 DEF OneInCharge, SharedHeight
  <2>7. ASSUME ~NoneWraps(c), \A h \in 0 .. last : OneInCharge(h) PROVE FALSE
    <3>1. SharedHeight(c, 0)
      BY <2>1, <2>2, <2>7, WrapShares
    <3>2. c[Len(c)].stop \in Optional /\ 2^W \in Int
      BY <2>1, <2>3, ConfigType, WidthAssumption
    <3>3. \E h : h \in FirstHeight(c[Len(c)]) .. last
      BY DEF RangeOf
    <3>4. 0 \in 0 .. last
      <4>1. FirstHeight(c[Len(c)]) \in Nat /\ last \in Int
        <5>1. c[Len(c)].start \in Optional /\ Len(c) \in 1 .. Len(c)
          BY <2>1, <2>3, ConfigType
        <5>2. last \in Int
          BY <2>1, <5>1, HeightType
        <5> QED
          BY <5>1, <5>2, <3>2 DEF FirstHeight, Optional, Heights
      <4> QED
        BY <3>3, <4>1
    <3> QED
      BY <2>6, <2>7, <3>1, <3>4
  <2>8. ASSUME NoneWraps(c), ~NoneFallsBack(c, 1), \A h \in 0 .. last : OneInCharge(h)
        PROVE  FALSE
    <3>1. PICK h \in 0 .. last : SharedHeight(c, h)
      BY <2>1, <2>2, <2>8, FallBackShares
    <3> QED
      BY <2>6, <2>8, <3>1
  <2> QED
    BY <2>4, <2>5, <2>7, <2>8
<1> QED
  BY <1>1, VerdictInvHolds, PTL

\* What the run loop takes for granted of a config file: there is a version to
\* run, and every version but the last says where it stops, which is right
\* below where the next one starts.
Consecutive ==
    Accepted =>
        /\ Len(config) # 0
        /\ config[1].start = None
        /\ \A i \in 1 .. Len(config) - 1 :
              /\ config[i].stop # None
              /\ config[i + 1].start = ExpectedStart(config[i].stop)

\* The manager runs no config in which two versions do not follow each other: the
\* loop that checks the heights is left early for an error only.
THEOREM AcceptedIsConsecutive == Spec => []Consecutive
<1>1. ASSUME VerdictInv PROVE Consecutive
  <2> DEFINE c == config
  <2> SUFFICES ASSUME Accepted
               PROVE  /\ Len(c) # 0 /\ c[1].start = None
                      /\ \A i \in 1 .. Len(c) - 1 :
                            c[i].stop # None /\ c[i + 1].start = ExpectedStart(c[i].stop)
    BY DEF Consecutive
  <2>1. PICK b \in Builds : Validate(c, b) = Ok
    BY <1>1, VerdictAssumption DEF VerdictInv, Accepted
  <2>2. Len(c) \in Nat
    BY <1>1, ConfigType DEF VerdictInv
  <2>3. /\ Len(c) # 0 /\ c[1].start = None
        /\ Len(c) = 1 \/ CheckRest(c, b) = Ok
    BY <2>1 DEF Validate, Err, Ok
  <2>4. ASSUME NEW i \in 1 .. Len(c) - 1 PROVE CheckVersion(c, i, b) = Ok
    <3>1. ASSUME Len(c) = 1 PROVE FALSE
      BY <3>1
    <3>2. CheckRest(c, b) = Ok
      BY <2>3, <3>1
    <3>3. \A k \in 1 .. Len(c) - 1 : CheckVersion(c, k, b) = Ok
      BY <2>2, <3>2, RestChecked
    <3> QED
      BY <3>3
  <2> QED
    BY <2>3, <2>4, VersionChecked
<1> QED
  BY <1>1, VerdictInvHolds, PTL

\* A config as README and tests mean it to be: each version starts right above the
\* stop height of the one before, and no sum overflows.
WellFormed(c) ==
    /\ Len(c) # 0
    /\ c[1].start = None
    /\ \A i \in 1 .. Len(c) - 1 :
          /\ c[i].stop \in Heights \ {2^W - 1}
          /\ c[i + 1].start = c[i].stop + 1

\* Nothing else is refused: a config whose versions follow each other is accepted
\* whichever way the manager is built.
WellFormedAccepted == (verdict # None /\ WellFormed(config)) => Accepted

THEOREM WellFormedIsAccepted == Spec => []WellFormedAccepted
<1>1. ASSUME VerdictInv PROVE WellFormedAccepted
  <2> DEFINE c == config
  <2> SUFFICES ASSUME NEW b \in Builds, WellFormed(c) PROVE Validate(c, b) = Ok
    BY <1>1 DEF VerdictInv, WellFormedAccepted, Accepted
  <2>1. Len(c) \in Nat /\ 2^W \in Int
    BY <1>1, ConfigType, WidthAssumption DEF VerdictInv
  <2>2. ASSUME NEW i \in 1 .. Len(c) - 1 PROVE CheckVersion(c, i, b) = Ok
    <3>1. /\ c[i].stop \in Heights /\ c[i].stop < 2^W - 1 /\ c[i].stop # None
          /\ c[i + 1].start = c[i].stop + 1
      <4>1. /\ c[i].stop \in Heights /\ c[i].stop # 2^W - 1
            /\ c[i + 1].start = c[i].stop + 1
        BY DEF WellFormed
      <4>2. ASSUME NEW m \in Int, NEW x \in 0 .. m - 1, x # m - 1
            PROVE  x \in Nat /\ x < m - 1
        BY <4>2
      <4>3. c[i].stop \in Nat /\ c[i].stop < 2^W - 1
        BY <2>1, <4>1, <4>2 DEF Heights
      <4> QED
        BY <4>1, <4>3, NoneAssumption
    <3>2. ExpectedStart(c[i].stop) = c[i].stop + 1
      BY <3>1, NextHeight
    <3>3. c[i].stop + 1 # None /\ c[i].stop # 2^W - 1
      BY <2>1, <3>1, NoneAssumption DEF Heights
    <3>4. ASSUME i < Len(c) - 1 PROVE c[i + 1].stop # None
      <4>1. i + 1 \in 1 .. Len(c) - 1
        BY <2>1, <3>4
      <4> QED
        BY <4>1, NoneAssumption DEF WellFormed, Heights
    <3> QED
      BY <3>1, <3>2, <3>3, <3>4 DEF CheckVersion
  <2>3. CheckRest(c, b) = Ok
    BY <2>1, <2>2, RestChecked
  <2>4. ASSUME Len(c) # 1 PROVE c[1].stop # None
    <3>1. ASSUME NEW n \in Nat, n # 0, n # 1 PROVE 1 \in 1 .. n - 1
      BY <3>1
    <3>2. Len(c) # 0 /\ 1 \in 1 .. Len(c) - 1
      BY <2>1, <2>4, <3>1 DEF WellFormed
    <3> QED
      BY <3>2, NoneAssumption DEF WellFormed, Heights
  <2> QED
    BY <2>3, <2>4 DEF WellFormed, Validate
<1> QED
  BY <1>1, VerdictInvHolds, PTL

-----------------------------------------------------------------------------
(* Which version is named.                                                  *)

\* The first versions of a config, the last of them left open.
Before(c, n) == [SubSeq(c, 1, n) EXCEPT ![n].stop = None]

LEMMA BeforeFields ==
    ASSUME NEW c \in Configs, NEW n \in 1 .. Len(c)
    PROVE  /\ Len(Before(c, n)) = n
           /\ \A i \in 1 .. n : Before(c, n)[i].start = c[i].start
           /\ \A i \in 1 .. n - 1 : Before(c, n)[i].stop = c[i].stop
<1> DEFINE s == SubSeq(c, 1, n)
<1>1. c \in Seq(RollupVersion) /\ Len(c) \in Nat
  BY ConfigType
<1>2. \A i \in 1 .. n : c[i] \in RollupVersion
  BY <1>1
<1>3. s \in Seq(RollupVersion) /\ Len(s) = n /\ \A i \in 1 .. n : s[i] = c[i]
  BY <1>1, <1>2, SubSeqProperties
<1> HIDE DEF s
<1>4. s[n] \in RollupVersion
  BY <1>2, <1>3
<1>5. [s[n] EXCEPT !.stop = None] \in RollupVersion
      /\ [s[n] EXCEPT !.stop = None].start = s[n].start
  BY <1>4 DEF RollupVersion, Optional
<1>6. Before(c, n) = [s EXCEPT ![n] = [s[n] EXCEPT !.stop = None]]
  BY DEF Before, s
<1> QED
  BY <1>3, <1>5, <1>6, ExceptSeq

\* Without the version that is named as wrong and those after it the config would
\* have been accepted.
THEOREM FirstFaultNamed == Spec => []FirstFaultIsNamed
<1>1. ASSUME VerdictInv PROVE FirstFaultIsNamed
  <2> DEFINE c == config
  <2> SUFFICES ASSUME NEW b \in Builds, Validate(c, b) # Ok, Validate(c, b).index > 0
               PROVE  Validate(Before(c, Validate(c, b).index), b) = Ok
    BY <1>1 DEF VerdictInv, FirstFaultIsNamed, Before
  <2>1. c \in Configs /\ Len(c) \in Nat
    BY <1>1, ConfigType DEF VerdictInv
  <2>2. /\ Validate(c, b) = CheckRest(c, b)
        /\ c[1].start = None /\ c[1].stop # None
    BY VerdictOnVersion
  <2>3. PICK n \in 1 .. Len(c) - 1 :
           /\ CheckRest(c, b) = CheckVersion(c, n, b) /\ CheckVersion(c, n, b) # Ok
           /\ \A j \in 1 .. n - 1 : CheckVersion(c, j, b) = Ok
    BY <2>1, <2>2, RestChecked
  <2>4. Validate(c, b).index = n
    BY <2>2, <2>3 DEF CheckVersion, Err, Ok
  <2> DEFINE d == Before(c, n)
  <2>5. /\ Len(d) = n
        /\ \A i \in 1 .. n : d[i].start = c[i].start
        /\ \A i \in 1 .. n - 1 : d[i].stop = c[i].stop
    BY <2>1, BeforeFields
  <2> HIDE DEF d
  <2>6. ASSUME NEW i \in 1 .. n - 1 PROVE CheckVersion(d, i, b) = Ok
    <3>1. /\ i \in 1 .. n /\ i + 1 \in 1 .. n
          /\ i < n - 1 => i + 1 \in 1 .. n - 1 /\ i < Len(c) - 1
      BY <2>1
    <3>2. /\ d[i + 1].start = c[i + 1].start /\ d[i].stop = c[i].stop
          /\ i < n - 1 => d[i + 1].stop = c[i + 1].stop
      BY <2>5, <3>1
    <3>3. CheckVersion(c, i, b) = Ok
      BY <2>3
    <3> QED
      BY <2>5, <3>1, <3>2, <3>3 DEF CheckVersion, Err, Ok
  <2>7. CheckRest(d, b) = Ok
    BY <2>5, <2>6, RestChecked
  <2>8. d[1].start = None /\ (n # 1 => d[1].stop # None)
    BY <2>2, <2>5
  <2>9. Validate(d, b) = Ok
    BY <2>5, <2>7, <2>8 DEF Validate
  <2> QED
    BY <2>4, <2>9 DEF d
<1> QED
  BY <1>1, VerdictInvHolds, PTL

-----------------------------------------------------------------------------
(* What validate does not look at.                                          *)

\* Two configs that have the same heights except for the last stop height, which
\* both have.
SameButLastStop(c, d) ==
    /\ DOMAIN c = DOMAIN d /\ Len(c) = Len(d)
    /\ \A i \in 1 .. Len(c) : c[i].start = d[i].start
    /\ \A i \in 1 .. Len(c) - 1 : c[i].stop = d[i].stop
    /\ c[Len(c)].stop # None /\ d[Len(c)].stop # None

\* validate does not look at the last stop height.
LEMMA LastStopUnchecked ==
    ASSUME NEW c, NEW d, NEW b, Len(c) \in Nat, SameButLastStop(c, d)
    PROVE  Validate(c, b) = Validate(d, b)
<1> USE DEF SameButLastStop
<1>1. ASSUME NEW i \in 1 .. Len(c) - 1
      PROVE  CheckVersion(c, i, b) = CheckVersion(d, i, b)
  <2>1. i \in 1 .. Len(c) /\ i + 1 \in 1 .. Len(c) /\ i \in Nat
    OBVIOUS
  <2>2. c[i + 1].start = d[i + 1].start /\ c[i].stop = d[i].stop
    BY <2>1
  <2>3. i < Len(c) - 1 => c[i + 1].stop = d[i + 1].stop
    BY <2>1
  <2> QED
    BY <2>2, <2>3 DEF CheckVersion
<1>2. CheckRest(c, b) = CheckRest(d, b)
  <2> DEFINE wrong(e) == {i \in 1 .. Len(e) - 1 : CheckVersion(e, i, b) # Ok}
  <2>1. wrong(c) = wrong(d)
    BY <1>1
  <2>2. ASSUME wrong(c) # {}
        PROVE  CheckVersion(c, Min(wrong(c)), b) = CheckVersion(d, Min(wrong(c)), b)
    BY <1>1, <2>2, MinIsMember, wrong(c) \in SUBSET Nat
  <2> QED
    BY <2>1, <2>2 DEF CheckRest
<1> QED
  BY <1>2 DEF Validate

=============================================================================
