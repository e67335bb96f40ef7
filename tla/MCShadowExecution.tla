------------------------- MODULE MCShadowExecution -------------------------
(* Instances of ShadowExecution for TLC.                                   *)
EXTENDS ShadowExecution

CONSTANTS k1, k2, btc, eth, run1, run2

One == {k1}
Two == {k1, k2}
OneRun == {run1}
TwoRuns == {run1, run2}

\* A candidate of each direction on its own asset, or two on the same one.
OwnAssets == [c \in Two |-> IF c = k1 THEN btc ELSE eth]
SharedAsset == [c \in Two |-> btc]
OneAsset == [c \in One |-> btc]

LongShort == [c \in Two |-> IF c = k1 THEN "LONG" ELSE "SHORT"]
AllLong == [c \in Candidates |-> "LONG"]

\* Two units fill in one or two parts; three in up to three.
TwoAndOne == [c \in Two |-> IF c = k1 THEN 2 ELSE 1]
OneUnit == [c \in Candidates |-> 1]
TwoUnits == [c \in Candidates |-> 2]
ThreeUnits == [c \in Candidates |-> 3]

=============================================================================
