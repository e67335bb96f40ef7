----------------------------- MODULE MCJobLease -----------------------------
(* Instances of JobLease for TLC.                                          *)
EXTENDS JobLease

CONSTANTS r1, r2, r3, worker, other

TwoRuns == {r1, r2}
ThreeRuns == {r1, r2, r3}
OneWorker == {worker}
TwoWorkers == {worker, other}

\* One process ticks again and again, or two processes side by side.
SameProcess == [r \in Runs |-> worker]
OwnProcess == [r \in TwoRuns |-> IF r = r1 THEN worker ELSE other]
TwoAndOne == [r \in ThreeRuns |-> IF r = r3 THEN other ELSE worker]

=============================================================================
