-------------------------- MODULE MCSessionControl --------------------------
(* Instances of SessionControl for TLC.                                    *)
EXTENDS SessionControl, TLC

CONSTANTS c1, c2, profileDeviation, otherFinding

MCCallers == {c1, c2}
MCFindings == {profileDeviation, otherFinding}
MCPrerequisites == {Profiles}

\* Two callers are interchangeable.
CallerSymmetry == Permutations(MCCallers)

AllOps == SessionOps

\* A profile lock, the way out of it, and the same lock again.
RelockOps == {"ACTIVATE_PORTFOLIO", "RECONCILE", "PROFILE_LOCK", "UNLOCK", "ACKNOWLEDGE"}

=============================================================================
