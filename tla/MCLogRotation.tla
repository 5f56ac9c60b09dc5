---------------------------- MODULE MCLogRotation ----------------------------
(* Instances of LogRotation: one pod, or the two pods of a rollout. *)
EXTENDS LogRotation

CONSTANTS p1, p2
OnePod == {p1}
TwoPods == {p1, p2}
UpToThree == {1, 2, 3}
=============================================================================
