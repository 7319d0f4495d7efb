-------------------------- MODULE MCRecalibration --------------------------
(* Small instances of the daily evaluation and the recalibration for TLC. *)
EXTENDS Recalibration, TLC

CONSTANTS r1, refund, j1, j2

OneRequest == {r1}
OneJob == {j1}
TwoJobs == {j1, j2}
JobSymmetry == Permutations(Jobs)
OneRoute == {refund}
Escalation == {[escalate |-> TRUE, route |-> refund]}
=============================================================================
