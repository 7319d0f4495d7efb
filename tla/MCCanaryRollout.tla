--------------------------- MODULE MCCanaryRollout ---------------------------
(* Small instances of the canary rollout for TLC. *)
EXTENDS CanaryRollout, TLC

CONSTANTS r1, r2, l1, l2, pod1

TwoRuns == {r1, r2}
RunSymmetry == Permutations(Runs)

W(samples, acc, rec, ece, abst) ==
    [samples |-> samples, route_accuracy |-> acc, escalation_recall |-> rec,
     ece |-> ece, abstain_rate |-> abst]

Good == W("enough", "within", "within", "within", "within")
Bad == W("enough", "below", "within", "within", "within")
TwoWindows == {Good, Bad}

TwoLookups == {l1, l2}
OnePod == {pod1}
SamePod == [l \in Lookups |-> pod1]
=============================================================================
