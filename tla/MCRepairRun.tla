---- MODULE MCRepairRun ----
\* Few outcomes: two compile failures, failing suites that the score and the
\* pass count rank differently, a green one and a crash.
EXTENDS RepairRun, MCCandidateSelection, MCLintLedger, TLC

Ran(p, f) == [pass |-> p, fail |-> f, blocking |-> 0, valid |-> TRUE]
Broken(n) == [pass |-> 0, fail |-> 1, blocking |-> n, valid |-> TRUE]
Crashed == [pass |-> 0, fail |-> 1, blocking |-> 0, valid |-> FALSE]

FewOutcomes == {Broken(1), Ran(1, 1), Ran(2, 2), Ran(2, 0), Crashed}
FewEstimates == {Ran(1, 1), Ran(2, 0)}

Symmetry == Permutations(Rtl) \cup Permutations(Tb)
====
