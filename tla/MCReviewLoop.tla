---- MODULE MCReviewLoop ----
(* The review loop with few codes and opinions: RTL by its lint and by the    *)
(* acceptance checks it passes, a testbench by its lint and by its checks.    *)
(* Also: the assumptions about RunBudget.                                     *)
EXTENDS ReviewLoop, MCRunBudget

Sound == [lint |-> [errors |-> 0, semantic |-> 0], measured |-> TRUE,
          passes |-> {}, hollow |-> FALSE]

FewCandidates ==
    [rtl_review |->
        {[Sound EXCEPT !.passes = p] : p \in SUBSET Check}
        \cup {[Sound EXCEPT !.passes = Check, !.lint.semantic = 1],
              [Sound EXCEPT !.lint.errors = 1, !.measured = FALSE]},
     test_review |->
        {Sound, [Sound EXCEPT !.hollow = TRUE],
         [Sound EXCEPT !.lint.errors = 1], [Sound EXCEPT !.lint.errors = 2],
         [Sound EXCEPT !.lint.semantic = 1]}]

Says(v, s, m) == [verdict |-> v, score |-> s, major |-> m, minor |-> 0,
                  conflict |-> FALSE]

FewOpinions ==
    {Says("PASS", 80, 0), Says("NEEDS_FIX", -1, 1), Says("NEEDS_FIX", 60, 2),
     Says("NEEDS_FIX", 50, 1), Says("NEEDS_FIX", 40, 2),
     [Says("NEEDS_FIX", 40, 1) EXCEPT !.conflict = TRUE]}

FewEarlier ==
    {None} \cup {[of |-> -1, said |-> Says("PASS", 80, 0)]}

\* Two steps of a fix may each be no regression and together be one.
ASSUME RegressionIsNotTransitive ==
    \E a, b, c \in FewOpinions :
        /\ ~reviewFixRegressed(a, b) /\ ~reviewFixRegressed(b, c)
        /\ reviewFixRegressed(a, c)
====
