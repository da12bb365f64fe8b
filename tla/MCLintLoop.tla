---- MODULE MCLintLoop ----
(* The lint loop with few answers: a strict backend may say anything, one     *)
(* that may fail says nothing or an error; a model's estimate also lists two  *)
(* errors, or a warning that hides a bug; without a backend nobody asks.      *)
EXTENDS LintLoop

Clean == [syntax |-> 0, error |-> 0, semantic |-> 0, hygiene |-> 0]

FewEstimates ==
    {Clean} \cup {[Clean EXCEPT !.error = n] : n \in 1 .. 2}
            \cup {[Clean EXCEPT !.semantic = 1]}

AnswersByMode ==
    [strict |-> Diagnosis, lenient |-> {Clean, [Clean EXCEPT !.error = 1]},
     none |-> {Clean}]
====
