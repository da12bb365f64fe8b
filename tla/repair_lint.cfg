SPECIFICATION Spec
CONSTANTS
    Rtl = {r1, r2}
    Tb = {t1, t2}
    Modes = {"strict"}
    Outcomes <- FewOutcomes
    Estimates <- FewEstimates
    MaxVerifyIters = 3
    MaxJudgeIters = 3
    MaxWalks = 2
SYMMETRY Symmetry
INVARIANT PassMeansLintClean
CHECK_DEADLOCK FALSE
