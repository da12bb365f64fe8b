SPECIFICATION Spec
CONSTANTS
    Rtl = {r1, r2}
    Tb = {t1, t2}
    Modes = {"strict", "none"}
    Outcomes <- FewOutcomes
    Estimates <- FewEstimates
    MaxVerifyIters = 3
    MaxJudgeIters = 3
    MaxWalks = 2
SYMMETRY Symmetry
INVARIANTS
    TypeOK
    SlotsAreHonest
    PassIsEarned
PROPERTIES
    VerifyNeverWorsens
    NeverFewerThanGiven
CHECK_DEADLOCK FALSE
