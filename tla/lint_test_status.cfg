SPECIFICATION Spec
CONSTANTS
    Nodes = {"lint", "lint_test"}
    Modes = {"strict", "lenient", "none"}
    MaxIters = 4
    MaxIssues = 2
    Answers <- AnswersByMode
    Estimates <- FewEstimates
INVARIANT StatusIsHonest
