SPECIFICATION Spec
CONSTANTS
    Nodes = {"rtl_review", "test_review"}
    MaxRepairs = 4
    Check = {"c1", "c2"}
    MaxIssues = 2
    Candidates <- FewCandidates
    Opinions <- FewOpinions
    Earlier <- FewEarlier
INVARIANTS
    TypeOK
    RepairsArePaid
    ReviewDescribesCode
    PassIsEarned
    NeverLintsWorse
    NeverLosesAPass
