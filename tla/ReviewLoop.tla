----------------------------- MODULE ReviewLoop -----------------------------
(* The fix loop of the review stages: rtlReviewNode (nodes/rtl_review.js) on  *)
(* the RTL and testReviewNode (nodes/test_review.js) on the testbench.  A     *)
(* model reviews the code held; while it asks for a fix, a chain regenerates  *)
(* the code and reviews the result, or without the services to walk one, a    *)
(* fix is asked for inline and reviewed again.  A candidate is adopted if     *)
(* the linter and, for RTL, the frozen acceptance suite allow it, and dropped *)
(* again if its review went backwards.                                        *)
(*                                                                            *)
(* Code is an identity and what is measured of it.  The syntactic repair of a *)
(* candidate is done by the stage that generates it: repairing it once more   *)
(* changes nothing.                                                           *)
EXTENDS Integers

CONSTANTS
    Nodes,       \* the stages explored: a subset of {"rtl_review", "test_review"}
    MaxRepairs,  \* config.maxRtlReviewIters, config.maxTestReviewIters
    Check,       \* the checks of the frozen acceptance suite
    MaxIssues,   \* bound: findings of a sort in one lint or review
    Candidates,  \* bound: what may be measured of code, by node
    Opinions,    \* bound: what a reviewer may say
    Earlier      \* bound: what may be in the slot from an earlier run

ASSUME NodesKnown == Nodes \subseteq {"rtl_review", "test_review"}
ASSUME MaxRepairsIsNat == MaxRepairs \in Nat
ASSUME MaxIssuesIsNat == MaxIssues \in Nat

VARIABLES
    cfg,      \* the node and what it runs with
    pc,       \* review, loop, walk, fix, reask, rereview, finish, done,
              \* conflict, thrown
    iter,     \* iter
    given,    \* code, tbCode: what the node was given
    code,     \* finalCode, finalTB
    before,   \* beforeCode, beforeTB
    review,   \* review
    last,     \* fixOutcome of the last iteration
    budget,   \* the shared repair budget
    blocked,  \* acceptanceBlocked
    tried,    \* candidates produced
    asked,    \* history: repairs asked for
    lost      \* history: a walk has lost its review

vars == <<cfg, pc, iter, given, code, before, review, last, budget, blocked,
          tried, asked, lost>>

-----------------------------------------------------------------------------
(* Code and what is said of it. *)

None == [none |-> TRUE]

Issues == 0 .. MaxIssues
Lint == [errors: Issues, semantic: Issues]

\* What is measured: the linter's counts, whether the acceptance suite runs to
\* an end and the checks it passes, and whether a testbench has checks that
\* compare nothing of the design.
Facts == [lint: Lint, measured: BOOLEAN, passes: SUBSET Check, hollow: BOOLEAN]

Code == [id: Nat, facts: Facts]

\* A review without a score has -1; blocking findings are critical or major;
\* a conflict is one that disputes the specification.
Opinion == [verdict: {"PASS", "NEEDS_FIX"}, score: Int, major: Nat, minor: Nat,
            conflict: BOOLEAN]

\* A review and the code it was made of: -1 for code older than the given.
Review == [of: Int, said: Opinion]

ASSUME CandidatesAreFacts == Candidates \in [Nodes -> SUBSET Facts]
ASSUME OnlyTestbenchesAreHollow ==
    \A n \in Nodes : \A f \in Candidates[n] : f.hollow => n = "test_review"
ASSUME OpinionsAreOpinions == Opinions \subseteq Opinion
ASSUME EarlierAreReviews ==
    \A r \in Earlier : r # None => r \in Review /\ r.of = -1 /\ ~r.said.conflict

\* chain: services to walk a chain; backend: whether the linter and the suites
\* run, may fail or are missing; earlier: the review in the slot of the state
\* a chain of judge or verify invokes the node on (a stage run of its own is
\* given none); disputed: a conflict is pending in that state.
Config == [node: Nodes, chain: BOOLEAN, backend: {"sure", "flaky", "none"},
           earlier: Earlier, disputed: BOOLEAN]

Least(m, n) == IF m < n THEN m ELSE n

\* A testbench whose checks discriminate nothing cannot pass.
enforceCheckCoverage(o) ==
    [verdict |-> "NEEDS_FIX", score |-> IF o.score < 0 THEN 60 ELSE Least(o.score, 60),
     major |-> o.major + 1, minor |-> o.minor, conflict |-> o.conflict]

\* What a reviewer may say of code c.
ReviewsOf(c) ==
    {[of |-> c.id,
      said |-> IF c.facts.hollow THEN enforceCheckCoverage(o) ELSE o] :
        o \in Opinions}

\* The compile-honesty gate: a verdict cannot stand on code with errors, unless
\* the linter does not answer.
Gated(r, c) ==
    IF c.facts.lint.errors = 0 \/ cfg.backend = "none" THEN {r}
    ELSE {[r EXCEPT !.said.verdict = "NEEDS_FIX"]}
            \cup (IF cfg.backend = "flaky" THEN {r} ELSE {})

Blocking(o) == IF o.major > 0 THEN o.major ELSE o.minor

\* Both signals say that the fix went backwards.
reviewFixRegressed(prior, o) ==
    /\ prior.score >= 0 /\ o.score >= 0
    /\ o.score < prior.score
    /\ Blocking(o) >= Blocking(prior)

-----------------------------------------------------------------------------
(* The repair allowance, shared by every review below the owner. *)

Stops == {"none", "exhausted", "repeated", "blocked"}
Budget == [used: Nat, rejected: BOOLEAN, stop: Stops]

\* Mutant of CanTake: the last repair is never spent.
CanTakeFewer == budget.stop = "none" /\ budget.used + 1 < MaxRepairs

CanTake == budget.stop = "none" /\ budget.used < MaxRepairs
Taken == [budget EXCEPT !.used = @ + 1]
Refused == [budget EXCEPT !.stop = IF @ = "none" THEN "exhausted" ELSE @]

\* A rejection that equals one before it is the last.
Rejections ==
    {[budget EXCEPT !.rejected = TRUE]}
        \cup (IF budget.rejected THEN {[budget EXCEPT !.stop = "repeated"]} ELSE {})

-----------------------------------------------------------------------------
(* The quality bar of a candidate p. *)

\* Mutant of lintAdoptionRegression: warnings alone do not reject.
lintAdoptionErrors(p, c) == p.facts.lint.errors > c.facts.lint.errors

\* The linter finds more errors in p than in c, or more warnings that hide bugs.
lintAdoptionRegression(p, c) ==
    p.facts.lint.errors > c.facts.lint.errors
        \/ p.facts.lint.semantic > c.facts.lint.semantic

LintRejects(p) == cfg.backend # "none" /\ lintAdoptionRegression(p, code)

\* A linter that does not answer rejects nothing.
LintAbstains(p) == cfg.backend # "sure" \/ ~lintAdoptionRegression(p, code)

\* Mutant of Improves: a check that passes now outweighs those that do not.
ImprovesByAny(p) ==
    /\ p.facts.measured /\ code.facts.measured
    /\ p.facts.passes \ code.facts.passes # {}

\* acceptance.compare(p, code): measured on the same frozen suites, p passes
\* what the incumbent passes and more.
Improves(p) ==
    /\ p.facts.measured /\ code.facts.measured
    /\ code.facts.passes \subseteq p.facts.passes
    /\ code.facts.passes # p.facts.passes

\* Only RTL is measured, and only measured evidence adopts it.
Accepted(p) ==
    \/ cfg.node = "test_review"
    \/ cfg.backend # "none" /\ Improves(p)

\* Measuring may fail.
Unaccepted(p) ==
    /\ cfg.node = "rtl_review"
    /\ cfg.backend # "sure" \/ ~Improves(p)

\* qualifyReviewFix and qualifyTbCandidate: worse, adopted, or kept as a
\* proposal, which blocks the loop.
Qualify(p) ==
    {q \in {"worse", "adopted", "proposal"} :
        \/ q = "worse" /\ LintRejects(p)
        \/ q = "adopted" /\ LintAbstains(p) /\ Accepted(p)
        \/ q = "proposal" /\ LintAbstains(p) /\ Unaccepted(p)}

\* The code a fix or a regeneration comes with.
Candidate(f) == [id |-> tried + 1, facts |-> f]
Offered == {Candidate(f) : f \in Candidates[cfg.node]}

-----------------------------------------------------------------------------
Init ==
    /\ cfg \in Config
    /\ pc = "review"
    /\ iter = 1
    /\ given \in {[id |-> 0, facts |-> f] : f \in Candidates[cfg.node]}
    /\ code = given
    /\ before = given
    /\ review = None
    /\ last = "initial"
    /\ budget = [used |-> 0, rejected |-> FALSE, stop |-> "none"]
    /\ blocked = FALSE
    /\ tried = 0
    /\ asked = 0
    /\ lost = FALSE

\* The conflict pending in the state is reported before anything is reviewed.
AlreadyDisputed ==
    /\ pc = "review" /\ cfg.disputed
    /\ pc' = "conflict"
    /\ UNCHANGED <<cfg, iter, given, code, before, review, last, budget,
                   blocked, tried, asked, lost>>

InitialReview ==
    /\ pc = "review" /\ ~cfg.disputed
    /\ review' \in ReviewsOf(code)
    /\ pc' = IF review'.said.conflict THEN "conflict" ELSE "loop"
    /\ UNCHANGED <<cfg, iter, given, code, before, last, budget, blocked,
                   tried, asked, lost>>

\* The condition of the loop.
Wants ==
    /\ iter <= MaxRepairs
    /\ review.said.verdict = "NEEDS_FIX"
    /\ review.said.major > 0

\* The review of a fix disputes the specification.
Dispute ==
    /\ pc = "loop" /\ Wants /\ review.said.conflict
    /\ pc' = "conflict"
    /\ UNCHANGED <<cfg, iter, given, code, before, review, last, budget,
                   blocked, tried, asked, lost>>

\* The review is content, the iterations are used up, a proposal is waiting or
\* the last fix changed nothing.
Leave ==
    /\ pc = "loop"
    /\ \/ ~Wants
       \/ ~review.said.conflict /\ (blocked \/ last = "identical")
    /\ pc' = "finish"
    /\ UNCHANGED <<cfg, iter, given, code, before, review, last, budget,
                   blocked, tried, asked, lost>>

Goes == Wants /\ ~review.said.conflict /\ ~blocked /\ last # "identical"

OutOfRepairs ==
    /\ pc = "loop" /\ Goes /\ ~CanTake
    /\ budget' = Refused
    /\ pc' = "finish"
    /\ UNCHANGED <<cfg, iter, given, code, before, review, last, blocked,
                   tried, asked, lost>>

\* One iteration: the chain if one can be walked, or a fix asked for inline.
Begin ==
    /\ pc = "loop" /\ Goes /\ CanTake
    /\ budget' = Taken
    /\ asked' = asked + 1
    /\ before' = code
    /\ pc' = IF cfg.chain THEN "walk" ELSE "fix"
    /\ UNCHANGED <<cfg, iter, given, code, review, last, blocked, tried, lost>>

\* The iteration is entered in the ledger with its outcome; the loop goes on.
NextIteration(outcome) ==
    /\ last' = outcome
    /\ iter' = iter + 1
    /\ pc' = "loop"

\* Mutant of AdoptVerdict: on a regression the code that was fixed stays.
AdoptVerdictKeepsCode(r, c) ==
    IF reviewFixRegressed(review.said, r.said)
    THEN /\ code' = c
         /\ budget' \in Rejections
         /\ NextIteration("rejected")
         /\ UNCHANGED review
    ELSE /\ code' = c
         /\ review' = r
         /\ NextIteration(IF c = before THEN "identical" ELSE "adopted")
         /\ UNCHANGED budget

\* What is done with a verdict r on code c, adopted: if both signals say that
\* it went backwards, the code from before and its review are kept.
AdoptVerdict(r, c) ==
    IF reviewFixRegressed(review.said, r.said)
    THEN /\ code' = before
         /\ budget' \in Rejections
         /\ NextIteration("rejected")
         /\ UNCHANGED review
    ELSE /\ code' = c
         /\ review' = r
         /\ NextIteration(IF c = before THEN "identical" ELSE "adopted")
         /\ UNCHANGED budget

\* A candidate is kept out; the code and its review stay.
KeepOut ==
    /\ budget' \in Rejections
    /\ NextIteration("rejected")
    /\ UNCHANGED <<code, review>>

-----------------------------------------------------------------------------
(* The chain: a stage regenerates the code, then this node reviews it, once   *)
(* and without a loop of its own.                                             *)

NestedReviews(c) == UNION {Gated(r, c) : r \in ReviewsOf(c)}

\* The verdict found in the slot once code c has been generated: that of the
\* nested review, unless its entry failed or was not run: then the slot is as
\* it was before the walk.
Verdicts(c) ==
    {[review |-> r, lost |-> lost] :
        r \in {n \in NestedReviews(c) : ~n.said.conflict}}
    \cup {[review |-> cfg.earlier, lost |-> TRUE]}

\* The node looks at the slot after a walk that ended with code c.
AdoptSlot(c) ==
    \E v \in Verdicts(c) :
        /\ lost' = v.lost
        /\ IF v.review # None THEN AdoptVerdict(v.review, c)
           ELSE /\ code' = c
                /\ NextIteration(IF c = before THEN "identical" ELSE "adopted")
                /\ UNCHANGED <<review, budget>>

\* The nested review disputes the specification: the code stays.
WalkConflict ==
    /\ pc = "walk"
    /\ \E c \in Offered \cup {code} :
         \E r \in {n \in NestedReviews(c) : n.said.conflict} :
            review' = r
    /\ pc' = "conflict"
    /\ UNCHANGED <<cfg, iter, given, code, before, last, budget, blocked,
                   tried, asked, lost>>

\* The stage had the same code to offer.
WalkUnchanged ==
    /\ pc = "walk"
    /\ AdoptSlot(code)
    /\ UNCHANGED <<cfg, given, before, blocked, tried, asked>>

\* rtl_generate itself kept its proposal out; reasons that no further attempt
\* could change end the loop.
WalkRejected ==
    /\ pc = "walk" /\ cfg.node = "rtl_review"
    /\ \E b \in Rejections, final \in BOOLEAN :
        /\ budget' = IF final THEN [b EXCEPT !.stop = "blocked"] ELSE b
        /\ blocked' = final
    /\ tried' = tried + 1
    /\ NextIteration("rejected")
    /\ UNCHANGED <<cfg, given, code, before, review, asked, lost>>

\* The stage regenerated an empty module: a complete one is asked for.
WalkGutted ==
    /\ pc = "walk" /\ cfg.node = "rtl_review"
    /\ pc' = "reask"
    /\ tried' = tried + 1
    /\ UNCHANGED <<cfg, iter, given, code, before, review, last, budget,
                   blocked, asked, lost>>

\* The new testbench has lost its infrastructure.
WalkInfraLost ==
    /\ pc = "walk" /\ cfg.node = "test_review"
    /\ KeepOut
    /\ tried' = tried + 1
    /\ UNCHANGED <<cfg, given, before, blocked, asked, lost>>

\* Mutant of WalkNew: the verdict of a candidate kept out is adopted.
WalkNewVerdictAnyway ==
    /\ pc = "walk"
    /\ \E p \in Offered : \E q \in Qualify(p) :
        IF q = "adopted" THEN AdoptSlot(p) /\ UNCHANGED blocked
        ELSE /\ \E r \in NestedReviews(p) : review' = r
             /\ budget' \in Rejections /\ NextIteration("rejected")
             /\ blocked' = (blocked \/ q = "proposal")
             /\ UNCHANGED <<code, lost>>
    /\ tried' = tried + 1
    /\ UNCHANGED <<cfg, given, before, asked>>

\* New code: adopted with the verdict in the slot, or kept out without it.
WalkNew ==
    /\ pc = "walk"
    /\ \E p \in Offered : \E q \in Qualify(p) :
        IF q = "adopted" THEN AdoptSlot(p) /\ UNCHANGED blocked
        ELSE KeepOut /\ blocked' = (blocked \/ q = "proposal") /\ UNCHANGED lost
    /\ tried' = tried + 1
    /\ UNCHANGED <<cfg, given, before, asked>>

-----------------------------------------------------------------------------
(* The inline fix, without the services for a chain. *)

\* No code, or the same: the review that follows looks at what it looked at.
FixNothing ==
    /\ pc = "fix"
    /\ pc' = "rereview"
    /\ UNCHANGED <<cfg, iter, given, code, before, review, last, budget,
                   blocked, tried, asked, lost>>

\* The syntactic repair of the fix gives the current RTL back.
FixUndone ==
    /\ pc = "fix" /\ cfg.node = "rtl_review"
    /\ pc' = "finish"
    /\ UNCHANGED <<cfg, iter, given, code, before, review, last, budget,
                   blocked, tried, asked, lost>>

FixGutted ==
    /\ pc = "fix" /\ cfg.node = "rtl_review"
    /\ pc' = "reask"
    /\ tried' = tried + 1
    /\ UNCHANGED <<cfg, iter, given, code, before, review, last, budget,
                   blocked, asked, lost>>

FixInfraLost ==
    /\ pc = "fix" /\ cfg.node = "test_review"
    /\ KeepOut
    /\ tried' = tried + 1
    /\ UNCHANGED <<cfg, given, before, blocked, asked, lost>>

FixNew ==
    /\ pc = "fix"
    /\ \E p \in Offered : \E q \in Qualify(p) :
        IF q = "adopted"
        THEN /\ code' = p
             /\ pc' = "rereview"
             /\ UNCHANGED <<iter, review, last, budget, blocked>>
        ELSE KeepOut /\ blocked' = (blocked \/ q = "proposal")
    /\ tried' = tried + 1
    /\ UNCHANGED <<cfg, given, before, asked, lost>>

\* Mutant of Reask: the second request is for free.
ReaskForFree ==
    /\ pc = "reask"
    /\ asked' = asked + 1
    /\ tried' = tried + 1
    /\ \/ pc' = "finish" /\ UNCHANGED <<code, blocked>>
       \/ \E p \in Offered : \E q \in Qualify(p) :
            IF q = "adopted"
            THEN code' = p /\ pc' = "rereview" /\ UNCHANGED blocked
            ELSE /\ blocked' = (blocked \/ q = "proposal")
                 /\ pc' = "finish"
                 /\ UNCHANGED code
    /\ UNCHANGED <<cfg, iter, given, before, review, last, budget, lost>>

\* reaskCompleteModule: once more, and it costs a repair of its own.
Reask ==
    /\ pc = "reask" /\ CanTake
    /\ asked' = asked + 1
    /\ tried' = tried + 1
    /\ \/ \* empty or unchanged again
          /\ budget' = Taken
          /\ pc' = "finish"
          /\ UNCHANGED <<code, blocked>>
       \/ \E p \in Offered : \E q \in Qualify(p) :
            IF q = "adopted"
            THEN /\ budget' = Taken
                 /\ code' = p
                 /\ pc' = "rereview"
                 /\ UNCHANGED blocked
            ELSE /\ \E b \in Rejections : budget' = [b EXCEPT !.used = @ + 1]
                 /\ blocked' = (blocked \/ q = "proposal")
                 /\ pc' = "finish"
                 /\ UNCHANGED code
    /\ UNCHANGED <<cfg, iter, given, before, review, last, lost>>

ReaskRefused ==
    /\ pc = "reask" /\ ~CanTake
    /\ budget' = Refused
    /\ pc' = "finish"
    /\ UNCHANGED <<cfg, iter, given, code, before, review, last, blocked,
                   tried, asked, lost>>

\* The review after an inline fix.  That of a complete module asked for after
\* a chain is taken as it is.
Rereview ==
    /\ pc = "rereview"
    /\ \E r \in ReviewsOf(code) :
        IF ~cfg.chain THEN AdoptVerdict(r, code)
        ELSE /\ review' = r
             /\ NextIteration("adopted")
             /\ UNCHANGED <<code, budget>>
    /\ UNCHANGED <<cfg, given, before, blocked, tried, asked, lost>>

-----------------------------------------------------------------------------
\* The gate, the budget's report and a last look for a conflict.  rtl_review
\* reports before it faces the gate.
Finish ==
    /\ pc = "finish"
    /\ review' \in Gated(review, code)
    /\ LET reported == IF cfg.node = "rtl_review" THEN review ELSE review'
       IN  budget' = IF /\ reported.said.verdict = "NEEDS_FIX"
                        /\ budget.used >= MaxRepairs
                     THEN Refused ELSE budget
    /\ pc' = IF review.said.conflict THEN "conflict" ELSE "done"
    /\ UNCHANGED <<cfg, iter, given, code, before, last, blocked, tried,
                   asked, lost>>

\* A model call fails, its answer holds no JSON, or the user aborts.
Throw ==
    /\ pc \in {"review", "walk", "fix", "reask", "rereview"}
    /\ ~cfg.disputed
    /\ pc' = "thrown"
    /\ UNCHANGED <<cfg, iter, given, code, before, review, last, budget,
                   blocked, tried, asked, lost>>

Returned == pc \in {"done", "conflict", "thrown"} /\ UNCHANGED vars

Next ==
    \/ AlreadyDisputed \/ InitialReview
    \/ Dispute \/ Leave \/ OutOfRepairs \/ Begin
    \/ WalkConflict \/ WalkUnchanged \/ WalkRejected \/ WalkGutted
    \/ WalkInfraLost \/ WalkNew
    \/ FixNothing \/ FixUndone \/ FixGutted \/ FixInfraLost \/ FixNew
    \/ Reask \/ ReaskRefused \/ Rereview
    \/ Finish \/ Throw \/ Returned

Spec == Init /\ [][Next]_vars

-----------------------------------------------------------------------------
\* Types, the bounds of the loop's counters, and that repairs are only refused
\* when they have all been spent.
TypeOK ==
    /\ cfg \in Config
    /\ pc \in {"review", "loop", "walk", "fix", "reask", "rereview", "finish",
               "done", "conflict", "thrown"}
    /\ iter \in 1 .. MaxRepairs + 1
    /\ pc \in {"walk", "fix", "reask", "rereview"} => iter <= MaxRepairs
    /\ given \in Code /\ code \in Code /\ before \in Code
    /\ review \in Review \cup {None}
    /\ last \in {"initial", "adopted", "identical", "rejected"}
    /\ budget \in Budget
    /\ budget.stop = "exhausted" => budget.used = MaxRepairs
    /\ blocked \in BOOLEAN /\ lost \in BOOLEAN
    /\ tried \in Nat /\ asked \in Nat

\* The allowance is one for the whole tree: a repair is asked for, inline, by
\* a chain or again after an empty module, only if it has been paid for.
RepairsArePaid == asked <= budget.used /\ budget.used <= MaxRepairs

\* Whatever was rejected, restored or asked for again, the review the loop
\* goes on with is one of the code it holds, unless a walk lost its review.
ReviewDescribesCode ==
    pc \in {"loop", "walk", "fix", "reask", "finish", "done"} /\ ~lost =>
        review.of = code.id

\* A PASS was given to the code that is shipped, and neither to a testbench
\* that compares nothing nor to code the linter finds errors in; unless it is
\* the verdict an earlier run left in the slot, and even that faces the linter.
PassIsEarned ==
    pc = "done" /\ review.said.verdict = "PASS" =>
        /\ cfg.backend = "sure" => code.facts.lint.errors = 0
        /\ \/ review = cfg.earlier /\ lost
           \/ review.of = code.id /\ ~code.facts.hollow

\* With a linter that answers, no fix makes the code lint worse than it was
\* given, in errors or in warnings that hide bugs, however many are adopted.
NeverLintsWorse ==
    cfg.backend = "sure" =>
        /\ code.facts.lint.errors <= given.facts.lint.errors
        /\ code.facts.lint.semantic <= given.facts.lint.semantic

\* A review of RTL that changes it never loses an acceptance check the given
\* RTL passed, and gains one.
NeverLosesAPass ==
    cfg.node = "rtl_review" /\ code # given =>
        /\ given.facts.passes \subseteq code.facts.passes
        /\ given.facts.passes # code.facts.passes
=============================================================================
