-------------------------- MODULE ReviewLoop_proofs --------------------------
(* Theorems about ReviewLoop, for any allowance, codes and opinions.          *)
(* Spec => []IInv by one lemma per action; the properties follow from IInv.   *)
EXTENDS ReviewLoop, TLAPS

\* Code the loop may hold: what a fix was allowed to change of the given.
Held(c, g, cf) ==
    /\ c \in Code
    /\ cf.backend = "sure" =>
        /\ c.facts.lint.errors <= g.facts.lint.errors
        /\ c.facts.lint.semantic <= g.facts.lint.semantic
    /\ cf.node = "rtl_review" /\ c # g =>
        /\ g.facts.passes \subseteq c.facts.passes
        /\ g.facts.passes # c.facts.passes

\* A verdict r on code c that may stand: with a review lost, l, that of an
\* earlier run.
Stands(r, c, cf, l) ==
    r.said.verdict = "PASS" =>
        \/ r = cf.earlier /\ l
        \/ r.of = c.id /\ ~c.facts.hollow

Fixing == {"walk", "fix", "reask", "rereview"}
Looping == Fixing \cup {"loop", "finish", "done"}

CodeInv ==
    /\ Held(code, given, cfg)
    /\ Held(before, given, cfg)
    /\ pc \in {"walk", "fix", "reask"} => code = before

\* A fix in progress is a fix of a review that asked for one; and until the
\* code it came with has been reviewed, the review is of the code before.
ReviewInv ==
    /\ pc \in Looping => review \in Review /\ Stands(review, code, cfg, lost)
    /\ pc \in Fixing => review.said.verdict = "NEEDS_FIX"
    /\ pc = "rereview" /\ ~lost => review.of = before.id

IInv ==
    /\ TypeOK /\ CodeInv /\ ReviewInv
    /\ RepairsArePaid /\ ReviewDescribesCode /\ PassIsEarned

-----------------------------------------------------------------------------
(* What the operators return. *)

LEMMA OfferedIsCode ==
    ASSUME TypeOK, NEW p \in Offered
    PROVE  p \in Code
  BY CandidatesAreFacts DEF TypeOK, Config, Offered, Candidate, Code

\* A review is of the code it was made of, and no PASS is of a hollow testbench.
LEMMA ReviewsAreReviews ==
    ASSUME NEW c \in Code, NEW r \in ReviewsOf(c)
    PROVE  /\ r \in Review /\ r.of = c.id
           /\ r.said.verdict = "PASS" => ~c.facts.hollow
  <1>1. PICK o \in Opinions :
          r = [of |-> c.id,
               said |-> IF c.facts.hollow THEN enforceCheckCoverage(o) ELSE o]
    BY DEF ReviewsOf
  <1>2. o \in Opinion
    BY OpinionsAreOpinions
  <1>3. enforceCheckCoverage(o) \in Opinion
        /\ enforceCheckCoverage(o).verdict = "NEEDS_FIX"
    <2>1. /\ o.minor \in Nat /\ o.conflict \in BOOLEAN
          /\ o.score \in Int /\ o.major + 1 \in Nat
      BY <1>2 DEF Opinion
    <2>2. (IF o.score < 0 THEN 60 ELSE Least(o.score, 60)) \in Int
      BY <2>1 DEF Least
    <2> QED BY <2>1, <2>2 DEF enforceCheckCoverage, Opinion
  <1>4. c.facts.hollow \in BOOLEAN /\ c.id \in Int
    BY DEF Code, Facts
  <1> QED BY <1>1, <1>2, <1>3, <1>4 DEF Review

\* The gate only ever takes a PASS away, and does so if it sees an error.
LEMMA GateIsHonest ==
    ASSUME NEW c \in Code, NEW r \in Review, NEW s \in Gated(r, c)
    PROVE  /\ s \in Review /\ s.of = r.of
           /\ s.said.verdict = "PASS" =>
                s = r /\ (cfg.backend = "sure" => c.facts.lint.errors = 0)
  <1>1. s = r \/ s = [r EXCEPT !.said.verdict = "NEEDS_FIX"]
    BY DEF Gated
  <1>2. /\ [r EXCEPT !.said.verdict = "NEEDS_FIX"] \in Review
        /\ [r EXCEPT !.said.verdict = "NEEDS_FIX"].of = r.of
        /\ [r EXCEPT !.said.verdict = "NEEDS_FIX"].said.verdict = "NEEDS_FIX"
    BY DEF Review, Opinion
  <1>3. s.said.verdict = "PASS" => s = r
    BY <1>1, <1>2
  <1>4. ASSUME s.said.verdict = "PASS", cfg.backend = "sure"
        PROVE  c.facts.lint.errors = 0
    BY <1>2, <1>4 DEF Gated
  <1> QED BY <1>1, <1>2, <1>3, <1>4

LEMMA NestedReviewsAreReviews ==
    ASSUME NEW c \in Code, NEW r \in NestedReviews(c)
    PROVE  /\ r \in Review /\ r.of = c.id
           /\ r.said.verdict = "PASS" => ~c.facts.hollow
  <1>1. PICK n \in ReviewsOf(c) : r \in Gated(n, c)
    BY DEF NestedReviews
  <1> QED BY <1>1, ReviewsAreReviews, GateIsHonest

\* A rejection costs nothing, and does not say that nothing is left.
LEMMA RejectionsAreFree ==
    ASSUME budget \in Budget, NEW b \in Rejections
    PROVE  /\ b \in Budget /\ b.used = budget.used
           /\ b.stop = "exhausted" => budget.stop = "exhausted"
  BY DEF Rejections, Budget, Stops

LEMMA RefusedIsSpent ==
    ASSUME TypeOK, RepairsArePaid, ~CanTake
    PROVE  /\ Refused \in Budget /\ Refused.used = budget.used
           /\ Refused.stop = "exhausted" => Refused.used = MaxRepairs
  BY MaxRepairsIsNat DEF TypeOK, RepairsArePaid, CanTake, Refused, Budget, Stops

\* What passes the bar in place of code that may be held may be held.
LEMMA AdoptedIsHeld ==
    ASSUME TypeOK, CodeInv, NEW p \in Offered, "adopted" \in Qualify(p)
    PROVE  Held(p, given, cfg)
  <1>1. p \in Code /\ code \in Code /\ given \in Code
    BY OfferedIsCode DEF TypeOK
  <1>2. LintAbstains(p) /\ Accepted(p)
    BY DEF Qualify
  <1>3. ASSUME cfg.backend = "sure"
        PROVE  /\ p.facts.lint.errors <= given.facts.lint.errors
               /\ p.facts.lint.semantic <= given.facts.lint.semantic
    <2>1. ~lintAdoptionRegression(p, code)
      BY <1>2, <1>3 DEF LintAbstains
    <2>2. /\ code.facts.lint.errors <= given.facts.lint.errors
          /\ code.facts.lint.semantic <= given.facts.lint.semantic
      BY <1>3 DEF CodeInv, Held
    <2>3. /\ p.facts.lint \in Lint /\ code.facts.lint \in Lint
          /\ given.facts.lint \in Lint
      BY <1>1 DEF Code, Facts
    <2> QED
      BY <2>1, <2>2, <2>3, MaxIssuesIsNat
         DEF lintAdoptionRegression, Lint, Issues
  <1>4. ASSUME cfg.node = "rtl_review"
        PROVE  /\ given.facts.passes \subseteq p.facts.passes
               /\ given.facts.passes # p.facts.passes
    <2>1. Improves(p)
      BY <1>2, <1>4 DEF Accepted
    <2>2. given.facts.passes \subseteq code.facts.passes
      BY <1>4 DEF CodeInv, Held
    <2> QED BY <2>1, <2>2 DEF Improves
  <1> QED BY <1>1, <1>3, <1>4 DEF Held

-----------------------------------------------------------------------------
(* The two things a fix ends with. *)

\* The verdict r on code c is taken up, or c is dropped for it.
LEMMA VerdictAdopted ==
    ASSUME IInv, pc \in {"walk", "rereview"},
           NEW r \in Review, NEW c, Held(c, given, cfg),
           AdoptVerdict(r, c), lost' \in {lost, TRUE}, lost => lost',
           ~lost' => r.of = c.id,
           Stands(r, c, cfg, lost'),
           tried' \in Nat,
           UNCHANGED <<cfg, given, before, asked>>, blocked' \in BOOLEAN
    PROVE  IInv'
  <1>1. /\ pc' = "loop" /\ iter' = iter + 1 /\ iter <= MaxRepairs
        /\ last' \in {"adopted", "identical", "rejected"}
    BY DEF AdoptVerdict, NextIteration, IInv, TypeOK
  <1>2. budget' \in Rejections \cup {budget}
    BY DEF AdoptVerdict
  <1>3. /\ budget' \in Budget /\ budget'.used = budget.used
        /\ budget'.stop = "exhausted" => budget.stop = "exhausted"
    BY <1>2, RejectionsAreFree DEF IInv, TypeOK
  <1>4. \/ code' = c /\ review' = r
        \/ code' = before /\ review' = review
    BY DEF AdoptVerdict
  <1>5. Held(code', given, cfg) /\ review' \in Review
    BY <1>4 DEF IInv, CodeInv, ReviewInv, Fixing, Looping
  <1>6. Stands(review', code', cfg, lost')
    BY <1>4 DEF IInv, ReviewInv, Fixing, Stands
  <1>7. ~lost' => review'.of = (code').id
    BY <1>4 DEF IInv, CodeInv, ReviewInv, ReviewDescribesCode
  <1>8. TypeOK'
    <2>1. lost' \in BOOLEAN
      BY DEF IInv, TypeOK
    <2>2. iter' \in 1 .. MaxRepairs + 1
      BY <1>1, MaxRepairsIsNat DEF IInv, TypeOK
    <2>3. code' \in Code
      BY <1>5 DEF Held
    <2> QED BY <1>1, <1>3, <1>5, <2>1, <2>2, <2>3 DEF IInv, TypeOK
  <1>9. CodeInv' /\ ReviewInv' /\ RepairsArePaid' /\ ReviewDescribesCode'
        /\ PassIsEarned'
    BY <1>1, <1>3, <1>5, <1>6, <1>7
       DEF IInv, CodeInv, ReviewInv, RepairsArePaid, ReviewDescribesCode,
           PassIsEarned, Fixing, Looping
  <1> QED BY <1>8, <1>9 DEF IInv

\* A candidate is kept out.
LEMMA KeptOut ==
    ASSUME IInv, pc \in {"walk", "fix"}, KeepOut, tried' \in Nat,
           UNCHANGED <<cfg, given, before, asked, lost>>, blocked' \in BOOLEAN
    PROVE  IInv'
  <1>1. /\ budget' \in Budget /\ budget'.used = budget.used
        /\ budget'.stop = "exhausted" => budget.stop = "exhausted"
    BY RejectionsAreFree DEF KeepOut, IInv, TypeOK
  <1>2. /\ pc' = "loop" /\ iter' = iter + 1 /\ iter <= MaxRepairs
        /\ last' = "rejected" /\ code' = code /\ review' = review
    BY DEF KeepOut, NextIteration, IInv, TypeOK
  <1>3. TypeOK'
    BY <1>1, <1>2, MaxRepairsIsNat DEF IInv, TypeOK
  <1>4. CodeInv' /\ ReviewInv' /\ RepairsArePaid' /\ ReviewDescribesCode'
        /\ PassIsEarned'
    BY <1>1, <1>2
       DEF IInv, CodeInv, ReviewInv, RepairsArePaid, ReviewDescribesCode,
           PassIsEarned, Fixing, Looping
  <1> QED BY <1>3, <1>4 DEF IInv

\* The slot is looked at after a walk that ended with code c.
LEMMA SlotAdopted ==
    ASSUME IInv, pc = "walk", NEW c, Held(c, given, cfg), AdoptSlot(c),
           tried' \in Nat,
           UNCHANGED <<cfg, given, before, asked>>, blocked' \in BOOLEAN
    PROVE  IInv'
  <1>1. PICK v \in Verdicts(c) :
          /\ lost' = v.lost
          /\ IF v.review # None THEN AdoptVerdict(v.review, c)
             ELSE /\ code' = c
                  /\ NextIteration(IF c = before THEN "identical" ELSE "adopted")
                  /\ UNCHANGED <<review, budget>>
    BY DEF AdoptSlot
  <1>2. \/ v.review \in NestedReviews(c) /\ v.lost = lost
        \/ v.review = cfg.earlier /\ v.lost = TRUE
    BY DEF Verdicts
  <1>3. c \in Code /\ lost \in BOOLEAN
    BY DEF Held, IInv, TypeOK
  <1>4. CASE v.review # None
    <2>1. /\ v.review \in Review /\ (~lost' => v.review.of = c.id)
          /\ Stands(v.review, c, cfg, lost')
      <3>1. CASE v.review \in NestedReviews(c) /\ v.lost = lost
        BY <1>1, <1>3, <3>1, NestedReviewsAreReviews DEF Stands
      <3>2. CASE v.review = cfg.earlier /\ v.lost = TRUE
        <4>1. cfg.earlier \in Earlier
          BY DEF IInv, TypeOK, Config
        <4> QED BY <1>1, <1>4, <3>2, <4>1, EarlierAreReviews DEF Stands
      <3> QED BY <1>2, <3>1, <3>2
    <2>2. AdoptVerdict(v.review, c) /\ lost' \in {lost, TRUE} /\ (lost => lost')
      BY <1>1, <1>2, <1>3, <1>4
    <2> QED BY <2>1, <2>2, VerdictAdopted
  <1>5. CASE v.review = None
    <2>1. v.lost = TRUE
      <3>1. \A r \in Review : r # None
        BY DEF Review, None
      <3> QED BY <1>2, <1>3, <1>5, <3>1, NestedReviewsAreReviews
    <2>2. /\ lost' = TRUE /\ code' = c /\ review' = review /\ budget' = budget
          /\ pc' = "loop" /\ iter' = iter + 1 /\ iter <= MaxRepairs
          /\ last' \in {"identical", "adopted"}
      BY <1>1, <1>5, <2>1 DEF NextIteration, IInv, TypeOK
    <2>3. TypeOK'
      BY <1>3, <2>2, MaxRepairsIsNat DEF IInv, TypeOK
    <2>4. CodeInv' /\ ReviewInv' /\ RepairsArePaid' /\ ReviewDescribesCode'
          /\ PassIsEarned'
      BY <2>2 DEF IInv, CodeInv, ReviewInv, RepairsArePaid, Stands,
                  ReviewDescribesCode, PassIsEarned, Fixing, Looping
    <2> QED BY <2>3, <2>4 DEF IInv
  <1> QED BY <1>4, <1>5

-----------------------------------------------------------------------------
(* The actions. *)

LEMMA InitialInvariant == Init => IInv
  <1> SUFFICES ASSUME Init PROVE IInv
    OBVIOUS
  <1>1. PICK f \in Candidates[cfg.node] : given = [id |-> 0, facts |-> f]
    BY DEF Init
  <1>2. f \in Facts
    BY <1>1, CandidatesAreFacts DEF Init, Config
  <1>3. given \in Code
    BY <1>1, <1>2 DEF Code
  <1>4. Held(given, given, cfg)
    <2>1. given.facts.lint \in Lint
      BY <1>3 DEF Code, Facts
    <2>2. /\ given.facts.lint.errors <= given.facts.lint.errors
          /\ given.facts.lint.semantic <= given.facts.lint.semantic
      BY <2>1, MaxIssuesIsNat DEF Lint, Issues
    <2> QED BY <1>3, <2>2 DEF Held
  <1>5. TypeOK /\ RepairsArePaid
    <2>1. /\ budget \in Budget /\ budget.used = 0 /\ budget.stop = "none"
          /\ iter \in 1 .. MaxRepairs + 1
      BY MaxRepairsIsNat DEF Init, Budget, Stops
    <2>2. /\ code = given /\ before = given /\ review = None /\ cfg \in Config
          /\ pc = "review" /\ last = "initial" /\ tried = 0 /\ asked = 0
          /\ blocked = FALSE /\ lost = FALSE
      BY DEF Init
    <2>3. RepairsArePaid
      BY <2>1, <2>2, MaxRepairsIsNat DEF RepairsArePaid
    <2>4. 0 \in Nat
      OBVIOUS
    <2>5. TypeOK
      BY <1>3, <2>1, <2>2, <2>4, Zenon DEF TypeOK
    <2> QED BY <2>3, <2>5
  <1> QED
    BY <1>4, <1>5 DEF Init, IInv, CodeInv, ReviewInv, ReviewDescribesCode,
                      PassIsEarned, Fixing, Looping

\* The initial review is of the code given.
LEMMA InitialReviewPreserves ==
    ASSUME IInv, InitialReview
    PROVE  IInv'
  <1>1. PICK r \in ReviewsOf(code) : review' = r
    BY DEF InitialReview
  <1>2. /\ r \in Review /\ r.of = code.id
        /\ r.said.verdict = "PASS" => ~code.facts.hollow
    BY ReviewsAreReviews DEF IInv, TypeOK
  <1> QED
    BY <1>1, <1>2
       DEF InitialReview, IInv, TypeOK, CodeInv, ReviewInv, RepairsArePaid,
           ReviewDescribesCode, PassIsEarned, Fixing, Looping, Stands

\* Steps that change neither the code nor its review nor the allowance.
Idle == AlreadyDisputed \/ Dispute \/ Leave \/ FixUndone \/ Throw

LEMMA IdlePreserves ==
    ASSUME IInv, Idle
    PROVE  IInv'
  BY DEF Idle, AlreadyDisputed, Dispute, Leave, FixUndone, Throw,
         IInv, TypeOK, CodeInv, ReviewInv, RepairsArePaid,
         ReviewDescribesCode, PassIsEarned, Fixing, Looping

\* No code, or the same, is to be reviewed again.
LEMMA FixNothingPreserves ==
    ASSUME IInv, FixNothing
    PROVE  IInv'
  BY DEF FixNothing, IInv, TypeOK, CodeInv, ReviewInv, RepairsArePaid,
         ReviewDescribesCode, PassIsEarned, Fixing, Looping

LEMMA GuttedPreserves ==
    ASSUME IInv, WalkGutted \/ FixGutted
    PROVE  IInv'
  BY DEF WalkGutted, FixGutted, IInv, TypeOK, CodeInv, ReviewInv,
         RepairsArePaid, ReviewDescribesCode, PassIsEarned, Fixing, Looping

LEMMA RefusedPreserves ==
    ASSUME IInv, OutOfRepairs \/ ReaskRefused
    PROVE  IInv'
  <1>1. /\ budget' = Refused /\ ~CanTake
    BY DEF OutOfRepairs, ReaskRefused
  <1>2. /\ Refused \in Budget /\ Refused.used = budget.used
        /\ Refused.stop = "exhausted" => Refused.used = MaxRepairs
    BY <1>1, RefusedIsSpent DEF IInv
  <1> QED
    BY <1>1, <1>2
       DEF OutOfRepairs, ReaskRefused, IInv, TypeOK, CodeInv, ReviewInv,
           RepairsArePaid, ReviewDescribesCode, PassIsEarned, Fixing, Looping

\* A repair that is paid for is one of those allowed.
LEMMA TakenIsPaid ==
    ASSUME TypeOK, RepairsArePaid, CanTake
    PROVE  /\ Taken \in Budget /\ Taken.used = budget.used + 1
           /\ Taken.used \in Nat /\ Taken.used <= MaxRepairs
           /\ Taken.stop = "none" /\ budget.used \in Nat
  BY MaxRepairsIsNat DEF TypeOK, RepairsArePaid, CanTake, Taken, Budget, Stops

LEMMA BeginPreserves ==
    ASSUME IInv, Begin
    PROVE  IInv'
  <1>1. /\ Taken \in Budget /\ Taken.used = budget.used + 1
        /\ Taken.used \in Nat /\ Taken.used <= MaxRepairs
        /\ Taken.stop = "none" /\ budget.used \in Nat
    BY TakenIsPaid DEF IInv, Begin
  <1>2. /\ pc = "loop" /\ pc' \in {"walk", "fix"} /\ iter <= MaxRepairs
        /\ review.said.verdict = "NEEDS_FIX"
        /\ budget' = Taken /\ asked' = asked + 1 /\ before' = code
        /\ UNCHANGED <<cfg, iter, given, code, review, last, blocked, tried, lost>>
    BY DEF Begin, Goes, Wants
  <1>3. TypeOK' /\ RepairsArePaid'
    BY <1>1, <1>2 DEF IInv, TypeOK, RepairsArePaid
  <1>4. CodeInv' /\ ReviewInv' /\ ReviewDescribesCode' /\ PassIsEarned'
    BY <1>2 DEF IInv, CodeInv, ReviewInv, ReviewDescribesCode, PassIsEarned,
                Fixing, Looping
  <1> QED BY <1>3, <1>4 DEF IInv

\* The nested review disputes the specification.
LEMMA WalkConflictPreserves ==
    ASSUME IInv, WalkConflict
    PROVE  IInv'
  <1>1. PICK c \in Offered \cup {code} : \E r \in NestedReviews(c) : review' = r
    BY DEF WalkConflict
  <1>2. c \in Code
    BY OfferedIsCode DEF IInv, TypeOK
  <1>3. review' \in Review
    BY <1>1, <1>2, NestedReviewsAreReviews
  <1> QED
    BY <1>3
       DEF WalkConflict, IInv, TypeOK, CodeInv, ReviewInv, RepairsArePaid,
           ReviewDescribesCode, PassIsEarned, Fixing, Looping

LEMMA WalkUnchangedPreserves ==
    ASSUME IInv, WalkUnchanged
    PROVE  IInv'
  <1>1. Held(code, given, cfg)
    BY DEF IInv, CodeInv
  <1>2. /\ pc = "walk" /\ AdoptSlot(code) /\ tried' \in Nat /\ blocked' \in BOOLEAN
        /\ UNCHANGED <<cfg, given, before, asked>>
    BY DEF WalkUnchanged, IInv, TypeOK
  <1> QED BY <1>1, <1>2, SlotAdopted

\* rtl_generate kept its proposal out.
LEMMA WalkRejectedPreserves ==
    ASSUME IInv, WalkRejected
    PROVE  IInv'
  <1>1. PICK b \in Rejections, final \in BOOLEAN :
          /\ budget' = IF final THEN [b EXCEPT !.stop = "blocked"] ELSE b
          /\ blocked' = final
    BY DEF WalkRejected
  <1>2. /\ b \in Budget /\ b.used = budget.used
        /\ b.stop = "exhausted" => budget.stop = "exhausted"
    BY RejectionsAreFree DEF IInv, TypeOK
  <1>3. /\ budget' \in Budget /\ budget'.used = budget.used
        /\ budget'.stop = "exhausted" => budget.stop = "exhausted"
    BY <1>1, <1>2 DEF Budget, Stops
  <1>4. /\ pc = "walk" /\ pc' = "loop" /\ iter' = iter + 1 /\ iter <= MaxRepairs
        /\ last' = "rejected" /\ tried' = tried + 1 /\ blocked' \in BOOLEAN
        /\ UNCHANGED <<cfg, given, code, before, review, asked, lost>>
    BY <1>1 DEF WalkRejected, NextIteration, IInv, TypeOK
  <1>5. TypeOK'
    BY <1>3, <1>4, MaxRepairsIsNat DEF IInv, TypeOK
  <1>6. CodeInv' /\ ReviewInv' /\ RepairsArePaid' /\ ReviewDescribesCode'
        /\ PassIsEarned'
    BY <1>3, <1>4
       DEF IInv, CodeInv, ReviewInv, RepairsArePaid, ReviewDescribesCode,
           PassIsEarned, Fixing, Looping
  <1> QED BY <1>5, <1>6 DEF IInv

LEMMA InfraLostPreserves ==
    ASSUME IInv, WalkInfraLost \/ FixInfraLost
    PROVE  IInv'
  <1>1. /\ pc \in {"walk", "fix"} /\ KeepOut
        /\ tried' \in Nat /\ blocked' \in BOOLEAN
        /\ UNCHANGED <<cfg, given, before, asked, lost>>
    BY DEF WalkInfraLost, FixInfraLost, IInv, TypeOK
  <1> QED BY <1>1, KeptOut

\* A candidate of a chain passes the bar, or it is kept out.
LEMMA WalkNewPreserves ==
    ASSUME IInv, WalkNew
    PROVE  IInv'
  <1>0. PICK p \in Offered : \E q \in Qualify(p) :
          IF q = "adopted" THEN AdoptSlot(p) /\ UNCHANGED blocked
          ELSE KeepOut /\ blocked' = (blocked \/ q = "proposal") /\ UNCHANGED lost
    BY DEF WalkNew
  <1>1. PICK q \in Qualify(p) :
          IF q = "adopted" THEN AdoptSlot(p) /\ UNCHANGED blocked
          ELSE KeepOut /\ blocked' = (blocked \/ q = "proposal") /\ UNCHANGED lost
    BY <1>0
  <1>2. /\ pc = "walk" /\ tried' \in Nat /\ blocked' \in BOOLEAN
        /\ UNCHANGED <<cfg, given, before, asked>>
    <2>1. /\ pc = "walk" /\ tried' \in Nat
          /\ UNCHANGED <<cfg, given, before, asked>>
      BY DEF WalkNew, IInv, TypeOK
    <2>2. blocked \in BOOLEAN
      BY DEF IInv, TypeOK
    <2>3. blocked' = blocked \/ blocked' = (blocked \/ q = "proposal")
      BY <1>1
    <2> QED BY <2>1, <2>2, <2>3
  <1>3. CASE q = "adopted"
    <2>1. Held(p, given, cfg)
      BY <1>3, AdoptedIsHeld DEF IInv
    <2> QED BY <1>1, <1>2, <1>3, <2>1, SlotAdopted
  <1>4. CASE q # "adopted"
    BY <1>1, <1>2, <1>4, KeptOut
  <1> QED BY <1>3, <1>4

\* Adopted code waits for its review.
LEMMA Awaited ==
    ASSUME IInv, pc \in {"fix", "reask"}, NEW p, Held(p, given, cfg),
           code' = p, pc' = "rereview", tried' \in Nat, TypeOK', RepairsArePaid',
           UNCHANGED <<cfg, given, before, review, lost>>
    PROVE  IInv'
  <1>1. /\ review \in Review /\ review.said.verdict = "NEEDS_FIX"
        /\ ~lost => review.of = before.id
    BY DEF IInv, ReviewInv, CodeInv, ReviewDescribesCode, Fixing, Looping
  <1>2. CodeInv' /\ ReviewInv' /\ ReviewDescribesCode' /\ PassIsEarned'
    BY <1>1 DEF IInv, CodeInv, ReviewInv, ReviewDescribesCode, PassIsEarned,
                Fixing, Looping, Stands
  <1> QED BY <1>2 DEF IInv

LEMMA FixNewPreserves ==
    ASSUME IInv, FixNew
    PROVE  IInv'
  <1>0. PICK p \in Offered : \E q \in Qualify(p) :
          IF q = "adopted"
          THEN /\ code' = p
               /\ pc' = "rereview"
               /\ UNCHANGED <<iter, review, last, budget, blocked>>
          ELSE KeepOut /\ blocked' = (blocked \/ q = "proposal")
    BY DEF FixNew
  <1>1. PICK q \in Qualify(p) :
          IF q = "adopted"
          THEN /\ code' = p
               /\ pc' = "rereview"
               /\ UNCHANGED <<iter, review, last, budget, blocked>>
          ELSE KeepOut /\ blocked' = (blocked \/ q = "proposal")
    BY <1>0
  <1>2. /\ pc = "fix" /\ tried' \in Nat /\ blocked' \in BOOLEAN
        /\ UNCHANGED <<cfg, given, before, asked, lost>>
    <2>1. /\ pc = "fix" /\ tried' \in Nat
          /\ UNCHANGED <<cfg, given, before, asked, lost>>
      BY DEF FixNew, IInv, TypeOK
    <2>2. blocked \in BOOLEAN
      BY DEF IInv, TypeOK
    <2>3. blocked' = blocked \/ blocked' = (blocked \/ q = "proposal")
      BY <1>1
    <2> QED BY <2>1, <2>2, <2>3
  <1>3. CASE q = "adopted"
    <2>1. Held(p, given, cfg)
      BY <1>3, AdoptedIsHeld DEF IInv
    <2>2. TypeOK' /\ RepairsArePaid'
      BY <1>1, <1>2, <1>3, <2>1 DEF IInv, TypeOK, RepairsArePaid, Held
    <2> QED BY <1>1, <1>2, <1>3, <2>1, <2>2, Awaited
  <1>4. CASE q # "adopted"
    BY <1>1, <1>2, <1>4, KeptOut
  <1> QED BY <1>3, <1>4

\* The complete module that is asked for is paid for; if it does not pass the
\* bar the loop ends with what it has.
LEMMA ReaskPreserves ==
    ASSUME IInv, Reask
    PROVE  IInv'
  <1>1. /\ Taken \in Budget /\ Taken.used = budget.used + 1
        /\ Taken.used \in Nat /\ Taken.used <= MaxRepairs
        /\ Taken.stop = "none" /\ budget.used \in Nat
    BY TakenIsPaid DEF IInv, Reask
  <1>2. /\ pc = "reask" /\ asked' = asked + 1 /\ tried' = tried + 1
        /\ UNCHANGED <<cfg, iter, given, before, review, last, lost>>
    BY DEF Reask
  <1>3. CASE budget' = Taken /\ pc' = "finish" /\ UNCHANGED <<code, blocked>>
    BY <1>1, <1>2, <1>3
       DEF IInv, TypeOK, CodeInv, ReviewInv, RepairsArePaid,
           ReviewDescribesCode, PassIsEarned, Fixing, Looping
  <1>4. ASSUME NEW p \in Offered, "adopted" \in Qualify(p), budget' = Taken,
               code' = p, pc' = "rereview", UNCHANGED blocked
        PROVE  IInv'
    <2>1. Held(p, given, cfg)
      BY <1>4, AdoptedIsHeld DEF IInv
    <2>2. TypeOK' /\ RepairsArePaid'
      BY <1>1, <1>2, <1>4, <2>1 DEF IInv, TypeOK, RepairsArePaid, Held
    <2>3. tried' \in Nat
      BY <2>2 DEF TypeOK
    <2> QED BY <1>2, <1>4, <2>1, <2>2, <2>3, Awaited
  <1>5. ASSUME NEW b \in Rejections, budget' = [b EXCEPT !.used = @ + 1],
               pc' = "finish", blocked' \in BOOLEAN, UNCHANGED code
        PROVE  IInv'
    <2>1. /\ b \in Budget /\ b.used = budget.used
          /\ b.stop = "exhausted" => budget.stop = "exhausted"
      BY RejectionsAreFree DEF IInv, TypeOK
    <2>2. budget.stop = "none"
      BY DEF Reask, CanTake
    <2>3. /\ budget' \in Budget /\ budget'.used = budget.used + 1
          /\ budget'.stop # "exhausted"
      BY <1>1, <1>5, <2>1, <2>2 DEF Budget
    <2>4. TypeOK' /\ RepairsArePaid'
      BY <1>1, <1>2, <1>5, <2>3 DEF IInv, TypeOK, RepairsArePaid
    <2>5. CodeInv' /\ ReviewInv' /\ ReviewDescribesCode' /\ PassIsEarned'
      BY <1>2, <1>5 DEF IInv, CodeInv, ReviewInv, ReviewDescribesCode,
                        PassIsEarned, Fixing, Looping
    <2> QED BY <2>4, <2>5 DEF IInv
  <1>6. CASE \E p \in Offered : \E q \in Qualify(p) :
             IF q = "adopted"
             THEN budget' = Taken /\ code' = p /\ pc' = "rereview" /\ UNCHANGED blocked
             ELSE /\ \E b \in Rejections : budget' = [b EXCEPT !.used = @ + 1]
                  /\ blocked' = (blocked \/ q = "proposal")
                  /\ pc' = "finish" /\ UNCHANGED code
    <2>1. PICK p \in Offered : \E q \in Qualify(p) :
             IF q = "adopted"
             THEN budget' = Taken /\ code' = p /\ pc' = "rereview" /\ UNCHANGED blocked
             ELSE /\ \E b \in Rejections : budget' = [b EXCEPT !.used = @ + 1]
                  /\ blocked' = (blocked \/ q = "proposal")
                  /\ pc' = "finish" /\ UNCHANGED code
      BY <1>6
    <2>2. CASE /\ "adopted" \in Qualify(p)
               /\ budget' = Taken /\ code' = p /\ pc' = "rereview" /\ UNCHANGED blocked
      BY <1>4, <2>2
    <2>3. CASE \E q \in Qualify(p) :
                  /\ \E b \in Rejections : budget' = [b EXCEPT !.used = @ + 1]
                  /\ blocked' = (blocked \/ q = "proposal")
                  /\ pc' = "finish" /\ UNCHANGED code
      BY <1>5, <2>3
    <2> QED BY <2>1, <2>2, <2>3
  <1> QED BY <1>3, <1>6 DEF Reask

\* The review of an adopted fix.
LEMMA RereviewPreserves ==
    ASSUME IInv, Rereview
    PROVE  IInv'
  <1>1. PICK r \in ReviewsOf(code) :
          IF ~cfg.chain THEN AdoptVerdict(r, code)
          ELSE /\ review' = r
               /\ NextIteration("adopted")
               /\ UNCHANGED <<code, budget>>
    BY DEF Rereview
  <1>2. /\ r \in Review /\ r.of = code.id
        /\ r.said.verdict = "PASS" => ~code.facts.hollow
    BY ReviewsAreReviews DEF IInv, TypeOK
  <1>3. /\ pc = "rereview" /\ tried' \in Nat /\ blocked' \in BOOLEAN
        /\ UNCHANGED <<cfg, given, before, blocked, tried, asked, lost>>
    BY DEF Rereview, IInv, TypeOK
  <1>4. CASE ~cfg.chain
    <2>1. Held(code, given, cfg) /\ Stands(r, code, cfg, lost')
      BY <1>2 DEF IInv, CodeInv, Stands
    <2> QED BY <1>1, <1>2, <1>3, <1>4, <2>1, VerdictAdopted
  <1>5. CASE cfg.chain
    <2>1. /\ review' = r /\ pc' = "loop" /\ iter' = iter + 1 /\ iter <= MaxRepairs
          /\ last' = "adopted" /\ UNCHANGED <<code, budget>>
      BY <1>1, <1>3, <1>5 DEF NextIteration, IInv, TypeOK
    <2>2. TypeOK'
      BY <1>2, <1>3, <2>1, MaxRepairsIsNat DEF IInv, TypeOK
    <2>3. CodeInv' /\ ReviewInv' /\ RepairsArePaid' /\ ReviewDescribesCode'
          /\ PassIsEarned'
      BY <1>2, <1>3, <2>1
         DEF IInv, CodeInv, ReviewInv, RepairsArePaid, ReviewDescribesCode,
             PassIsEarned, Fixing, Looping, Stands
    <2> QED BY <2>2, <2>3 DEF IInv
  <1> QED BY <1>4, <1>5

\* The gate and the budget's report.
LEMMA FinishPreserves ==
    ASSUME IInv, Finish
    PROVE  IInv'
  <1>1. /\ pc = "finish" /\ pc' \in {"conflict", "done"}
        /\ review' \in Gated(review, code)
        /\ UNCHANGED <<cfg, iter, given, code, before, last, blocked, tried,
                       asked, lost>>
    BY DEF Finish
  <1>2. /\ code \in Code /\ review \in Review /\ Stands(review, code, cfg, lost)
        /\ ~lost => review.of = code.id
    BY <1>1 DEF IInv, TypeOK, ReviewInv, ReviewDescribesCode, Looping
  <1>3. /\ review' \in Review /\ review'.of = review.of
        /\ review'.said.verdict = "PASS" =>
             review' = review /\ (cfg.backend = "sure" => code.facts.lint.errors = 0)
    BY <1>1, <1>2, GateIsHonest
  <1>4. budget' = budget \/ (~CanTake /\ budget' = Refused)
    BY MaxRepairsIsNat DEF Finish, CanTake, IInv, TypeOK, Budget
  <1>5. /\ budget' \in Budget /\ budget'.used = budget.used
        /\ budget'.stop = "exhausted" => budget'.used = MaxRepairs
    BY <1>4, RefusedIsSpent DEF IInv, TypeOK
  <1>6. TypeOK' /\ RepairsArePaid' /\ CodeInv'
    BY <1>1, <1>3, <1>5 DEF IInv, TypeOK, RepairsArePaid, CodeInv
  <1>7. ReviewInv' /\ ReviewDescribesCode' /\ PassIsEarned'
    BY <1>1, <1>2, <1>3
       DEF ReviewInv, ReviewDescribesCode, PassIsEarned, Stands, Fixing
  <1> QED BY <1>6, <1>7 DEF IInv

LEMMA StepPreserves == IInv /\ [Next]_vars => IInv'
  <1> SUFFICES ASSUME IInv, [Next]_vars PROVE IInv'
    OBVIOUS
  <1>1. CASE UNCHANGED vars
    BY <1>1 DEF vars, IInv, TypeOK, CodeInv, ReviewInv, RepairsArePaid,
                ReviewDescribesCode, PassIsEarned
  <1>2. CASE Next
    BY <1>1, <1>2, InitialReviewPreserves, IdlePreserves, FixNothingPreserves,
       GuttedPreserves, RefusedPreserves, BeginPreserves, WalkConflictPreserves,
       WalkUnchangedPreserves, WalkRejectedPreserves, InfraLostPreserves,
       WalkNewPreserves, FixNewPreserves, ReaskPreserves, RereviewPreserves,
       FinishPreserves
       DEF Next, Idle, Returned
  <1> QED BY <1>1, <1>2

LEMMA Invariance == Spec => []IInv
  BY InitialInvariant, StepPreserves, PTL DEF Spec

-----------------------------------------------------------------------------
\* Types, the loop's bounds, and repairs are only refused when all are spent.
THEOREM TypeCorrect == Spec => []TypeOK
  <1>1. IInv => TypeOK
    BY DEF IInv
  <1> QED BY <1>1, Invariance, PTL

\* No repair is asked for that was not paid for, and no more are paid for than
\* the tree of reviews is allowed.
THEOREM AllRepairsArePaid == Spec => []RepairsArePaid
  <1>1. IInv => RepairsArePaid
    BY DEF IInv
  <1> QED BY <1>1, Invariance, PTL

\* The review the loop works on is of the code it holds.
THEOREM ReviewsDescribeCode == Spec => []ReviewDescribesCode
  <1>1. IInv => ReviewDescribesCode
    BY DEF IInv
  <1> QED BY <1>1, Invariance, PTL

\* A PASS was given to the code shipped, unless an earlier run left it behind.
THEOREM PassesAreEarned == Spec => []PassIsEarned
  <1>1. IInv => PassIsEarned
    BY DEF IInv
  <1> QED BY <1>1, Invariance, PTL

\* However many fixes are adopted, the linter finds no more than at first.
THEOREM LintNeverWorsens == Spec => []NeverLintsWorse
  <1>1. IInv => NeverLintsWorse
    BY DEF IInv, CodeInv, Held, NeverLintsWorse
  <1> QED BY <1>1, Invariance, PTL

\* However many fixes are adopted, none of the acceptance checks is lost.
THEOREM PassesAreKept == Spec => []NeverLosesAPass
  <1>1. IInv => NeverLosesAPass
    BY DEF IInv, CodeInv, Held, NeverLosesAPass
  <1> QED BY <1>1, Invariance, PTL
=============================================================================
