----------------------------- MODULE Measurement -----------------------------
(* What the repair loops compare: the outcome of simulating an RTL under a   *)
(* testbench, the ordering that verify tracks its best-known pair by, the    *)
(* ordering the run's champion is banked by, and the evaluation gate with    *)
(* its default criteria (the functional must requirements, the verify pass   *)
(* rate and a clean RTL lint).                                               *)
(*                                                                           *)
(* A measurement carries a stamp: the code it was taken on.  Each test is    *)
(* taken to cover a must requirement of its own.                             *)
EXTENDS Integers

CONSTANTS
    Rtl,        \* versions of the RTL
    Tb,         \* versions of the testbench
    Outcomes,   \* bound: what simulating a pair may give
    Estimates   \* bound: what a model may say instead of a simulator

Pair == [rtl: Rtl, tb: Tb]

\* Tests passing and failing; the blocking errors of a pair that does not
\* compile, reported as a single failing test; and whether the run was a
\* measurement at all (it did not crash and printed its markers).
Outcome == [pass: Nat, fail: Nat, blocking: Nat, valid: BOOLEAN]

ASSUME OutcomesAreOutcomes == Outcomes \subseteq Outcome
ASSUME EstimatesAreOutcomes == Estimates \subseteq Outcome
\* Valid evidence has tests, and a pair that does not compile one failing one.
ASSUME OutcomesCount ==
    \A o \in Outcomes \cup Estimates :
        /\ o.valid => o.pass + o.fail > 0
        /\ o.blocking > 0 => o.pass = 0 /\ o.fail = 1

None == [none |-> TRUE]

Compiles(o) == o.blocking = 0
Green(o) == o.fail = 0 /\ o.pass > 0
Score(o) == o.pass - 2 * o.fail

\* Mutant of shouldRestoreBest: by the passing tests, whatever else failed.
shouldRestoreBestByPasses(best, final) == best.pass > final.pass

\* Of two outcomes, is the first the better one to ship?  Compiling comes
\* before the score; pairs that do not compile compare by blocking errors.
shouldRestoreBest(best, final) ==
    IF Compiles(best) # Compiles(final) THEN Compiles(best)
    ELSE IF ~Compiles(best) /\ best.blocking # final.blocking
    THEN best.blocking < final.blocking
    ELSE Score(best) > Score(final)

-----------------------------------------------------------------------------
(* Slots, and the champion the verify slot carries. *)

\* unknown: the stage shipped nothing it measured.
LintSlot == [of: Rtl, findings: {"none", "some", "unknown"}]

Champion == [code: Pair, res: Outcome, lint: LintSlot \cup {None}]

\* cli: the numbers are a simulator's, not a model's.
VerifySlot ==
    [res: Outcome, cli: BOOLEAN, of: Pair, champion: Champion \cup {None}]

\* Mutant of Unverified: the restored slot is not stamped.
UnverifiedUnstamped(code) ==
    [res |-> [pass |-> 0, fail |-> 0, blocking |-> 0, valid |-> FALSE],
     cli |-> FALSE, champion |-> None]

\* What a stage leaves whose result was not adopted and that had none before.
Unverified(code) ==
    [res |-> [pass |-> 0, fail |-> 0, blocking |-> 0, valid |-> FALSE],
     cli |-> FALSE, of |-> code, champion |-> None]

FreshLint(l, code) == l.of = code.rtl

\* A lint result is banked with a pair only if it was taken on its RTL.
FreshOrNone(l, code) == IF FreshLint(l, code) THEN l ELSE None

\* A pair that ran some test, and one known by its distance from compiling.
Usable(c) == c # None /\ Compiles(c.res) /\ c.res.pass + c.res.fail > 0
Near(c) == c # None /\ ~Compiles(c.res)

\* Whether a measured pair displaces the champion.
betterChampion(cand, champ) ==
    \/ /\ Usable(cand)
       /\ \/ ~Usable(champ)
          \/ cand.res.pass > champ.res.pass
          \/ cand.res.pass = champ.res.pass /\ cand.res.fail < champ.res.fail
    \/ /\ Near(cand)
       /\ ~Usable(champ)
       /\ Near(champ) => cand.res.blocking < champ.res.blocking

Banked(cand, champ) == IF betterChampion(cand, champ) THEN cand ELSE champ

-----------------------------------------------------------------------------
(* The gate.  A state is the code with its verify and lint slots. *)

\* The default criteria the model keeps.
Criteria == {"req_func_must", "verify_pass_rate", "lint_rtl_clean"}

\* Percentages and scores are rounded to the nearest.
Rounded(n, d) == (2 * n + d) \div (2 * d)

Rate(o) == Rounded(100 * o.pass, o.pass + o.fail)

FreshVerify(s) == s.verify.of = s.code

\* Only findings count: a result without any is clean.
LintClean(s) == FreshLint(s.lint, s.code) /\ s.lint.findings # "some"

VerifyRate(s) == IF FreshVerify(s) THEN Rate(s.verify.res) ELSE 0

FailingIds(s) ==
    (IF Rate(s.verify.res) < 100 THEN {"req_func_must"} ELSE {})
        \cup (IF VerifyRate(s) < 100 THEN {"verify_pass_rate"} ELSE {})
        \cup (IF LintClean(s) THEN {} ELSE {"lint_rtl_clean"})

\* Each criterion earns a third of the score, in proportion to what it measured.
GateScore(s) ==
    Rounded(Rate(s.verify.res) + VerifyRate(s)
                + (IF LintClean(s) THEN 100 ELSE 0), 3)

GatePass(s) == FailingIds(s) = {}

\* The measure stages whose result is about other code.
StaleStages(s) ==
    (IF FreshVerify(s) THEN {} ELSE {"verify"})
        \cup (IF FreshLint(s.lint, s.code) THEN {} ELSE {"lint"})

\* The stages a failing state may be sent back to: when everything that fails
\* is stale, measuring again is the whole plan.
triageTargetsFor(s) ==
    LET stale == StaleStages(s)
        allStale == /\ "req_func_must" \notin FailingIds(s)
                    /\ "verify_pass_rate" \in FailingIds(s) => "verify" \in stale
                    /\ "lint_rtl_clean" \in FailingIds(s) => "lint" \in stale
    IN  IF allStale THEN stale
        ELSE stale \cup {"rtl_generate"}
                   \cup (IF "verify_pass_rate" \in FailingIds(s)
                         THEN {"test_generate"} ELSE {})

\* The judge's ordering: the score, then the tests that pass.
betterJudgeState(s, t) ==
    \/ GateScore(s) > GateScore(t)
    \/ GateScore(s) = GateScore(t) /\ s.verify.res.pass > t.verify.res.pass

\* Mutant of championRestoreOf: by its passing tests alone.
championRestoreOfByPasses(s) ==
    LET champ == s.verify.champion
    IN  IF s.verify.res.valid /\ champ # None /\ champ.res.pass > s.verify.res.pass
        THEN champ ELSE None

\* The champion to ship instead of state s, or None.
championRestoreOf(s) ==
    LET champ == s.verify.champion
    IN  IF /\ s.verify.res.valid
           /\ champ # None
           /\ IF Compiles(champ.res)
              THEN champ.res.pass > s.verify.res.pass \/ champ.code # s.code
              ELSE ~Compiles(s.verify.res)
        THEN champ ELSE None

\* Mutant of ChampionState: the outgoing stamp is kept.
ChampionStateKeepsStamp(s) ==
    LET champ == s.verify.champion
    IN  [code |-> champ.code,
         verify |-> [s.verify EXCEPT !.res = champ.res],
         lint |-> IF champ.lint = None THEN s.lint ELSE champ.lint]

\* State s with its champion's code, numbers and lint; the rest of the verify
\* slot stays.
ChampionState(s) ==
    LET champ == s.verify.champion
    IN  [code |-> champ.code,
         verify |-> [s.verify EXCEPT
                        !.res = [champ.res EXCEPT !.valid = s.verify.res.valid],
                        !.of = champ.code],
         lint |-> IF champ.lint = None THEN s.lint ELSE champ.lint]
=============================================================================
