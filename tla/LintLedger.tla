----------------------------- MODULE LintLedger -----------------------------
(* What the lint stages compare: the findings of two measurements, counted   *)
(* by sort, and the decision that classifyDiagnostics (classify.js) takes on *)
(* a candidate.  CandidateSelection has the same decision on the findings    *)
(* themselves; MCLintLedger shows that the counts lose nothing.              *)
EXTENDS Integers

CONSTANT MaxIssues  \* bound: findings in one measurement

ASSUME MaxIssuesIsNat == MaxIssues \in Nat

Count == 0 .. MaxIssues

Errors(d) == d.syntax + d.error
Total(d) == Errors(d) + d.semantic + d.hygiene

\* Findings by sort: SYNTAX errors, other errors, the warnings that hide bugs
\* and the hygiene ones.
Diagnosis ==
    {d \in [syntax: Count, error: Count, semantic: Count, hygiene: Count] :
        Total(d) <= MaxIssues}

-----------------------------------------------------------------------------
(* The verdict on a candidate. *)

\* How the findings of c pair with those of b: the persisting ones are in
\* both; the others of c are introduced, or revealed when the baseline has
\* findings of their code.
Ledgers(b, c) ==
    {l \in [persisting: Count, introduced: Count] :
        /\ l.persisting <= Total(b)
        /\ l.persisting + l.introduced <= Total(c)
        /\ Total(b) = 0 => l.introduced = Total(c)
        /\ b.syntax = 0 => l.introduced >= c.syntax}

Revealed(c, l) == Total(c) - l.persisting - l.introduced

\* Mutant of classifyDiagnostics: without the count of blocking errors.
ByScore(b, c, l) ==
    LET resolved == Total(b) - l.persisting
        score == 3 * resolved - Revealed(c, l) - 5 * l.introduced
    IN  IF \/ b.syntax = 0 /\ c.syntax > 0
           \/ resolved = 0 /\ l.introduced > 0
        THEN "REJECT_REGRESSION"
        ELSE IF resolved = 0 THEN "ACCEPT_EQUIVALENT"
        ELSE IF l.introduced = 0 \/ score >= -2 THEN "ACCEPT_PROGRESS"
        ELSE "REJECT_NO_IMPROVEMENT"

\* The patch decision: the score's, but a syntax error where there was none,
\* or more errors out than in, is a regression whatever the score.
classifyDiagnostics(b, c, l) ==
    LET resolved == Total(b) - l.persisting
        score == 3 * resolved - Revealed(c, l) - 5 * l.introduced
    IN  IF \/ Errors(c) > Errors(b)
           \/ b.syntax = 0 /\ c.syntax > 0
           \/ resolved = 0 /\ l.introduced > 0
        THEN "REJECT_REGRESSION"
        ELSE IF resolved = 0 THEN "ACCEPT_EQUIVALENT"
        ELSE IF l.introduced = 0 \/ score >= -2 THEN "ACCEPT_PROGRESS"
        ELSE "REJECT_NO_IMPROVEMENT"

Decision == {"REJECT_REGRESSION", "ACCEPT_EQUIVALENT", "ACCEPT_PROGRESS",
             "REJECT_NO_IMPROVEMENT", "no-cli"}
=============================================================================
