------------------------------ MODULE LintLoop ------------------------------
(* The fix loop of the lint stages: lintNode (nodes/lint.js) on the RTL and  *)
(* lintTestNode (nodes/lint_test.js) on the testbench.  A run measures the   *)
(* code it holds, asks for a repaired candidate, checks it against the first *)
(* measurement, adopts or rejects it, and measures again; it stops when the  *)
(* code converges or when a brake stops it, restores the best code it has    *)
(* seen and reports.                                                         *)
(*                                                                           *)
(* Code is an identity and what the linter says of it: the findings, counted *)
(* by LintLedger.  The linter answers the same of the same code; a model's   *)
(* estimate, the stand-in without a backend, answers anything.               *)
EXTENDS LintLedger

CONSTANTS
    Nodes,      \* the stages explored: a subset of {"lint", "lint_test"}
    Modes,      \* strict (backend, strictCli), lenient (backend), none
    MaxIters,   \* config.maxLintIters
    Answers,    \* bound: what the linter may say of code, by mode
    Estimates   \* bound: what a model's estimate may list

ASSUME NodesKnown == Nodes \subseteq {"lint", "lint_test"}
ASSUME ModesKnown == Modes \subseteq {"strict", "lenient", "none"}
ASSUME MaxItersPositive == MaxIters \in Nat \ {0}

VARIABLES
    cfg,          \* the node and the settings it runs with
    pc,           \* measure, fix, recheck, stopped, done, thrown
    iter,         \* iter
    code,         \* finalCode
    candidate,    \* candidateCode, while it is being checked
    tried,        \* candidates recorded by the churn tracker
    base,         \* baselineIssues
    lint,         \* lintData, then finalLint
    best,         \* bestCode and bestLint
    lastSig,      \* lastOutcomeSig
    stagnation,   \* stagnationCount
    prevErrors,   \* _prevErrCount
    escalations,  \* _escalations
    status,       \* finalLint._taskStatus
    fewest        \* history: the least findings of a code the loop held

brakes == <<lastSig, stagnation, prevErrors, escalations>>
vars == <<cfg, pc, iter, code, candidate, tried, base, lint, best, brakes,
          status, fewest>>

-----------------------------------------------------------------------------
(* Measurements. *)

ASSUME AnswersAreDiagnoses == Answers \in [Modes -> SUBSET Diagnosis]
ASSUME EstimatesAreDiagnoses == Estimates \subseteq Diagnosis

None == [none |-> TRUE]

Code == [id: 0 .. MaxIters, diag: Diagnosis]

\* A lint result: its findings, its verdict, the code it measured and whether
\* the linter or a model's estimate gave it.
LintResult == [diag: Diagnosis, fail: BOOLEAN, of: 0 .. MaxIters, cli: BOOLEAN]

Config == [node: Nodes, mode: Modes, warningsAsErrors: BOOLEAN]

\* The two-tier policy: errors gate, and under warnings-as-errors the warnings
\* that hide bugs.
Gating(d) == Errors(d) > 0 \/ (cfg.warningsAsErrors /\ d.semantic > 0)

\* A model may say FAIL and list nothing: that is no convergence.
lintConverged(l) ==
    ~Gating(l.diag) /\ ~(l.fail /\ l.diag.semantic + l.diag.hygiene = 0)

\* What step A may return for the code the loop holds.
ByLinter == [diag |-> code.diag, fail |-> Gating(code.diag),
             of |-> code.id, cli |-> TRUE]
ByModel == [diag: Estimates, fail: BOOLEAN, of: {code.id}, cli: {FALSE}]

Measurements == (IF cfg.mode = "none" THEN {} ELSE {ByLinter})
                    \cup (IF cfg.mode = "strict" THEN {} ELSE ByModel)

\* The outcome of an iteration, which two idle ones share.
Signature == [decision: Decision, persisting: Count, introduced: Count,
              revealed: Count]

-----------------------------------------------------------------------------
Init ==
    /\ cfg \in Config
    /\ pc = "measure"
    /\ iter = 1
    /\ \E d \in Answers[cfg.mode] : code = [id |-> 0, diag |-> d]
    /\ candidate = None
    /\ tried = 0
    /\ base = None
    /\ lint = None
    /\ best = None
    /\ lastSig = None
    /\ stagnation = 0
    /\ prevErrors = 0
    /\ escalations = 0
    /\ status = "none"
    /\ fewest = Total(code.diag)

\* Mutant of LastIteration: one iteration too many.
OneTooMany == iter > MaxIters
LastIteration == iter >= MaxIters

\* Mutant of Better: the latest measurement always replaces the best.
Latest(l) == TRUE
Better(l) == Total(l.diag) < Total(best.lint.diag)

\* A measurement is the baseline if it is the first, and the best-known if it
\* has fewer findings than any before.
Track(l) ==
    /\ lint' = l
    /\ base' = IF iter = 1 THEN l.diag ELSE base
    /\ best' = IF iter = 1 \/ Better(l) THEN [code |-> code, lint |-> l]
               ELSE best

\* Every error, or every gating warning, names the RTL file: no edit of the
\* testbench can help, and nothing is tracked.
RtlErrorsOnly ==
    /\ pc = "measure"
    /\ cfg.node = "lint_test"
    /\ \E l \in Measurements :
        /\ l.cli /\ l.fail
        /\ lint' = l
    /\ pc' = "stopped"
    /\ UNCHANGED <<cfg, iter, code, candidate, tried, base, best, brakes,
                   status, fewest>>

\* The code converged, or there are no more iterations.
Converge ==
    /\ pc = "measure"
    /\ \E l \in Measurements :
        /\ lintConverged(l) \/ LastIteration
        /\ Track(l)
    /\ pc' = "stopped"
    /\ UNCHANGED <<cfg, iter, code, candidate, tried, brakes, status, fewest>>

Rises(l) == iter > 1 /\ Errors(l.diag) > prevErrors

\* The error count rose in two consecutive measurements.
Diverge ==
    /\ pc = "measure"
    /\ \E l \in Measurements :
        /\ ~lintConverged(l) /\ ~LastIteration
        /\ Rises(l) /\ escalations = 1
        /\ Track(l)
    /\ escalations' = 2
    /\ pc' = "stopped"
    /\ UNCHANGED <<cfg, iter, code, candidate, tried, lastSig, stagnation,
                   prevErrors, status, fewest>>

\* Otherwise a fix is due; the run budget may stop the loop before it.
AskForFix ==
    /\ pc = "measure"
    /\ \E l \in Measurements :
        /\ ~lintConverged(l) /\ ~LastIteration
        /\ ~(Rises(l) /\ escalations = 1)
        /\ Track(l)
        /\ escalations' = IF Rises(l) THEN 1 ELSE 0
        /\ prevErrors' = Errors(l.diag)
    /\ pc' \in {"fix", "stopped"}
    /\ UNCHANGED <<cfg, iter, code, candidate, tried, lastSig, stagnation,
                   status, fewest>>

\* The loop stops on the second idle iteration, else it measures again.
Continue ==
    IF stagnation' >= 2 THEN pc' = "stopped" /\ UNCHANGED iter
                        ELSE pc' = "measure" /\ iter' = iter + 1

\* The chain or the inline fix gave nothing to check: a gutted module after
\* the re-ask, the same code, or a candidate already tried.
Fruitless ==
    /\ pc = "fix"
    /\ stagnation' = stagnation + 1
    /\ Continue
    /\ UNCHANGED <<cfg, code, candidate, tried, base, lint, best, lastSig,
                   prevErrors, escalations, status, fewest>>

\* It gave a new candidate.
Fix ==
    /\ pc = "fix"
    /\ \E d \in Answers[cfg.mode] : candidate' = [id |-> tried + 1, diag |-> d]
    /\ tried' = tried + 1
    /\ pc' = "recheck"
    /\ UNCHANGED <<cfg, iter, code, base, lint, best, brakes, status, fewest>>

Least(m, n) == IF m < n THEN m ELSE n

Adopt ==
    /\ code' = candidate
    /\ fewest' = Least(fewest, Total(candidate.diag))

\* An outcome that repeats the previous one is an idle iteration.
Compare(sig) ==
    /\ stagnation' = IF sig = lastSig THEN stagnation + 1 ELSE 0
    /\ lastSig' = sig
    /\ Continue

\* The linter checks the candidate against the first measurement: a
\* regression is rejected, everything else is adopted.
Recheck ==
    /\ pc = "recheck"
    /\ cfg.mode # "none"
    /\ \E l \in Ledgers(base, candidate.diag) :
        LET decision == classifyDiagnostics(base, candidate.diag, l)
        IN  /\ IF decision = "REJECT_REGRESSION" THEN UNCHANGED <<code, fewest>>
               ELSE Adopt
            /\ Compare([decision |-> decision, persisting |-> l.persisting,
                        introduced |-> l.introduced,
                        revealed |-> Revealed(candidate.diag, l)])
    /\ candidate' = None
    /\ UNCHANGED <<cfg, tried, base, lint, best, prevErrors, escalations,
                   status>>

\* No backend, or one that failed and is not strict: adopted unchecked.
Unchecked ==
    /\ pc = "recheck"
    /\ cfg.mode # "strict"
    /\ Adopt
    /\ Compare([decision |-> "no-cli", persisting |-> Total(lint.diag),
                introduced |-> 0, revealed |-> 0])
    /\ candidate' = None
    /\ UNCHANGED <<cfg, tried, base, lint, best, prevErrors, escalations,
                   status>>

\* A strict backend failed, a model call failed, or the user aborted.
Fail ==
    /\ pc \in {"measure", "fix", "recheck"}
    /\ pc' = "thrown"
    /\ UNCHANGED <<cfg, iter, code, candidate, tried, base, lint, best, brakes,
                   status, fewest>>

\* The best-known code has fewer findings than the last result reports.
Restored ==
    /\ best # None
    /\ Total(best.lint.diag) < Total(lint.diag)
    /\ best.code.id # code.id

\* Mutant of Reported: the RTL node keeps the last result, as lint_test does.
LastResult == lint

\* lint ships the restored code's own measurement; lint_test keeps the last.
Reported == IF Restored /\ cfg.node = "lint" THEN best.lint ELSE lint

\* Stagnation on findings about the interface, or without a linter, is blocked.
TaskStatus(l) ==
    IF Total(l.diag) = 0 THEN {"COMPLETE"}
    ELSE IF Errors(l.diag) = 0 /\ lintConverged(l) THEN {"COMPLETE_WARNINGS"}
    ELSE IF stagnation < 2 THEN {"INCOMPLETE"}
    ELSE {"BLOCKED_NONCODE"} \cup (IF l.cli THEN {"INCOMPLETE"} ELSE {})

\* After the loop.
Ship ==
    /\ pc = "stopped"
    /\ code' = IF Restored THEN best.code ELSE code
    /\ lint' = Reported
    /\ status' \in TaskStatus(Reported)
    /\ pc' = "done"
    /\ UNCHANGED <<cfg, iter, candidate, tried, base, best, brakes, fewest>>

Returned == pc \in {"done", "thrown"} /\ UNCHANGED vars

Next ==
    \/ RtlErrorsOnly \/ Converge \/ Diverge \/ AskForFix
    \/ Fruitless \/ Fix
    \/ Recheck \/ Unchecked
    \/ Fail \/ Ship \/ Returned

Spec == Init /\ [][Next]_vars

-----------------------------------------------------------------------------
Statuses == {"none", "COMPLETE", "COMPLETE_WARNINGS", "INCOMPLETE",
             "BLOCKED_NONCODE"}

\* Types, and that a fix is only asked for when an iteration is left to
\* measure it (the counters of the loop stay within its bounds).
TypeOK ==
    /\ cfg \in Config
    /\ pc \in {"measure", "fix", "recheck", "stopped", "done", "thrown"}
    /\ iter \in 1 .. MaxIters
    /\ pc \in {"fix", "recheck"} => iter < MaxIters
    /\ code \in Code
    /\ candidate \in Code \cup {None}
    /\ tried \in 0 .. iter
    /\ base \in Diagnosis \cup {None}
    /\ lint \in LintResult \cup {None}
    /\ best \in [code: Code, lint: LintResult] \cup {None}
    /\ lastSig \in Signature \cup {None}
    /\ stagnation \in 0 .. 2
    /\ prevErrors \in Count
    /\ escalations \in 0 .. 2
    /\ status \in Statuses
    /\ fewest \in Count

\* With a strict backend the loop never holds, and so never ships, code with
\* more errors than the code it was given: reject means reject.
NeverMoreErrors ==
    cfg.mode = "strict" /\ base # None => Errors(code.diag) <= Errors(base)

\* With a strict backend the node ships a code with the fewest findings of all
\* it held, whichever brake stopped it and though a candidate adopted in the
\* last iteration was never measured as the code it holds.
ShipsBestKnown ==
    cfg.mode = "strict" /\ pc = "done" => Total(code.diag) = fewest

\* The result lint ships was measured on the code it ships, but for the stop
\* on a repeated outcome, which comes after an adoption.
ReportDescribesShipped ==
    pc = "done" /\ cfg.node = "lint" /\ lint.of # code.id => stagnation = 2

\* With a strict backend, the number of findings lint reports is that of the
\* code it ships, also where the result describes the code before it.
ReportCountIsTrue ==
    cfg.mode = "strict" /\ pc = "done" /\ cfg.node = "lint" =>
        Total(lint.diag) = Total(code.diag)

\* A stage that reports COMPLETE, with or without warnings, ships code in
\* which no finding gates.
StatusIsHonest ==
    /\ cfg.mode = "strict" /\ pc = "done"
    /\ status \in {"COMPLETE", "COMPLETE_WARNINGS"}
    => ~Gating(code.diag)

\* The RTL node is honest: what it calls complete has no gating finding.
LintStatusIsHonest == cfg.node = "lint" => StatusIsHonest
=============================================================================
