------------------------- MODULE CandidateSelection -------------------------
(* How the pipeline chooses between versions of a design: the ranking of     *)
(* cold generations (src/pipeline/bestOfN.js), the acceptance of a repaired  *)
(* RTL under one checker (candidateGuard.js, reviewAcceptance.js), the       *)
(* ledgers of findings and of tests (classifiers.js), and the verdict on the *)
(* integrated system (integrationScore.js).                                  *)
EXTENDS Integers, SequencesExt

-----------------------------------------------------------------------------
(* Best of N. *)

MAX_N == 8

\* The number of draws for a configured one.
resolveBestOfN(k) == IF k < 1 THEN 1 ELSE Min({k, MAX_N})

\* What the linter made of a draw; Unlinted: nothing, LintThrew: it failed.
LintOf(exit, errors, warnings) ==
    [compiles |-> exit = 0 /\ errors = 0, errors |-> errors, warnings |-> warnings]
Unlinted == [unlinted |-> TRUE]
LintThrew == [threw |-> TRUE]

\* The criteria in their order, each so that less is better: compiles, errors
\* (infinitely many without a lint), warnings, and the earlier draw.
RankKey(c) ==
    IF c.lint = Unlinted THEN <<1, 1, 0, 0, c.index>>
    ELSE <<IF c.lint.compiles THEN 0 ELSE 1, 0, c.lint.errors, c.lint.warnings,
           c.index>>

Precedes(s, t) ==
    \E i \in DOMAIN s : s[i] < t[i] /\ \A j \in 1 .. (i - 1) : s[j] = t[j]

rankCandidates(candidates) ==
    SortSeq(candidates, LAMBDA c, d : Precedes(RankKey(c), RankKey(d)))

NoDraws == [next |-> 0, over |-> FALSE, threw |-> FALSE, pool |-> <<>>]

\* One turn of the loop.  A draw says whether the budget admits it, whether the
\* generation answers, and the lint of the answer.
Drawn(st, d) ==
    IF st.over THEN st
    ELSE IF st.next > 0 /\ ~d.admitted THEN [st EXCEPT !.over = TRUE]
    ELSE IF ~d.answers
    THEN [st EXCEPT !.next = @ + 1, !.over = st.next = 0, !.threw = st.next = 0]
    ELSE IF d.lint = LintThrew THEN [st EXCEPT !.over = TRUE, !.threw = TRUE]
    ELSE [st EXCEPT !.next = @ + 1,
                    !.pool = Append(@, [index |-> st.next, lint |-> d.lint])]

runBestOfN(draws) ==
    LET end == FoldLeft(Drawn, NoDraws, draws)
    IN  [threw |-> end.threw, pool |-> end.pool,
         ranked |-> IF end.threw THEN <<>> ELSE rankCandidates(end.pool)]

-----------------------------------------------------------------------------
(* Two versions under one checker.  A measurement says which checker took it *)
(* ("none": its identity is incomplete), whether that checker was qualified, *)
(* the status of the run, whether a simulator ran, and the results by name.  *)

Unnamed == ""

\* The name of the test that stands for a failed compilation.
CompileMarker == "compilation"

hasCompileFailure(tests) ==
    \E t \in ToSet(tests) : t.st = "FAIL" /\ t.name = CompileMarker

outcomeStatus(m) ==
    CASE m.status \in {"TIMEOUT", "ERROR"} -> m.status
      [] m.status \in {"RUNTIME_EXIT", "UNKNOWN_EXIT", "UNVERIFIED",
                       "MISSING_MARKERS"} -> "UNVERIFIED"
      [] m.status = "COMPILE_FAILURE" -> "COMPILE_FAIL"
      [] m.status \in {"MEASURED", "PASS", "FAIL"} ->
            IF ~m.cli \/ m.tests = <<>> THEN "UNVERIFIED"
            ELSE IF hasCompileFailure(m.tests) THEN "COMPILE_FAIL"
            ELSE "MEASURED"

sameChecker(c, d) == c.checker = d.checker /\ c.checker # "none"

\* The names all of whose results are passes.
passedCheckIds(m) ==
    {n \in {t.name : t \in ToSet(m.tests)} \ {Unnamed} :
        \A t \in ToSet(m.tests) : t.name = n => t.st = "PASS"}

NamesOf(tests) == [i \in DOMAIN tests |-> tests[i].name]

\* Results can be aligned: there are some, and each has a name of its own.
Alignable(m) ==
    m.tests # <<>> /\ IsInjective(NamesOf(m.tests))
                   /\ ~Contains(NamesOf(m.tests), Unnamed)

SameUniverse(c, d) ==
    Alignable(c) /\ Alignable(d)
        /\ ToSet(NamesOf(c.tests)) = ToSet(NamesOf(d.tests))

retainsPassedChecks(c, d) == passedCheckIds(d) \subseteq passedCheckIds(c)

passCount(m) == Cardinality({i \in DOMAIN m.tests : m.tests[i].st = "PASS"})

\* Why the incumbent stays, or the candidate's acceptance.
selectCommonCheckerCandidate(cand, inc) ==
    CASE ~cand.qualified \/ ~inc.qualified -> "CHECKER_UNREVIEWED"
      [] cand.qualified /\ inc.qualified ->
         IF ~sameChecker(cand, inc) THEN "CHECKER_MISMATCH"
         ELSE IF outcomeStatus(cand) # "MEASURED" THEN outcomeStatus(cand)
         ELSE IF outcomeStatus(inc) # "MEASURED" THEN "ACCEPT_IMPROVEMENT"
         ELSE IF ~SameUniverse(cand, inc) THEN "CHECK_UNIVERSE_MISMATCH"
         ELSE IF ~retainsPassedChecks(cand, inc) THEN "PASSED_CHECK_REGRESSION"
         ELSE IF passCount(cand) = passCount(inc) THEN "TIE"
         ELSE IF passCount(cand) < passCount(inc) THEN "NO_STRICT_IMPROVEMENT"
         ELSE "ACCEPT_IMPROVEMENT"

\* The replacement guard's question, with or without recovery from an incumbent
\* that does not compile.
Adopts(proposed, baseline, allowCompileRecovery) ==
    /\ \/ baseline.status \in {"MEASURED", "PASS", "FAIL"}
       \/ allowCompileRecovery /\ baseline.status = "COMPILE_FAILURE"
    /\ selectCommonCheckerCandidate(proposed, baseline) = "ACCEPT_IMPROVEMENT"

-----------------------------------------------------------------------------
(* The ledger of findings.  A finding has a code, a text and whether it is    *)
(* an error; alike is the set of pairs of texts that count as one.            *)

matchDiagnostic(b, c, alike) == b.code = c.code /\ <<b.text, c.text>> \in alike

\* A finding b of the baseline takes the first free one that matches it.
TakeMatch(taken, b, cand, alike) ==
    LET free == {j \in DOMAIN cand :
                  j \notin taken /\ matchDiagnostic(b, cand[j], alike)}
    IN  IF free = {} THEN taken ELSE taken \cup {Min(free)}

Taken(base, cand, alike) ==
    FoldLeft(LAMBDA taken, b : TakeMatch(taken, b, cand, alike), {}, base)

\* The unmatched ones of the candidate: introduced, or revealed when the
\* baseline has findings of their code.
LedgerOf(base, cand, taken) ==
    LET fresh == {j \in DOMAIN cand \ taken : \A b \in ToSet(base) : b.code # cand[j].code}
    IN  [persisting |-> Cardinality(taken),
         resolved   |-> Len(base) - Cardinality(taken),
         introduced |-> fresh,
         revealed   |-> DOMAIN cand \ (taken \cup fresh)]

FindingLedger(base, cand, alike) == LedgerOf(base, cand, Taken(base, cand, alike))

Blocking(f) == f.isError \/ f.code = "SYNTAX"

DecisionOn(base, cand, l) ==
    LET new == Cardinality(l.introduced)
        score == 3 * l.resolved - Cardinality(l.revealed) - 5 * new
        byScore == IF l.resolved > 0
                   THEN IF new = 0 \/ score >= -2 THEN "ACCEPT_PROGRESS"
                        ELSE "REJECT_NO_IMPROVEMENT"
                   ELSE IF new = 0 THEN "ACCEPT_EQUIVALENT"
                   ELSE "REJECT_REGRESSION"
        brokeSyntax == /\ \E j \in l.introduced : cand[j].code = "SYNTAX"
                       /\ \A b \in ToSet(base) : b.code # "SYNTAX"
        count(fs) == Cardinality({i \in DOMAIN fs : Blocking(fs[i])})
    IN  IF brokeSyntax \/ count(cand) > count(base) THEN "REJECT_REGRESSION"
        ELSE byScore

PatchDecision(base, cand, alike) == DecisionOn(base, cand, FindingLedger(base, cand, alike))

-----------------------------------------------------------------------------
(* The ledger of tests.  A test is a check of a requirement, numbered within  *)
(* it; suites map tests to results.                                           *)

\* FAIL wins, then missing evidence.
aggregateByReq(suite) ==
    [r \in {t.req : t \in DOMAIN suite} |->
        LET got == {suite[t] : t \in {u \in DOMAIN suite : u.req = r}}
        IN  IF "FAIL" \in got THEN "FAIL"
            ELSE IF "UNSUPPORTED" \in got THEN "UNSUPPORTED" ELSE "PASS"]

\* Which results of the baseline b changed how in c.  A check that is gone is
\* not resolved, except one of the markers of a failed compilation.
TestLedger(b, c, markers) ==
    LET both == DOMAIN b \intersect DOMAIN c
        gone == DOMAIN b \ DOMAIN c
        healed == {t \in gone : b[t] = "FAIL" /\ t \in markers}
    IN  [resolved   |-> healed \cup {t \in both : b[t] = "FAIL" /\ c[t] = "PASS"},
         introduced |-> {t \in both : b[t] = "PASS" /\ c[t] = "FAIL"},
         revealed   |-> {t \in DOMAIN c \ DOMAIN b : c[t] = "FAIL"},
         dropped    |-> gone \ healed]

classifyTestResults(b, c, markers) ==
    LET l == TestLedger(b, c, markers)
        up == Cardinality(l.resolved)
        score == 3 * up - Cardinality(l.revealed) - 5 * Cardinality(l.introduced)
                    - 3 * Cardinality(l.dropped)
        worse == l.introduced \cup l.dropped # {}
    IN  IF \E t \in DOMAIN c : t \in markers /\ c[t] = "FAIL"
        THEN "REJECT_COMPILE_FAIL"
        ELSE IF up = 0 /\ worse THEN "REJECT_REGRESSION"
        ELSE IF up > 0 /\ (~worse \/ score > 0) THEN "ACCEPT_PROGRESS"
        ELSE IF up = 0
        THEN IF l.revealed = {} THEN "ACCEPT_EQUIVALENT" ELSE "REJECT_NO_IMPROVEMENT"
        ELSE IF score >= 0 THEN "ACCEPT_EQUIVALENT" ELSE "REJECT_REGRESSION"

classifyTestResultsByReq(b, c) ==
    classifyTestResults(aggregateByReq(b), aggregateByReq(c),
                        {CompileMarker})

-----------------------------------------------------------------------------
(* The verdict on the integrated system.  m: whether its lint ran and with    *)
(* how many errors and warnings, the tests of the system and how many pass,   *)
(* the verdicts and scores of its modules, whether they import a package and  *)
(* whether there is one.                                                      *)

WEIGHTS == [lint |-> 35, systemTb |-> 35, modules |-> 25, sharedPackage |-> 5]

\* Three fifths of a weight is what a component earns that is not flawless.
Partly(weight) == (weight * 3) \div 5

LintEarned(m) ==
    IF ~m.lintRan \/ m.errors > 0 THEN 0
    ELSE IF m.warnings > 0 THEN Partly(WEIGHTS.lint) ELSE WEIGHTS.lint

TbEarned(m) ==
    IF m.total = 0 \/ 5 * m.pass < 4 * m.total THEN 0
    ELSE IF m.pass < m.total THEN Partly(WEIGHTS.systemTb) ELSE WEIGHTS.systemTb

AllJudged(m) == m.judges # {} /\ \A j \in m.judges : j.overall = "PASS"

ModulesEarned(m) ==
    IF AllJudged(m) THEN WEIGHTS.modules
    ELSE IF m.judges # {} /\ \A j \in m.judges : j.score >= 70
    THEN Partly(WEIGHTS.modules) ELSE 0

\* The package counts if there is one or one is imported.
integrationScore(m) ==
    LET applies == IF m.provided \/ m.imported THEN WEIGHTS.sharedPackage ELSE 0
        earned == LintEarned(m) + TbEarned(m) + ModulesEarned(m)
                    + IF m.provided THEN WEIGHTS.sharedPackage ELSE 0
        possible == WEIGHTS.lint + WEIGHTS.systemTb + WEIGHTS.modules + applies
    IN  (200 * earned + possible) \div (2 * possible)

integrationOverall(m) ==
    IF integrationScore(m) >= 70 /\ m.lintRan /\ m.errors = 0 /\ AllJudged(m)
    THEN "PASS" ELSE "FAIL"

-----------------------------------------------------------------------------
(* What the choices are for, to check on small inputs and to prove of all.    *)

\* Of two lints, is the first one better to ship, whoever drew it.
CleanerLint(x, y) ==
    /\ x # Unlinted
    /\ \/ y = Unlinted
       \/ x.compiles /\ ~y.compiles
       \/ x.compiles = y.compiles
            /\ \/ x.errors < y.errors
               \/ x.errors = y.errors /\ x.warnings < y.warnings

\* What list.sort promises of the comparator: the same candidates, none behind one that
\* it precedes.
IsRanking(candidates, r) ==
    /\ \E p \in [DOMAIN candidates -> DOMAIN candidates] :
         /\ IsInjective(p) /\ ToSet(p) = DOMAIN candidates
         /\ r = [i \in DOMAIN candidates |-> candidates[p[i]]]
    /\ \A i, j \in DOMAIN r : i < j => ~Precedes(RankKey(r[j]), RankKey(r[i]))

\* Nothing in the pool is cleaner than w, and of equals the earliest wins.
EarliestBest(pool, w) ==
    \A c \in ToSet(pool) :
        /\ ~CleanerLint(c.lint, w.lint)
        /\ c.index < w.index => CleanerLint(w.lint, c.lint)

RunStatuses == {"TIMEOUT", "ERROR", "RUNTIME_EXIT", "UNKNOWN_EXIT", "UNVERIFIED",
                "MISSING_MARKERS", "COMPILE_FAILURE", "MEASURED", "PASS", "FAIL"}

\* A run that measured was simulated and printed results.
TestRun(Checkers, Names) ==
    {m \in [checker: Checkers, qualified: BOOLEAN, status: RunStatuses, cli: BOOLEAN,
            tests: Seq([name: Names, st: {"PASS", "FAIL", "UNSUPPORTED"}])] :
        m.status \in {"MEASURED", "PASS", "FAIL"} => m.cli /\ m.tests # <<>>}

\* A new RTL that was simulated and compiles, under the qualified checker that measured
\* the incumbent; and either the incumbent does not compile or the same named checks
\* were run of both, every one that passed passes and one more does.
StrictProgress(new, old) ==
    /\ new.cli /\ new.tests # <<>> /\ ~hasCompileFailure(new.tests)
    /\ new.qualified /\ new.checker = old.checker
    /\ \/ outcomeStatus(old) = "COMPILE_FAIL"
       \/ /\ IsInjective(NamesOf(new.tests))
          /\ ToSet(NamesOf(new.tests)) = ToSet(NamesOf(old.tests))
          /\ passedCheckIds(old) \subseteq passedCheckIds(new)
          /\ passedCheckIds(old) # passedCheckIds(new)

Accepting == {"ACCEPT_PROGRESS", "ACCEPT_EQUIVALENT"}

\* The candidate's suite c compiles and resolves at least as many requirements of the
\* baseline's as it breaks and drops.
GoesForward(b, c) ==
    LET l == TestLedger(aggregateByReq(b), aggregateByReq(c), {CompileMarker}) IN
    /\ \A t \in DOMAIN c : t.req = CompileMarker => c[t] # "FAIL"
    /\ Cardinality(l.introduced) + Cardinality(l.dropped) <= Cardinality(l.resolved)

Integration ==
    {m \in [lintRan: BOOLEAN, errors: Nat, warnings: Nat, total: Nat, pass: Nat,
            judges: SUBSET [overall: {"PASS", "FAIL"}, score: Int],
            provided: BOOLEAN, imported: BOOLEAN] : m.pass <= m.total}

Flawless(m) ==
    /\ m.lintRan /\ m.errors = 0 /\ m.warnings = 0
    /\ m.total > 0 /\ m.pass = m.total
    /\ AllJudged(m)
    /\ m.imported => m.provided

\* n is as good as m in every respect, with the same tests and imports.
NoWorse(n, m) ==
    /\ m.lintRan => n.lintRan
    /\ n.errors <= m.errors /\ n.warnings <= m.warnings
    /\ n.total = m.total /\ n.pass >= m.pass
    /\ m.judges # {} => n.judges # {}
    /\ \A k \in n.judges : \E j \in m.judges :
         k.score >= j.score /\ (j.overall = "PASS" => k.overall = "PASS")
    /\ m.provided => n.provided
    /\ n.imported = m.imported

CostsNothing(n, m) ==
    /\ integrationScore(n) >= integrationScore(m)
    /\ integrationOverall(m) = "PASS" => integrationOverall(n) = "PASS"
=============================================================================
