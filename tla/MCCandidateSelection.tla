------------------------ MODULE MCCandidateSelection ------------------------
(* The choices of CandidateSelection against what they are for, on all small *)
(* inputs.                                                                   *)
EXTENDS CandidateSelection

-----------------------------------------------------------------------------
(* Up to three draws. *)

Lints == {Unlinted, LintThrew, LintOf(0, 0, 0), LintOf(0, 0, 1), LintOf(1, 0, 0),
          LintOf(1, 1, 1), LintOf(1, 2, 0)}
Draw == [admitted: BOOLEAN, answers: BOOLEAN, lint: Lints]
DrawLists == {draws \in BoundedSeq(Draw, 3) : draws # <<>>}

\* The comment on diversityConfig, "selection can never do worse than best-of-1":
\* whatever is drawn after it, the baseline is in the pool, nothing in the pool is
\* cleaner than the winner, and of equals the earliest wins.
ASSUME WinnerIsTheEarliestBest ==
    \A draws \in DrawLists :
        LET run == runBestOfN(draws) IN
        ~run.threw =>
            /\ run.pool[1].index = 0
            /\ IsRanking(run.pool, run.ranked)
            /\ EarliestBest(run.pool, run.ranked[1])

\* But it can: a linter that fails on a later draw takes the baseline with it.
ASSUME LaterDrawsCanCostTheBaseline ==
    \E draws \in DrawLists :
        ~runBestOfN(<<draws[1]>>).threw /\ runBestOfN(draws).threw

-----------------------------------------------------------------------------
(* Measurements: suites of two named, unnamed, repeated and compile-failure   *)
(* results, suites of three names, and every way a run may end.               *)

Result(names) == [name: names, st: {"PASS", "FAIL", "UNSUPPORTED"}]
Suites ==
    BoundedSeq(Result({"x", "y", Unnamed, CompileMarker}), 2)
        \cup [1 .. 3 -> [name: {"x", "y"}, st: {"PASS", "FAIL"}]]
        \cup {s \in [1 .. 3 -> [name: {"x", "y", "z"}, st: {"PASS", "FAIL"}]] :
                IsInjective(NamesOf(s))}

Ended(checker, qualified, status, cli, tests) ==
    [checker |-> checker, qualified |-> qualified, status |-> status,
     cli |-> cli, tests |-> tests]

\* A run that measured was simulated and printed results.
Measurements ==
    {Ended("k", TRUE, "MEASURED", TRUE, s) : s \in Suites \ {<<>>}}
        \cup {Ended(k, q, status, status = "MEASURED" \/ cli, <<[name |-> "x", st |-> r]>>) :
                k \in {"k", "l", "none"}, q \in BOOLEAN, cli \in BOOLEAN,
                status \in {"MEASURED", "COMPILE_FAILURE", "TIMEOUT", "UNVERIFIED"},
                r \in {"PASS", "FAIL"}}

\* The guard lets a new RTL through only for strict progress: through duplicate, unnamed
\* and unsupported results.
ASSUME AdoptionIsStrictProgress ==
    /\ Measurements \subseteq
         TestRun({"k", "l", "none"}, {"x", "y", "z", Unnamed, CompileMarker})
    /\ \A new, old \in Measurements : \A recovery \in BOOLEAN :
         Adopts(new, old, recovery) => StrictProgress(new, old)

-----------------------------------------------------------------------------
(* Suites of up to four checks of three requirements. *)

Checks == {[req |-> "R1", no |-> 1], [req |-> "R1", no |-> 2],
           [req |-> "R2", no |-> 1], [req |-> CompileMarker, no |-> 1]}
CheckSuites == UNION {[S -> {"PASS", "FAIL", "UNSUPPORTED"}] : S \in SUBSET Checks}

\* An accepted candidate compiles and resolves at least as many requirements as it
\* breaks and drops: deleting failing checks is never progress.
ASSUME AcceptedTestsGoForward ==
    \A b, c \in CheckSuites :
        classifyTestResultsByReq(b, c) \in Accepting => GoesForward(b, c)

\* The comment on classifyTestResultsByReq: a regeneration that renumbers the checks
\* of a requirement without changing its verdict is neither progress nor a regression;
\* test by test it would be.
ASSUME RenumberingIsNoChange ==
    /\ \A b, c \in CheckSuites :
         aggregateByReq(b) = aggregateByReq(c) =>
            classifyTestResultsByReq(b, c) \in {"ACCEPT_EQUIVALENT", "REJECT_COMPILE_FAIL"}
    /\ \A decision \in {"ACCEPT_PROGRESS", "REJECT_REGRESSION"} :
         \E b, c \in CheckSuites :
            /\ aggregateByReq(b) = aggregateByReq(c)
            /\ classifyTestResults(b, c, {t \in Checks : t.req = CompileMarker}) = decision

\* What the ledger does not see: passing requirements whose evidence becomes
\* unsupported (an X-sensitive check on a two-state simulator) are no loss to it.
ASSUME LostEvidenceIsEquivalent ==
    \E b, c \in CheckSuites :
        /\ DOMAIN b = DOMAIN c /\ b # <<>>
        /\ \A t \in DOMAIN b : b[t] = "PASS" /\ c[t] = "UNSUPPORTED"
        /\ classifyTestResultsByReq(b, c) = "ACCEPT_EQUIVALENT"

-----------------------------------------------------------------------------
(* Integrations with up to five system tests and two modules. *)

Judged == [overall: {"PASS", "FAIL"}, score: {50, 70, 90}]

Integrations ==
    {[lintRan |-> ran, errors |-> e, warnings |-> w, total |-> n, pass |-> p,
      judges |-> js, provided |-> prov, imported |-> imp] :
        ran \in BOOLEAN, e \in 0 .. 1, w \in 0 .. 1, n \in {0, 1, 4, 5}, p \in 0 .. 5,
        js \in {{}} \cup {{j, k} : j, k \in Judged}, prov \in BOOLEAN, imp \in BOOLEAN}

PossibleIntegrations == {m \in Integrations : m.pass <= m.total}

\* The header of integrationScore.js: a flawless run is exactly 100, with a shared
\* package or without one, and nothing else is.
ASSUME FlawlessIsExactlyHundred ==
    \A m \in PossibleIntegrations :
        /\ m \in Integration
        /\ integrationScore(m) \in 0 .. 100
        /\ integrationScore(m) = 100 <=> Flawless(m)

\* PASS asks for no share of the system's tests, but no sum of the other weights
\* reaches 70: at least four fifths of them pass.
ASSUME PassNeedsTheSystemTests ==
    \A m \in PossibleIntegrations :
        integrationOverall(m) = "PASS" => m.total > 0 /\ 5 * m.pass >= 4 * m.total

\* What is better in one respect and the same in the others.
Improvements(m) ==
    {[m EXCEPT !.lintRan = TRUE], [m EXCEPT !.errors = 0], [m EXCEPT !.warnings = 0],
     [m EXCEPT !.pass = IF @ < m.total THEN @ + 1 ELSE @], [m EXCEPT !.provided = TRUE]}
        \cup {[m EXCEPT !.judges = {[j EXCEPT !.overall = "PASS", !.score = 90] : j \in @}]}

\* A component that does not apply leaves the denominator: still no improvement, a
\* package the design did not need included, costs points or the verdict.
ASSUME ImprovementNeverCosts ==
    \A m \in PossibleIntegrations : \A n \in Improvements(m) :
        NoWorse(n, m) /\ CostsNothing(n, m)
=============================================================================
