----------------------------- MODULE MCRunBudget -----------------------------
(* RunBudget on every order of the events of a few small stages.             *)
EXTENDS Naturals
LOCAL INSTANCE SequencesExt
LOCAL INSTANCE RunBudget

\* The ceiling, the tokens between two gates at most, and the tokens explored.
MaxTokens == 4
GateTokens == 2
SpendBound == 10

\* What the calls up to a gate may cost, and the last of them.
Costs(iterative) ==
    {c \in (1 .. GateTokens) \X (1 .. GateTokens) :
        c[2] <= c[1] /\ (iterative \/ c[1] = c[2])}

\* One event of worker i.  iterative: its stages may call more than once, and again
\* after the loop's gate; else they make one call.
WorkerEvents(p, i, iterative, ledgered) ==
    LET s == p.w[i] IN
    CASE s.at = "idle" -> {StartStage(p, i, MaxTokens, ledgered)}
      [] s.at = "stopped" -> {}
      [] s.at = "stage" ->
           IF s.own = 0 THEN {Calls(p, i, c[1], c[2]) : c \in Costs(iterative)}
           ELSE {EndStage(p, i, ledgered), FailStage(p, i)}
                \cup LET g == LoopGate(p, i, MaxTokens)
                     IN  IF iterative /\ ~g.w[i].over
                         THEN {Calls(g, i, c[1], c[2]) : c \in Costs(TRUE)} ELSE {}

\* The projects that so many events make of a new one, up to a spend.
Projects(n, workers, iterative, ledgered) ==
    LET Grow(ps, e) == ps \cup {q \in UNION {WorkerEvents(p, i, iterative, ledgered) :
                                      p \in ps, i \in workers} : q.spent <= SpendBound}
    IN  FoldLeft(Grow, {NewProject(workers)}, [e \in 1 .. n |-> e])

MaxSteps == 14

Sequential == Projects(MaxSteps, {1}, TRUE, TRUE)
OneCallEach == Projects(MaxSteps, {1}, FALSE, TRUE)
TwoWorkers == Projects(MaxSteps, {1, 2}, FALSE, TRUE)
Headless == Projects(MaxSteps, {1}, FALSE, FALSE)

\* The ledger is true as far as it goes, and stages stop.
ASSUME EveryStageStops ==
    \A p \in Sequential \cup TwoWorkers : StagesStop(p, MaxTokens, GateTokens)

\* If each stage makes one call and none fails, the project exceeds its ceiling by less
\* than a call; workers beside each other, whose guards were made on the same ledger,
\* by less than a call each, and by more than one.
ASSUME CeilingHoldsOfSingleCalls ==
    /\ \A p \in OneCallEach \cup TwoWorkers :
        (\A i \in DOMAIN p.w : p.w[i].at # "stopped") => CeilingHolds(p, MaxTokens, GateTokens)
    /\ \E p \in TwoWorkers :
        (\A i \in {1, 2} : p.w[i].at # "stopped") /\ p.spent > MaxTokens + GateTokens

\* In general it does not bound "total tokens (in + out) across the whole project"
\* (budget.js:35): a stage with a fix loop adds its last call to the ledger, and one
\* that throws nothing, so the gates admit stages after twice the ceiling; and
\* the train command's loop gives each stage the whole of it.
ASSUME CeilingIsNotOfTheProject ==
    /\ \E p \in Sequential : p.w[1].at = "idle" /\ p.spent >= 2 * MaxTokens
                             /\ ~Exceeds(p.ledger, MaxTokens)
    /\ \E p \in Headless : p.w[1].at = "idle" /\ p.spent >= 2 * MaxTokens

\* Integration calls the model in a project that no stage may start in any more.
ASSUME IntegrationIsNotGated ==
    \E p \in OneCallEach :
        /\ p.w[1].at = "idle" /\ Exceeds(p.ledger, MaxTokens)
        /\ IntegrationCall(p, GateTokens).spent > p.spent
=============================================================================
