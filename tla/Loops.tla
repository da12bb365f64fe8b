---- MODULE Loops ----
\* The loops that LLMCall, FormalRunner, FormalVerify, RunBudget, ModuleGraph and
\* CandidateSelection describe step by step, as specifications: each with the answers and
\* orders its code leaves open.
EXTENDS LLMCall, FormalRunner, FormalVerify, RunBudget, ModuleGraph, CandidateSelection

VARIABLES
  call,     \* a question to the language model
  job,      \* a job of the solver
  stage,    \* a run of the formal_verify stage
  project,  \* the tokens of a project and its workers
  kahn,     \* the order of the modules, as far as it is made
  depth,    \* the levels of the modules, as far as they are made
  search,   \* the levels below the top, as far as the search has come
  draws,    \* the generations of a best-of-n
  pairing   \* the findings of a baseline, as far as they are paired

----
\* callLLMJson, callLLM, callWithTransientRetry and callLLMOnce: a request a step.
CallInit(cfg) == call = Fresh(cfg)
CallNext(cfg) == \E a \in Answer : call' = Asked(call, a, cfg)
CallSpec(cfg) == CallInit(cfg) /\ [][CallNext(cfg)]_call

\* A call that goes on has sent a request.
EveryStepSends == [][call'.end = "none" => call'.sent = call.sent + 1]_call

----
\* runBmc: the events of a job, in whatever order they come.
JobInit == job \in {SpawnedJob("alive"), SpawnedJob("unborn")}
JobNext(mode) == job' \in Due(job, mode) \union Possible(job)
JobSpec(mode) == JobInit /\ [][JobNext(mode)]_job

\* A job resolves once, and its timers and listener stay as they then are.
ResolvesOnce ==
  [][job.settled # "none" =>
       /\ job'.settled = job.settled
       /\ ~ job'.killTimer /\ ~ job'.hardTimer /\ ~ job'.heard]_job

----
\* A formal_verify stage with at most max repairs: what it lacks when it enters, and what
\* the solver and the model answer.  A solver does not pass what it refuted before.
BmcStatus == {"PASS", "FAIL", "TIMEOUT", "TOOL_ERROR"}
ProveStatus == BmcStatus \union {"UNKNOWN"}

StageInit == \E met \in SUBSET Preconditions : stage = Entered(met)

BmcTurn(max) ==
  \E status \in BmcStatus, repair \in Repair :
    /\ status = "PASS" => stage.rtl \notin stage.refuted
    /\ stage' = Turn(stage, status, repair, max)

ProofTried ==
  /\ stage.proveStatus = "none"
  /\ \E status \in ProveStatus, formalProve \in BOOLEAN :
       stage' = Proved(stage, status, formalProve)

StageNext(max) == BmcTurn(max) \/ ProofTried
StageSpec(max) == StageInit /\ [][StageNext(max)]_stage

----
\* The workers of a project.  max: its ceiling; gate: the tokens between two gates at most;
\* iterative: stages call the model more than once; failing: stages may throw;
\* ledgered: the stages know the ledger; integrated: the integration runs too.
Projects ==
  [max: Nat \ {0}, gate: Nat \ {0}, iterative: BOOLEAN, failing: BOOLEAN,
   ledgered: BOOLEAN, integrated: BOOLEAN]

ProjectInit(workers) == project = NewProject(workers)

StageStarts(i, cfg) ==
  /\ project.w[i].at = "idle"
  /\ project' = StartStage(project, i, cfg.max, cfg.ledgered)

Costs(cfg) ==
  {c \in (1..cfg.gate) \X (1..cfg.gate) : c[2] <= c[1] /\ (cfg.iterative \/ c[1] = c[2])}

FirstCalls(i, cfg) ==
  /\ project.w[i].at = "stage" /\ project.w[i].own = 0
  /\ \E c \in Costs(cfg) : project' = Calls(project, i, c[1], c[2])

MoreCalls(i, cfg) ==
  /\ project.w[i].at = "stage" /\ project.w[i].own > 0 /\ cfg.iterative
  /\ LET asked == LoopGate(project, i, cfg.max) IN
       /\ ~ asked.w[i].over
       /\ \E c \in Costs(cfg) : project' = Calls(asked, i, c[1], c[2])

StageEnds(i, cfg) ==
  /\ project.w[i].at = "stage"
  /\ \/ project' = EndStage(project, i, cfg.ledgered)
     \/ cfg.failing /\ project' = FailStage(project, i)

Integrates(cfg) ==
  /\ cfg.integrated
  /\ \E tokens \in 1..cfg.gate : project' = IntegrationCall(project, tokens)

ProjectNext(workers, cfg) ==
  \/ \E i \in workers :
       StageStarts(i, cfg) \/ FirstCalls(i, cfg) \/ MoreCalls(i, cfg) \/ StageEnds(i, cfg)
  \/ Integrates(cfg)

ProjectSpec(workers, cfg) == ProjectInit(workers) /\ [][ProjectNext(workers, cfg)]_project

----
\* Kahn's loop of getModuleOrder on the modules M and the edges E between them.
KahnInit(M, E) == \E leaves \in Enumerations(Leaves(M, E)) : kahn = Started(M, E, leaves)
KahnSpec(M, E) == KahnInit(M, E) /\ [][IsRound(E, kahn, kahn')]_kahn

\* The loop over the order that gives each module of it its level.
DepthInit(order) ==
  depth = [placed |-> 0, level |-> [m \in {order[i] : i \in DOMAIN order} |-> 0]]

DepthNext(order, uses) ==
  /\ depth.placed < Len(order)
  /\ depth' = [placed |-> depth.placed + 1,
               level |-> PutLevel(depth.level, order[depth.placed + 1], uses)]

DepthSpec(order, uses) == DepthInit(order) /\ [][DepthNext(order, uses)]_depth

\* computeEffectiveLevels' search: a round visits the head of the queue, lowers the levels
\* of what it instantiates and queues what it has not visited, in the order and as often as
\* there are instances, which is left open.
Below(M, E, m) == {c \in M : <<m, c>> \in E}

IsVisit(M, E, st, nxt) ==
  /\ st.queue # <<>>
  /\ IF Head(st.queue) \in st.visited
     THEN nxt = [st EXCEPT !.queue = Tail(@)]
     ELSE LET cur    == Head(st.queue)
              kids   == Below(M, E, cur)
              unseen == kids \ (st.visited \union {cur})
              lower(m) == IF m \notin DOMAIN st.found THEN st.found[cur] + 1
                          ELSE IF m \in kids THEN Min({st.found[m], st.found[cur] + 1})
                          ELSE st.found[m]
          IN \E q \in Seq(unseen) :
               /\ ToSet(q) = unseen
               /\ nxt = [found |-> [m \in (DOMAIN st.found) \union kids |-> lower(m)],
                         visited |-> st.visited \union {cur},
                         queue |-> Tail(st.queue) \o q]

SearchInit(top) ==
  search = [found |-> [m \in {top} |-> 0], visited |-> {}, queue |-> <<top>>]
SearchSpec(M, E, top) == SearchInit(top) /\ [][IsVisit(M, E, search, search')]_search

----
\* runBestOfN with at most n draws: what the budget, the model and the linter say of each.
Lint == {LintOf(x, e, w) : x \in Int, e \in Nat, w \in Nat} \union {Unlinted}
Draw == [admitted: BOOLEAN, answers: BOOLEAN, lint: Lint \union {LintThrew}]

DrawInit == draws = NoDraws
DrawNext(n) ==
  /\ ~ draws.over /\ draws.next < n
  /\ \E d \in Draw : draws' = Drawn(draws, d)
DrawSpec(n) == DrawInit /\ [][DrawNext(n)]_draws

----
\* classifyDiagnostics' pairing of the findings of a baseline with those of a candidate:
\* which of the candidate's are taken, and which of the baseline's are left without one.
PairInit == pairing = [next |-> 1, taken |-> {}, resolved |-> {}]

PairNext(base, cand, alike) ==
  /\ pairing.next <= Len(base)
  /\ LET taken == TakeMatch(pairing.taken, base[pairing.next], cand, alike) IN
       pairing' = [next |-> pairing.next + 1, taken |-> taken,
                   resolved |-> pairing.resolved \union
                                  (IF taken = pairing.taken THEN {pairing.next} ELSE {})]

PairSpec(base, cand, alike) == PairInit /\ [][PairNext(base, cand, alike)]_pairing
====
