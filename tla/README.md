# A TLA+ model of RTLForge

RTLForge turns a hardware description in English into SystemVerilog. It asks a
language model for a specification, RTL, a testbench and reviews, runs Verilator
and formal tools on the result, repairs it, and judges it; a *system* run does so
for each module of a decomposed design and then integrates them.

This directory models the parts of it in which the order of things matters: who
may run beside whom, what is still valid after something changed, what survives a
crash, and what an exit code of 0 is worth. What a language model answers, and the
analysis of SystemVerilog text, are choices of the environment.

Paths below are relative to the repository's root.

## 1. Inventory

### Tool backend: `backend/taskRegistry.js`, `backend.js`
*State.* `running`, a Map from task id to entry (label, `kill()`); `queue`, the
parked tasks. Each handler holds the current child process of its bundle.
*Operations.* `admit`, `complete`, `abort(id)`, `abortAll`, `drain`; the HTTP
handlers `/api/execute`, `/api/abort`, `/api/tasks`, `/api/health`.
*Interaction.* The handler awaits an admission, runs the bundle, and completes the
task in a `finally`; the request's close event aborts the task under its id.
*Hard.* Ids are the client's: two requests may carry the same one. Hangup, abort,
end of a command and a retry come in any order.
*Correct when* no more bundles execute than there are slots, no slot idles or is
stranded, admission is first-in first-out, every request is answered.

### Tool client and executor: `src/cli/`
*State.* Per `runCli` call: its attempt, its timer, its task id; per bundle: the
process group, its two timers, the remaining commands.
*Operations.* attempt, timeout, backoff, retry, user abort; spawn, close, stop,
hard kill. `formalRunner.js` does the same for a prover with a stop protocol of its own, for `nodes/formal_verify.js`.
*Correct when* a call settles once, a stopped tool is gone, one failing command ends
the bundle.

### Project state: `src/projectState/reducer.js`, `actions.js`, `moduleRegistry.js`
*State.* Per module: `stageData` (a slot per stage), `completed`, `stageErrors`,
run records, `contentHash`, `childHashes`; per project: instances, decomposition,
shared package, integration slots, ledger, view state.
*Operations.* One per action type; each dispatch is synchronous and pure.
*Hard.* A change of the sealed specification invalidates what was derived from it,
inside the reducer, whatever the caller meant to do next.
*Correct when* completed work belongs to the current contract.

### Stage run: `src/projectState/runStage.js`
*Operations.* Budget gate; start (clears the error, opens a run record); the node
call (the only await that matters); then a fixed sequence of dispatches: the result,
mirrors of artifacts that belong to other stages, completion, content hash, the
parents' `childHashes`.
*Hard.* Everything it reads of the project after the await is a snapshot from
before it.

### Module walk: `src/projectState/runAllPipelines.js`, `dependencyGraph.js`
*State.* The order, the waves, the workers (`runOneModule`), the reflow counter.
*Operations.* Launch a module or a wave; the worker's stage loop; settle; integrate;
reflow the module that integration blames; end.
*Correct when* no module runs beside one it instantiates, nothing starts after a
failure, the walk ends, "done" means walked.

### System integration: `src/projectState/runIntegrationPipeline.js`
*State.* The hashes of the last integration, three integration slots.
*Operations.* Change detection, lint with fix loop, system test with fix loop,
judge; blame of a module; repair of the top's RTL or of the shared package.
*Correct when* its verdict is about the modules as they are.

### System command and checkpoints: `src/term/commands/runSystem.js`, `src/term/store.js`, `src/projectState/checkpoint*.js`, `storage.js`
*State.* The store; a checkpoint file per project and an index; the last hashes and
the last integration result of this process.
*Operations.* Decompose, walk, save after each stage, skip completed stages, resume,
exit code. The browser's storage adds a quota recovery that purges.
*Hard.* A crash between a dispatch and a save; a save that fails and is ignored;
verdicts that outlive the process that gave them.
*Correct when* a resume completes exactly what is missing, and exit 0 tells the truth.

### Lint fix loops: `src/pipeline/nodes/lint.js`, `lint_test.js`
*State.* The code, the candidate, the first and the last measurement, the best code
seen; the brakes: iterations, stagnation, repeated outcome, rising errors.
*Operations.* measure, ask for a fix (inline or by re-running the generating stage),
check the candidate, adopt or reject, stop, restore the best, report a status.
*Hard.* Six brakes stop the loop between an adoption and its measurement; a restored
code and the report beside it are chosen in different places.
*Correct when* the code shipped is the best seen and the report is about it.

### Repair loops of `verify` and `judge`: `src/pipeline/nodes/`, `reflowRunner.js`, `src/eval/gate.js`
*State.* The RTL and testbench held; the verify and lint slots, each stamped with the code it was measured on; per
loop the best-known pair or state, the brakes, what it was given; the champion carried by the verify slot.
*Operations.* verify: simulate, track the best, triage, walk a chain of stages back to itself, adopt, ship. judge: grade
by the evaluation gate, triage, walk a chain that ends with a judge of its own, restore, give the verdict.
*Interaction.* The reflow runner walks entry by entry; an entry may be skipped by the budget, fail, or have its RTL
rejected by the replacement guard; a node invoked by a walk gets the slots of the walk.
*Hard.* The code changes under measurements that were taken of it; three places choose what to ship (best of verify,
best of judge, champion), each by an ordering of its own; loops are nested and each may be cut short anywhere.
*Correct when* what a slot says was measured on the code it is stamped with, a repair never ships less than it was
given, and PASS means that the shipped pair was simulated and is green.

### Review loops: `src/pipeline/nodes/rtl_review.js`, `test_review.js`, `reviewRepairBudget.js`
*State.* The code held, the code before the iteration, the review that stands; the repair allowance of the whole
tree (used, rejected candidates, the reason it stopped); whether a proposal blocks the loop.
*Operations.* review; walk a chain that regenerates the code and reviews it, or ask for a fix inline; qualify a candidate
(linter, acceptance suite); ask again after an empty module; take a regression back; gate the verdict on a compile;
leave with a specification conflict.
*Hard.* Code, verdict and the slot they meet in change apart; eight ways out of an iteration.
*Correct when* the review is of the code held, a PASS was given to what ships, and no sequence of fixes loses what the
given code had.

### Choosing between versions: `src/pipeline/bestOfN.js`, `candidateGuard.js`, `reviewAcceptance.js`, `classifiers.js`, `integrationScore.js`
*State.* None: functions of two versions and what was measured of each.
*Operations.* rank cold generations; accept a repair under a common checker; tell progress from regression, by finding, by
test, by requirement; score an integrated system.
*Hard.* Missing, duplicate, renumbered and withdrawn evidence; criteria that trade one loss for another gain.
*Correct when* no accepted version is worse than what it replaces, in the sense the rest of the pipeline relies on.

### LLM client: `src/llm/callLLMJson.js`, `callLLM.js`, with `src/pipeline/budget.js`
*State.* Per call: re-ask, rung of the ladder, retry, the cap, whether schema and thinking are off; per stage: requests reserved.
*Operations.* ask; re-ask what does not parse; escalate what was cut; retry what failed in transit; resend without a schema.
*Hard.* Four loops, one inside the other, each with a way out of all of them.
*Correct when* a call ends, costs what its limits allow, and what it spent is accounted for.

### Not modelled
Observer, evaluation, skills, workflows,
prompts, web interface (`src/react/`), utilities. `PROJECT.json` lists each with the
reason, and says of a partly modelled part what is left out.

## 2. Modules

| module | models | extends |
|---|---|---|
| `TaskRegistry` | `backend/taskRegistry.js` | |
| `BackendExec` | registry, server handlers, command loop and clients together | `TaskRegistry` |
| `ProjectReducer` | module state and the reducer's actions | |
| `StageRun` | what one `runStage` makes of the project, per kind of stage | `ProjectReducer` |
| `ModuleGraph` | order and levels of modules, pipeline, tails, frontier, as operators | |
| `DependencyWalk` | abstract: what a walk over modules promises | |
| `SystemRun` | walk, waves, integration, reflows, checkpoints, resume, exit code | `StageRun` |
| `CheckpointStore` | checkpoint manager over the storages, one step per storage call | |
| `LintLedger` | findings by sort and the decision on a candidate, as operators | |
| `LintLoop` | the fix loop of `lint` and `lint_test` | `LintLedger` |
| `Measurement` | outcomes, slots, champion and the evaluation gate, as operators | |
| `RepairRun` | lint, verify and judge on one module, with the walks between them | `Measurement` |
| `ReviewLoop` | the loop of `rtl_review` and `test_review` with its repair allowance | |
| `CandidateSelection` | best-of-n, acceptance, classifiers, integration score, as operators | |
| `LLMCall` | a question to the model and its requests, folded over the answers | |
| `FormalRunner` | a solver job: events, timers, stop protocol, as operators | |
| `FormalVerify` | the `formal_verify` stage, folded over its jobs and repairs | |
| `RunBudget` | the token ceiling over stages, workers and integration, as operators | |
| `Loops` | the loops of the last five and of `ModuleGraph` as specifications, to prove about | `LLMCall`, `FormalRunner`, `FormalVerify`, `RunBudget`, `ModuleGraph`, `CandidateSelection` |
| `MCCandidateSelection`, `MCLintLedger`, `MCLLMCall`, `MCFormalVerify`, `MCRunBudget` | these against what they are for, on small inputs | |
| `MCModuleGraph` | `ModuleGraph` against reference definitions, on all small inputs | `ModuleGraph` |
| `MCBackendExec`, `MCSystemRun`, `MCCheckpointStore`, `MCLintLoop`, `MCRepairRun`, `MCReviewLoop` | constants for TLC | |
| `BackendExec_proofs`, `SystemRun_proofs`, `Contract_proofs`, `CheckpointStore_proofs`, `LintLoop_proofs`, `RepairRun_proofs`, `ReviewLoop_proofs`, `Loops_proofs` | theorems | |

### TaskRegistry and BackendExec
A task is `<<id, n>>`, the n-th request that carries the id. `running[id]` is the
task whose `kill()` the Map holds under that id, so the replacement of an entry by
`Map.set` is visible. `Drain` names the number of tasks it shifts instead of looping.

One step is one turn of the server's event loop: between `resolve()` of an
admission and `spawn()` of its first command only microtasks run. `request` is the
handler, `child` the process of its current command, `left` the commands still to
start. A shell that has exited but whose close event is pending (`"exited"`) no
longer hears SIGTERM: the close handler then starts the next command of a bundle
that was aborted. `revoked` and `ahead` are history variables, read by properties only.

`Post` is a request, first or retried; `GiveUp` drops the connection (attempt
timeout, network, user); `Cancel` ends a call between requests; `SeeHangup` is the request's close event, which may come at
any later time or never; `Finish` is the end of the bundle and the `finally`.
The client's timeout and the server's are not compared: an attempt may be given up
at any time.

### ProjectReducer and StageRun
An artifact in a slot is a version, the versions of the contract and of the RTL it
was made from, and the `"STALE"` mark. A version stands for a snapshot of content;
equal versions are equal contents, and versions only grow. `contentHash` is the pair
of versions it is computed from. A failing stage, an invalidated dependent and a
completion are sets of stage keys.

`StageRun` composes reducer actions in the order `runStage` dispatches them. That
order is what several findings are about, so it is kept: in `JudgeDone` the verdict
is written, then the RTL mirror, then the re-verification, then the specification
that invalidates them all, then `completed` of judge.

### SystemRun
`pc[m]` is the worker of module m: `off`, `between` two stages, `invoking` a node,
`ok` or `failed`; `at[m]` is its place in `Walk`. `seen[m]` holds what the stage's
snapshot said of its parents' `childHashes`. `phase` says where `runAllPipelines` and
`runSystem` are; `ckpt` is what a resume would load. `measured` is a history
variable: the outcome of the last integration that was not skipped.

A stage is two steps, `BeginStage` and one of the `...Returns`, because the node is
awaited between them; all dispatches after the node's answer are synchronous, so they
and the save are one step. `SkipStage` is a completed stage of a walk (never of a
reflow). Integration is one step, since no worker is active during it: its fix loops
change nothing that is shared until they persist.

Decisions and what they leave out:

- Saving. The command line's storage writes a temporary file and renames it,
  synchronously, in the turn of the last dispatch. A failed save is ignored
  (`SavesMayFail`). The save that follows the decomposition is taken to succeed.
- `Crash` forgets memory: the state becomes the checkpoint's at once, so that no
  value of a dead process is kept.
- One code slot (`rtl_generate`); the testbench's (`test_generate`) is written by the same
  rules. The mirrors of lint and formal measurements, the specification-review
  transition and the fallback invalidations of `runStage` (lines 653-686, 698-709,
  723-761) are not modelled, nor are specifications without a sealed contract.
- The shared package, and a walk of a single module, for which integration does not apply.
- `judge` revises a contract or not, and re-verifies with a simulator, with the model's
  estimate or not at all.
- Semi-automatic runs and the web interface, which calls the same functions.

`DependencyWalk` is the abstract specification. Its state is a module's `waiting`,
`running`, `finished` or `failed`; it says nothing of waves or order. `SystemRun`
implements it under `state <- WalkState`, which forgets the stages.

### ModuleGraph
The pure functions whose results `SystemRun` takes as constants: Kahn's loop of `getModuleOrder`, the levels of the waves,
`computeEffectiveLevels`, `getActiveStages` over `ALL_STAGES`, the stages of a walk, of a reflow and of a repair, and
`computeStageFrontier`. A loop is a fold of its round over as many elements as it can take rounds. A round of Kahn's loop is
`Popped` with the parents it frees, in the order of the edges (`Ordered`); `IsRound` says what it may do if that order is left open, which is what the
proof is about. The assumptions of
`MCModuleGraph`, which TLC evaluates in the `system_*` runs, compare each with what it is for, on all graphs of four modules, all lists of
three instances (with duplicates, self-instances and unregistered modules) and all 64 configurations: an order is topological, and short
exactly on a cycle (`OrdersEverySystem`), and each of its rounds is one that the proof speaks of (`RoundsAreRounds`); levels are longest paths (`LevelsAreLongestPaths`); each configuration's walk meets `WalkIsThePipeline`; a reflow is the walk from
`rtl_generate` on. `MCSystemRun` checks its orders and levels against them.

The reflow planner is here too: `planReflow` and `planStageReflow` label the stages of a tail `triage`, `always`, `downstream` or
`skipped`. The smart mode's skip, which the planner's header presents as its point, can only happen in the chain that verify
starts at `test_generate` (`OnlyTestbenchChainsSkip`): in every other chain the first stage is the trigger, and all that follows it runs. A skipped
stage is passing (`SkippedStagesPass`), but it may come after one that runs again (`SkippedAfterRerun`), which the header rules out.

### CandidateSelection
The functions the loops choose with, on records that keep what they compare: of a lint, whether it compiles and its counts; of a
measurement, checker, status and results by name; of a finding, code, text and severity; of a test, its requirement and number. What
regular expressions decide is given with the data: which pairs of texts are alike (`matchDiagnostic`), which requirement a marker belongs to,
which name stands for a failed compilation. `runBestOfN` is a fold of its loop over the draws. `MCCandidateSelection` states, of all small
inputs: the winner is the cleanest draw and the earliest of equals; an adopted RTL has the same named checks, keeps every pass and adds one; accepted tests
resolve at least what they break and drop; renumbering is no change; only a flawless system scores 100; PASS needs four fifths of the system's
tests; no improvement of a component costs points or the verdict. All are proved of all inputs too (`Loops_proofs`). Two more say what does *not* hold: see section 4.
`IsRanking` says what the code may rely on of `list.sort`: the same candidates in an order that the comparator allows; `SortSeq` gives one, and the
proof is of all of them. `TakeMatch` is the step of the pairing, `LedgerOf` and `DecisionOn` what is made of its result.

`LintLoop` uses any ledger its counts allow, where the code pairs findings greedily. `MCLintLedger` shows that this is an
abstraction: on all pairs of lists of up to two findings (the bound of the run), the greedy pairing's ledger is one of `Ledgers` and `classifyDiagnostics`
decides the same on it (`LedgersAreTheClassifiers`); `CountsAreTheClassifiers` proves it of any findings.

### LLMCall
The four loops share one state, and each answer of the provider is one step of it (`Asked`): the loops are what an
answer resets. `Returned` is `callLLMJson`'s loop, `Escalated` a rung of `callLLM`'s ladder, `try` a retry in transit, `bare` the repetition of a
request whose schema was rejected. The cap is a number, each answer with text costs a token. `MCLLMCall` explores all answers to
every call with limits of at most two: it ends within twice the product of its limits, caps grow only up to the ceiling, and tokens are
ledgered if the model has the last word. Left out: replay hooks and the bridge (a fixture in place of a request), abort and deadline (both end the
call), the streaming of an answer, the probe for a local server (one more delay), seeds and prompts.

### FormalRunner and FormalVerify
A job is a record and each event of Node's loop an operator on it; `Due` are the events that will come, `Possible` those that
may. Of the solver's output the DONE markers and the exit code are kept. `MCFormalVerify` explores every order of a job's start
or failure to start, output, exit, abort, timeout, hard kill and close: a job that has not resolved has an event to come, one
that has leaves no timer, listener or process behind, a stopped one is a TIMEOUT, and a PASS has its marker and exit code (`EveryJobResolves`). A
unit test would have to provoke each order with real processes.

`FormalVerify` names a text by the number of candidates adopted before it and remembers which were refuted. Explored over all
answers of jobs and all ends of a repair (a solver does not pass what it refuted): it ends within its iterations, rejected candidates
included, forwards only a text that its last job passed, and proves only what it ships. The process of a job is taken to die of
SIGKILL, on POSIX. Left out: the search for the counterexample in the trace, the syntax check before a job, Windows.

### RunBudget
What was spent and what the ledger says of it are two numbers. A stage reads the ledger once, gates on it, and adds what its node
calls `_llm`; the calls between two gates of a loop are one event. `MCRunBudget` explores every order of the events of one and of two
workers. A stage stops at the gate after it crossed the ceiling; in a project whose stages make one call each, the ceiling is exceeded by
less than a call for each worker (`EveryStageStops`, `CeilingHoldsOfSingleCalls`). That is all it bounds: see section 4. Costs in dollars follow the same path; time and the number of calls
are per stage (`LLMCall`).

### Loops
Nine machines with a variable each, built from the operators of the modules they extend: an answer of the provider to `call`; an event of `job`; a job,
a repair or the attempt of a proof of `stage`; an event of a worker of `project`, for any set of workers, ceiling and kind of stage;
a round of `kahn`, of `depth` and of `search`; a draw of `draws`; a finding of the baseline in `pairing`. They do not run together. Where TLC explores an operator up to a bound by a fold (the `MC...` modules),
`Loops` has the same steps without one. `KahnSpec` leaves the order of the freed parents open, of which the code's is one. `SearchSpec`
does so with the instances of the module it visits, and queues one as often as it likes (`IsVisit`); a module without a level, 999 in the code, is outside
the domain of `found`, which takes a system of fewer than 999 levels.

### CheckpointStore
A checkpoint is two keys of the storage, the payload of its project and one index of
all projects, written by awaited calls one after the other. A payload is named by the time
it was serialized at, which is also the timestamp of its index entry; the index is kept
sorted newest-first, so the timestamps determine it. `call[p]` is the manager call of p's process:
`WritePayload`, `ReadIndex`, `Prune` (one round of the capacity loop), `WriteIndex`;
`RemovePayload` begins a removal. `Setting` tells the three environments apart: one terminal
process, several on one directory (no lock, so calls interleave), a browser tab, where a
quota error purges every key of the application and retries. `Crash` may come between two calls.
`SystemRun`'s `ckpt` is the payload alone, which is what its resume loads by name.

Left out: the cloud storage, `listIndex`'s filter of entries without a payload, `clear`,
equal timestamps of two saves, what a payload contains. A crash leaves the old timestamp with
the new payload, and a save may be acknowledged although the quota purge at the index write
removed its payload: the properties are stated of acknowledged saves in a terminal.

### LintLoop
Code is an identity and what the linter says of it, by sort of finding; the linter answers the
same of the same code, a model's estimate anything. `cfg` is the node and its mode: strict
(a backend failure ends the stage), lenient (falls back to the estimate), none. The actions are the
steps of an iteration: `Converge`, `Diverge`, `AskForFix` and, for the testbench, `RtlErrorsOnly` are
the ends of the measurement; `Fix` or `Fruitless` the candidate; `Recheck` or `Unchecked` its verdict;
`Ship` is everything after the loop. `fewest` is a history variable.

How the findings of two measurements pair up (fuzzy matching of lines and messages) is any ledger the
counts allow (`Ledgers`); `classifyDiagnostics` is exact on the ledger. The budget gate may stop any
iteration. Left out: enrichment by the second parser, patch mode, the escalation of the model, near-repeat
detection (each only changes which candidate comes), severities in an estimate, the error memory and
the annotations on the result. A fix by re-running the generating stage and an inline one are both "a candidate".

### Measurement and RepairRun
A pair of RTL and testbench is two model values; `sim` is what the simulator says of each pair once it was run and
`clean` what the linter says of each RTL: both tools answer the same of the same code. An outcome is the number of tests
that pass and fail, the blocking errors of a pair that does not compile (reported as one failing test) and whether the
run is evidence at all. Without a backend, or when a lenient one fails, a model's estimate answers anything. `Mode` tells
strict, lenient and none apart.

`code`, `verify` and `lint` are what is held: the project's slots between stages, the walk's during a walk. `loop` is verify's
loop while it runs; `frames` is the stack of judges, because a chain of judge ends with a judge of its own, with the code,
slots and iteration of its own; `todo` is what is left of the walk. `VerifySlotOf`, `Carried` and `Unverified` are the stamps that
`measurement.js` and `stageAcceptance.js` put on a result.

`Measure` is an iteration of verify up to its decision, `Repair` its triage, `Adopt` its return from the walk, `Ship` what follows
the loop. `Grade`, `Triage`, `Walked` and `Settle` are the same for judge. Entries of a walk are `RtlEntry`, `TestEntry`,
`LintEntry`, `VerifyEntry` and `JudgeEntry`; `EntryLost` is an entry that the budget leaves out or that fails, after which the walk goes
on. `Verdicts` is the replacement guard: a stage that changed the RTL may have its result rejected. `Throw` is a
stage that fails.

Left out: specification conflicts and `spec` as a target of triage, formal, the reviews, `lint_test` in a chain, the identity of the
checker and source-contract evidence, mutation and boundary probes, coverage, the paths without `invokeNode`, the
strict reflow mode, requirements one by one (each test covers one of its own), criteria other than the three enabled by default, `strictJudgeCli`,
user abort. A stage invoked by a walk measures once, which is the default of `nestedLintIters` and `nestedVerifyIters`
(`term/config.js:230`). Lenient mode is in the model but not in the run's `Modes`: it was checked apart with one walk (241 420
states), because its estimates multiply the states of the other two.

### ReviewLoop
Code is an identity and what is measured of it: the linter's errors and bug-hiding warnings, the checks of the frozen acceptance
suite it passes, whether a testbench has checks that compare nothing. A review is what the loop reads of it (verdict, score, number of
findings by weight, conflict) and the identity of the code it was given for. `cfg` is the node and what it runs with: services for a chain, a linter that
answers, may fail or is missing, the review an earlier run left in the slot.

`Begin` is the head of an iteration up to the walk or the request for a fix; the `Walk...` actions are the ends of a walk, the `Fix...` actions those of an
inline fix, `Reask` the second request after an empty module, `Rereview` the review after an inline fix, `Finish` what follows
the loop. A walk is one step: the nested review has a loop limit of 0 (`rtl_review.js:46`), so the chain is one regeneration, one review and one pass of the
gate. `Verdicts` is what the owner finds in the slot: the nested review, or what was there before if that entry failed or the budget
left it out. `asked` and `lost` are history variables.

Both nodes are one module because they differ only where an action says so: RTL has empty modules, proposals and the acceptance suite, testbenches lost
infrastructure and the static analysis of checks. Left out: prompts and skills, the ledger of iterations and fixes, the cache of
measurements, the text a rejection is told to the model with. A verdict other than `NEEDS_FIX` is a PASS, as the loop and the
gate treat it. Which rejections count as equal (candidate, reason and diagnostics) is any after the first.

## 3. Runs

All but those of `LintLoop` and `ReviewLoop` have `CHECK_DEADLOCK FALSE`: a backend without requests, a finished run, an
idle store and a run that used up its walks stop.

| run | instance | states | what it shows |
|---|---|---|---|
| `backend` | 2 calls of 2 attempts, 1 slot, bundles of one and two commands | 30 985 | `SlotsBounded`, `FifoAdmission`, `WorkConserving`, `NoStrandedSlot`, `EveryRequestAnswered`, `TypeOK` |
| `backend_retry_bound` | 2 calls of 2 attempts, 1 slot | | `ConcurrencyBounded` is violated |
| `system_walk` | 2 leaves and a top, sequential, six stages, saves may fail, 2 processes | 417 581 | `ChildHashesCurrent`, `FreshExitZero`, `CompletedFollowsContract`, `DoneMeansWalked`, `TypeOK` |
| `system_waves` | diamond of 5 modules, waves, one imported | 23 257 | `NoRelatedWorkers`, `WalksInOrder`, `RunEnds` |
| `checkpoint_store` | 3 projects (symmetric), capacity 2, all settings, 5 payloads | 95 499 | `RecentCheckpointsKept`, `NothingLostBelowCapacity`, `NewestListedLoads`, `TypeOK` |
| `lint_loop` | both nodes, all modes, 4 iterations, 2 findings | 1 464 144 | `NeverMoreErrors`, `ShipsBestKnown`, `ReportDescribesShipped`, `ReportCountIsTrue`, `LintStatusIsHonest`, `TypeOK` |
| `repair_run` | 2 RTL, 2 testbenches (symmetric), strict and none, 3 iterations of each loop, 2 walks | 1 590 062 | `SlotsAreHonest`, `PassIsEarned`, `VerifyNeverWorsens`, `NeverFewerThanGiven`, `TypeOK` |
| `review_loop` | both nodes, chain and inline, 4 repairs, 2 checks, 6 opinions | 877 029 | `RepairsArePaid`, `ReviewDescribesCode`, `PassIsEarned`, `NeverLintsWorse`, `NeverLosesAPass`, `TypeOK` |
| `system_waves_hashes` | 2 leaves and a top, waves | | `ChildHashesSettled` is violated |
| `system_exit_zero` | a leaf and a top, one resume | | `ExitZeroMeansIntegrated` is violated |
| `lint_test_status` | as `lint_loop` | | `StatusIsHonest` is violated |
| `repair_lint` | as `repair_run`, strict | | `PassMeansLintClean` is violated |

Bounds, and why they are enough:

- `Attempts` 2: a second request under one id is where ids collide; `runCli`'s default is one retry.
- 2 calls on 1 slot, each with a retry: up to four requests, so one executes while the queue holds two in an order, and a retry
  may meet its first attempt parked, executing or finished. One bundle has two commands: a
  boundary between commands, where an abort can be lost.
- `MaxVersion` 2: a contract or RTL is revised once; every comparison in the code is equal or not.
  It is a bound per module: in `system_walk` a leaf is revised, the other and the top are not (two revised modules exceed
  the time of a run). `MaxVersion` 1 in `system_waves` leaves the data constant: its properties are about control.
- `MaxRuns` 2: one crash or end, and one resume. `MaxReflows` 1: a reflow and the integration after it
  (the default is 2; a second one starts from the same states).
- The walk has `spec`, `rtl_generate`, `verify` and `judge`: one stage of each kind `runStage`
  distinguishes (`verify` stands for every checking stage). In `system_walk` it has `architect` too,
  the stage between `spec` and `rtl_generate`: a reflow starts after it, so an architecture that a revised contract
  made stale is not made again, and the project ends with it. `DoneMeansWalked` says exactly that much.
- The tree has siblings with a common parent, the pair has parent and child, and the diamond
  has a child that is reached by paths of length one and two: the case in which levels by
  the shortest path from the top would be wrong, which is the mutant of that property.
- 3 projects on a capacity of 2: the index overflows, and the oldest of it is not the only one. 5 payloads: every
  project is saved and two are saved again, which is what reorders the index.
- 4 lint iterations: three fixes, one more than the stagnation brake and the divergence brake need. 2 findings:
  one may be exchanged for another, and a syntax error for two warnings.

- 4 repairs are the default of both reviews, and every way to spend them (fix, chain, re-ask) fits several times. Two acceptance
  checks: a candidate may trade one for the other. The opinions have no score, one that rises, falls with fewer findings and falls with
  as many, so that a regression, its opposite and each doubt occur.
- 2 RTL and 2 testbenches: four pairs, so that a walk may leave, come back, or change one side only. Five outcomes: one that does
  not compile, two failing ones that the score and the number of passing tests rank differently, a green one and a run that is no
  evidence. 3 iterations are the default of both loops; 2 walks: verify and judge repair once each, or one of
  them twice, or a judge invoked by a judge.

Each property of a passing run has a mutant in `PROJECT.json`, a plausible bug in a mapped
definition (they stand beside the definitions they change) that TLC finds with it.

## 4. What the violated properties say

- **More bundles than slots** (`backend_retry_bound`, `backend.js:164`). A retry reuses its
  task id. The first attempt's handler still executes when the retry is admitted under the
  same entry; when it finishes it completes the id, and the retry goes on without a slot.
  `SlotsBounded` and `NoStrandedSlot` hold all the same: the Map is consistent, it does not
  count what runs.
- **Lost hash of a sibling** (`system_waves_hashes`, `runStage.js:874`). The parent's map is rebuilt from
  a snapshot older than the sibling's publication. Sequentially this cannot happen: `ChildHashesCurrent`
  holds in `system_walk`.
- **Exit code 0 after a failed integration** (`system_exit_zero`, `runSystem.js:505`). The resumed project's
  old PASS is read, after a skipped re-entry has replaced the failure. In a first run it cannot happen: `FreshExitZero`.
- **A testbench with a syntax error reported as complete** (`lint_test_status`, `lint_test.js:656`). The best-known
  testbench is the one with the fewest findings, errors and warnings alike; it is restored while the report stays that of
  the discarded one. `lint`, which ships the restored code's own measurement, does not have the fault (`LintStatusIsHonest`).

- **PASS on RTL the linter complains about** (`repair_lint`; see the finding in `PROJECT.json`). The gate counts a lint slot without findings as
  clean, also the slot of a stage whose result was rejected, which has none because nobody linted its code.

Seen while modelling and not stated as properties: the frontier is the stage after the greatest completed id, and ids do not follow
the pipeline, so with a review enabled it is `judge` as soon as the review is done, and not "the first active stage id that has not been completed
yet" (`stageFrontier.js:17`; `FrontierIsFirstOfOrderedIds` says for which configurations it is); with 200 tests and one failure the pass rate rounds to 100
(`eval/criteria.js:402`; the theorem `PassEarned` assumes fewer tests); from a fourth iteration on verify may stop on
strikes at a pair it has not measured, with the numbers of an earlier one (`verify.js:1347`; the theorems assume at most three,
the default). What the assumptions of `MCCandidateSelection`, `MCLLMCall`, `MCFormalVerify`, `MCRunBudget` and `MCLintLedger` add:

- a linter that throws on a later draw of best-of-n loses the baseline too, although "selection can never do worse than
  best-of-1" (`bestOfN.js:47`; `LaterDrawsCanCostTheBaseline`);
- passing requirements whose evidence becomes UNSUPPORTED read as `ACCEPT_EQUIVALENT` (`LostEvidenceIsEquivalent`);
- the pairing of findings is greedy, and the decision may depend on the order the linter prints them in (`PairingDependsOnOrder`);
- when a later request throws or is refused by the budget, the tokens of the answers before it reach no ledger
  (`SpendIsLostWithTheCall`), although "the ledger and the run-budget guard must see real spend";
- a request repeated without its schema is not reserved (`RepetitionsAreNotReserved`; the theorem `CallsAreBounded` proves that it is the only one), although `beforeCall` reserves "one actual
  provider request, including retries" (`budget.js:184`);
- a sequence of review fixes none of which is a regression can be one (`RegressionIsNotTransitive` in `MCReviewLoop`): `reviewFixRegressed` compares
  with the review before it only;
- the token ceiling is not one "across the whole project" (`budget.js:35`), nor does the ledger record the spend faithfully (`budget.js:11`): a stage
  appends `_llm`, the last call of its node, however many its loops made, and nothing when the node throws (`runStage.js:775`, 448-481); integration
  has no gate; the train command's loop has no ledger (`CeilingIsNotOfTheProject`, `IntegrationIsNotGated`);
- a refuted design may be reported as TIMEOUT: a solver that runs out of time after a rejected or an adopted repair overwrites
  the status, and `formalEvidenceOf` (`fixLoopHelpers.js:1285`), which later fixers ask, wants a FAIL (`RefutedShipsUnsaid`); and
  the property quoted with a FAIL may be one that only a discarded candidate violates (`EvidenceOfDiscarded`);
- read, not modelled: a recovery of a local server consumes a try of the ladder (`callLLM.js:460`, the loop's counter), against the comment at 329; a budget
  message whose numbers contain 500 matches the pattern of retryable errors and is retried; `next <= currentMax` (`callLLM.js:297`) cannot happen after the test at 241.

In a review that judge or verify invokes, a walk whose review entry failed or did not fit the budget leaves the slot as it was, and the owner takes what it finds
there for the verdict of the code it has just adopted, a PASS of an earlier run included (`rtl_review.js:391`; with an empty slot the old review
stays beside the new code). `ReviewDescribesCode` and `PassIsEarned` except exactly that, by `lost`; nothing in the repository says what should happen then.
The re-ask's verdict in a chain skips the regression check (`rtl_review.js:345`). `attemptedChain && !repairs.take()` (444) cannot be reached: a
chain that was attempted never falls through to the inline fix.

## 5. Fairness

`BackendExec`: weak fairness of `NextCommand` and `Finish`, per task. Each command has a
timeout in `executeLocal` after which its group is killed, and Node delivers close
events. Nothing is assumed of clients, aborts, or the close event of a request.

`SystemRun`: weak fairness of `Progress`, the disjunction of all steps of the running process:
a node call ends (requests have timeouts, tools are killed), and then something happens. Crashes
and resumes are not assumed.

## 6. Proofs

Checked with TLAPS, for every value of the constants under their named assumptions.

**BackendExec_proofs.** `TypeCorrect`; `SlotBound`; `QueueWaitsForFullSlots`;
`SlotsHaveOwners`; `FirstComeFirstServed`. Assumptions: ids are finite in number, at least one slot, bundles not empty.
The lemmas are about `Drain`: what it leaves in `running` comes from the old entries or from the
part of the queue it took, and it stops only for a full registry or an empty queue. `SlotsHaveOwners` needs
an invariant stronger than the property: tasks in the queue are distinct, a request is parked
exactly when it is in the queue, entries are executing, and a request not yet posted is nowhere. With
it, the release by a first attempt of its successor's slot is allowed (the entry goes), and what cannot happen
is an entry that no `finally` will ever remove. `FirstComeFirstServed` proves `FifoAdmission` from `Fifo`: what a parked
task has ahead of it is what stands before it in the queue, which an abort in the middle (`FifoDrop`) and a drain from
the head (`FifoDrain`) both preserve. `BoundedWithoutRetries` proves `ConcurrencyBounded`, which a run shows violated, under the assumption `Attempts = 1`: an executing
request is then the one its entry stands for, so there are no more of them than entries. The retry is what the overrun needs.

**SystemRun_proofs.** The types of the reducer's and the stage's operators, then `TypeCorrect`. `ControlInvariant` is the inductive invariant of the walk: in
phase `walk`, workers of earlier waves are `ok`, of the current wave anything, of later ones `off`; outside
`walk` and `reflow` nobody is active; in a reflow, only the target. From it follow `NoRelatedWorkersAtOnce` (two
active workers are in one wave, so at one level, and a descendant's level is smaller) and
`WalkImplementsDependencyOrder`: each step of `SystemRun` is a step of `DependencyWalk` or leaves `WalkState`
alone. Assumptions: `Order` lists each module once, children first; levels grow with instantiation; the walk is
over known stages (`OrderIsTopological`, `LevelsFollowInst`, `WalkIsThePipeline`). That
the code delivers the first two is proved of the loops that compute them (`OrderIsMade`, `LevelsAreMade` below); the third is a finite fact that
`MCModuleGraph` evaluates for every configuration.
`SequentialWalkKeepsRecords` proves `ChildHashesCurrent` under two assumptions, that the walk is sequential (`~Parallel`) and that no imported
module has a parent: an imported child comes with a hash no parent has recorded, and in waves two children overwrite each other's
record (`system_waves_hashes` shows it). `HashInv` adds to the property, of memory and of the checkpoint, that the records a worker read
of its parents are still theirs while it waits for its node, which holds because only one worker is active (`OneActive`).

**Contract_proofs.** `ContractIsFollowed` proves `CompletedFollowsContract`. The property is not inductive: a stage
is completed without a look at the contract, and a crash brings back an older state. `DataInv` adds what carries
it: in every module, in memory and in the checkpoint, each completed stage has content, and a completed
derived stage has a contract to follow (`Backed`); imported modules have one; and so has every module
whose worker is past its first stage. The last part needs that the walk begins with `spec` and, for a
reflow, which starts at `rtl_generate`, that all workers are `ok` then (`ControlInvariant`). Under it is one lemma
per answer of a node: `BackedSpec` and `BackedJudge` split on whether the contract changes. If it does,
`Invalidated` shows that at most `elicit` and `spec` stay completed, which is also why the stages
judge sets between its verdict and the new specification do no harm. Each step needs that a slot
that counts as completed is present, since `invalidateContractDependents` passes over empty ones.

The same module proves `DoneIsWalked` (`DoneMeansWalked`) and `FirstRunShipsWhatWasJudged` (`FreshExitZero`), both for a finite set of stages
(an imported module is skipped by a count of its completed stages). `WalkInv` says where a worker is, what it has passed has run
(`Ran`), and that a settled module is `Done`: each stage has an artifact, and one that is no longer completed is stale or the verdict is.
`JudgeIsDone` is its core, the only answer that may take completions away from a module about to be `ok`: either the contract
stays, and so do the completions, or it changes, and every artifact that is present, the verdict just given included, is marked
(`RevisedSlots`). A reflow starts from a module that is `Done` and stays so at every stage, since it can also stop half way and close.
`FreshInv` holds in a first process only: no judge is completed before it ran, so `SkipStage` never passes a verdict it did not give;
a worker that is `ok` left a verdict that fits its RTL and contract or is stale (`JudgeFitsWhatItLeaves`); and a `PASS` of integration,
given when no verdict is stale, is followed by nothing but the exit. The top is left out because integration repairs it (`Repaired`).

**CheckpointStore_proofs.** `TypeCorrect`, `CapacityIsRespected`, `RecentAreKept`, `NewestLoads`; assumptions: finitely many
projects, a capacity of at least one. `RecentAreKept` counts: a project is pruned by a call that holds more than `Max` entries,
all newer than the pruned one, so `Max` others have been saved since. The invariant that carries it (`IInv`) says which
times the index and each call's copy of it may hold (`TimesInv`, `ListedWasSaved`), that in a single-process setting at
most one call is active (`AloneInv`), what a crash in the middle leaves behind (`PhantomsInv`: an entry without a payload is older
than `Max` saves), and that each acknowledged payload is there or so long ago (`Kept`).

**LintLoop_proofs.** `TypeCorrect`, `ErrorsNeverRise`, `BestKnownShips`, `ReportDescribes`, `ReportCounts`, `LintIsHonest`, for every number of
iterations and findings and whatever the linter answers. `StrictInv` is the heart: with a strict backend the code held has at most
the errors of the baseline, `best` is at most every code held before the last adoption, and the last result counts
the code it is of. `ErrorsNeverRise` rests on `classifyDiagnostics` rejecting whatever has more errors than
the baseline, against which every candidate is compared, not only the first.

**RepairRun_proofs.** `TypeCorrect`, `SlotsHonest`, `PassEarned`, `VerifyNoWorse`, `NeverFewer`, for any versions, outcomes, limits and
modes. `TypeInv` adds to the types which loop a phase belongs to (`PhaseInv`) and that evidence has tests (`CountInv`): without it a
rate would divide by zero. `SoundInv` is honesty, of everything held at once: the slots, the best of verify, what each judge on the stack was
given and its best. It is an invariant because the simulator never takes an answer back (`Grows`), and because what verify ships it has just
measured: `LoopInv` shows that with at most three iterations (`MaxVerifyIters <= 3`, an assumption of the theorems) the strikes cannot
end the loop right after a walk. `PassEarned` also assumes fewer than 200 tests (`FullRate` is where it is needed). `VerifyNoWorse` rests on
`WorseOrder`: compiling first, then blocking errors, then the score is a weak order. `NeverFewer` rests on `BankInv`, which holds for any
number of iterations: the champion only gets better (`BankedKeeps`), every judge of the stack and its best carry one at least as good
as that of the stage's first judge, and that one was measured on the code the stage was given, which is what a rejected repair
leaves.

**ReviewLoop_proofs.** `TypeCorrect`, `AllRepairsArePaid`, `ReviewsDescribeCode`, `PassesAreEarned`, `LintNeverWorsens`, `PassesAreKept`, for any limit, suite,
opinions and candidates; assumed of the data is only its type, and that RTL is not hollow. Two invariants, each of one idea. `CodeInv`: the code held
and the code from before the iteration are both `Held`, no worse than the given code by lint and, for RTL, by its checks, because a
candidate is compared with the code held, and a regression goes back to a code that was held. `ReviewInv`: the review that stands was given to the code it stands beside
(`before` while an inline fix awaits its review), and a testbench that is hollow has none that says PASS. One lemma per action.

**Loops_proofs.** One section a machine, and one for each of three choices of `CandidateSelection`. Below, `found`, `pool` and the like are fields of
the machine's variable.

- `CallsAreBounded`, `CallsGoOnBySending`, `LedgerSeesSpend`, for any limits. `Turns` writes the three nested counters as one number in mixed radix;
  it grows with every reservation and stays below the product of the limits (`RequestsCounted`), and a call that goes on has sent a request. Together
  they say that a call ends, without fairness: it cannot go on more often than it may send.
- `JobsResolve`, `JobsResolveOnce`, for any order of the events of a solver's process. `JobInv` is typing and what the process, the timers and the listeners say of each
  other (`ChildFollows`): a stopped job keeps a timer until the hard kill has come, so there is always an event to wait for (`JobHasAnEvent`).
- `FormalRunsHold`, for any number of repairs. `StageInv` counts repairs and jobs against iterations and says that a PASS is of the text that is held.
- `StagesAlwaysStop` and `CeilingIsHeld`, for any finite set of workers, ceiling and distance between gates. Sums over workers are sizes of sets
  (`Tokens`), because a recursive sum is beyond the prover; `SumParts` is all the proofs need of them. What is inductive is not the spend but
  `Held`: the ledger, and for each worker in a stage its own tokens or, before its first call, those of one call. A stage starts only when the ledger is below the ceiling,
  and then every worker holds at most a call. `StepsAreMoves` reduces the nested updates of the five events to five moves of one worker.
  `CeilingIsHeld` assumes `Single`: one call a stage, no failure, no integration. Without it the claim is false, see section 4.
- `OrderIsMade`, for every finite graph, cyclic or not. `KahnInv`: the count of a module is that of its children not yet ordered, the queue is exactly the modules
  with none that are not ordered themselves, nothing is ordered or queued twice. When the queue is empty, the rest is a set in which each module uses
  another of it (`KahnEnds`), so it is empty unless there is a cycle.
- `LevelsAreMade`, for every order with children first. Levels already given do not change, and a given level is one above its highest child's; that some
  module has the highest level needs a least element of a set of numbers (`LeastNat`, as does the end of Kahn's loop).
- `OnlyTheFlawlessIsHundred`, `PassTakesTheSystemTests`, `ImprovementsCostNothing`, for every `Integration`. The earned points without the package
  are a number of 0 to 95; the package adds five to it and, unless one is imported, to the denominator. A share below 100 per cent grows with it,
  which is why a package that is not needed costs nothing.
- `AcceptedGoesForward`, `RenumberingChangesNothing`, for any finite suites. The weights 3, 5 and 3 of the score against the sizes of the ledger's parts
  (`AcceptedWeighs`).
- `AdoptionProgresses`, for all results of a `TestRun`. The code compares numbers of passes; that a larger number is a larger set of named checks
  rests on the aligned universe: each name is one result (`OnePassAName`).
- `SearchFindsShortestWays`, `FirstLevelsStay`, for any modules and instances, cycles, duplicates and self-instances included. `SearchInv` has three parts:
  a module has a level exactly if it was visited or is queued (`Searching`); what is pending is on at most two adjacent levels, the higher one first, and no
  visited module is below it (`InLevels`); there is a way to each module as long as its level, and what a visited one instantiates is at most one deeper (`Leveled`).
  From `InLevels` it follows that a first level is the least, which is `FirstLevelsStay`, and that the code's minimum never lowers anything;
  with an empty queue, that no way leads out of the modules found and none is shorter than the level of its end (`NoShorterWay`, by a least counterexample).
- `BestOfNShipsTheEarliestBest`, for any number of draws, budgets, failures and lints. `DrawInv` keeps the pool in the order of the draws, with the
  baseline first unless the run failed: the code's last error, for an empty pool, never comes. The comparator is a strict total order of the pool, because no
  two draws share an index; so a ranking exists (by counting what precedes each, `RankingExists`), is the only one (`RankingIsUnique`), and its first is a cleanest draw
  and the earliest of these.
- `FindingsAreAccountedFor`, `CountsAreTheClassifiers`, `AcceptedFixKeepsGround`, for any findings and any likeness of texts, symmetric or not. `PairInv`: the findings of
  the baseline that were looked at are the resolved ones and as many as were taken of the candidate's, and a resolved one matches nothing that is still
  free, which stays so because what is free only shrinks. `CountsAreTheClassifiers` closes the gap between the two models of lint:
  what is taken are pairs of equal code and different findings, so the counts of each code are within what `Ledgers` allows, and the decision reads counts only.
  `AcceptedFixKeepsGround` is the promise of the two overrides after the score tiers.

Proved of every run of these machines, these are theorems about their loops. The link from `Loops` to the folds that the `MC...` modules evaluate, and from there to the constants of `SystemRun`, is model-checked
(`RoundsAreRounds`, and `MCSystemRun`'s assumptions): that a fold is a run of its round is induction over data, which the prover cannot do.

Only model-checked: the liveness properties `EveryRequestAnswered` and `RunEnds` (temporal properties
under fairness are beyond the prover); that `SortSeq` gives an `IsRanking`, and that `runBestOfN`, `Taken` and `EffectiveLevels` are runs of the machines above
(induction over data: `MCCandidateSelection`, `MCLintLedger` and `MCModuleGraph` compare them on small inputs); the rest of `ModuleGraph`; the assumptions of `MCFormalVerify` and `MCRunBudget` that exhibit what does not hold.

## 7. Plan

1. *Done:* tool backend; project reducer, stage run, system run with checkpoints, the functions that order it; the checkpoint store; the
   lint fix loops; the repair loops of `verify` and `judge`; the review loops; the choices between versions; a call of the model; solver jobs and the formal stage; the token ceiling; the proofs above.
   Every invariant and action property of a run has its theorem, and so has every loop of `Loops`.
2. Nested iterations of two and more, specification conflicts (and the review they lead to) and the strict reflow mode in `RepairRun`.
3. Abort and deadline in `LLMCall`; the acceptance ledger.
4. Proofs: the reflow planner and `computeStageFrontier`, once they are written over a set of stages of any size.

## 8. Running it

    tlc -workers 2 -config system_waves.cfg MCSystemRun
    tlapm Contract_proofs.tla
