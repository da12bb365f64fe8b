---- MODULE SystemRun ----
\* `rtlforge run --system`: the modules of a decomposed system run through their
\* pipelines in dependency order, one at a time or in waves, then the system is
\* integrated, and a module that integration blames runs again.  The walk is
\* src/projectState/runAllPipelines.js; src/term/commands/runSystem.js wraps each
\* stage (skip what is completed, checkpoint after it) and gives the exit code;
\* src/projectState/runIntegrationPipeline.js is the integration.
EXTENDS StageRun, Sequences

CONSTANTS Walk,        \* the stages of a walk, in order (all active ones but elicit)
          Order,       \* the modules, children before parents
          Level,       \* the level of a module: its longest path from the leaves
          Parallel,    \* config.parallelModules
          Imported,    \* modules imported complete
          Top,         \* the top module of the decomposition
          MaxReflows,  \* config.maxIntegrationIters
          NoModule,
          SavesMayFail, \* bound: whether a checkpoint may fail to be written
          MaxVersion,  \* bound: contract and code versions of each module
          MaxRuns      \* bound: processes that work on the project

\* getModuleOrder: every module once, children before parents.
ASSUME OrderIsTopological ==
  /\ Order \in Seq(Module)
  /\ \A m \in Module : \E i \in DOMAIN Order : Order[i] = m
  /\ \A i, j \in DOMAIN Order : Order[i] = Order[j] => i = j
  /\ \A i, j \in DOMAIN Order : <<Order[i], Order[j]>> \in Inst => i > j

\* A module is above every module it instantiates, and one is above all.
ASSUME LevelsFollowInst ==
  /\ Level \in [Module -> Nat]
  /\ \A e \in Inst : Level[e[1]] > Level[e[2]]
  /\ \E h \in Module : \A m \in Module : Level[m] <= Level[h]

\* getActiveStages: each stage once, spec first, rtl_generate before verify, judge last.
ASSUME WalkIsThePipeline ==
  /\ Walk \in Seq(Stage \ {"elicit"})
  /\ \A i, j \in DOMAIN Walk : Walk[i] = Walk[j] => i = j
  /\ Walk[1] = "spec" /\ Walk[Len(Walk)] = "judge"
  /\ \E i, j \in DOMAIN Walk : Walk[i] = "rtl_generate" /\ Walk[j] = "verify" /\ i < j

ASSUME ModesAndModules ==
  /\ Parallel \in BOOLEAN /\ SavesMayFail \in BOOLEAN
  /\ Imported \subseteq Module /\ Top \in Module /\ NoModule \notin Module

ASSUME Bounds == MaxReflows \in Nat /\ MaxVersion \in [Module -> Nat] /\ MaxRuns \in Nat \ {0}

VARIABLES mods,       \* the module states of the project
          intJudge,   \* the verdict in the int_judge slot
          ckpt,       \* what a resume would load
          phase, wave,
          pc,         \* the worker (runOneModule) of each module
          at,         \* the place in Walk of a worker's stage
          seen,       \* the parents' childHashes in the worker's snapshot
          reflows, target,
          lastHashes, \* the content hashes of the last integration
          intResult,  \* what the last runIntegration returned
          measured,   \* the outcome of the last integration not skipped (history)
          exit, runs

project == <<mods, intJudge>>
walk == <<phase, wave, pc, at, seen>>
integration == <<reflows, target, lastHashes, intResult, measured>>
vars == <<project, ckpt, walk, integration, exit, runs>>

----
\* The waves: levels from the leaves up, or single modules in order.
MaxLevel == CHOOSE l \in {Level[m] : m \in Module} : \A m \in Module : Level[m] <= l
Waves == IF Parallel THEN 1 + MaxLevel ELSE Len(Order)

\* Mutant of InWave: layered by the shortest path from the top.
InWaveFromTop(w) ==
  IF Parallel
  THEN {m \in Module : w = IF m = Top THEN Waves
                           ELSE IF m \in Children(Top) THEN Waves - 1 ELSE Waves - 2}
  ELSE {Order[w]}

InWave(w) == IF Parallel THEN {m \in Module : Level[m] = w - 1} ELSE {Order[w]}

RtlPlace == CHOOSE i \in DOMAIN Walk : Walk[i] = "rtl_generate"
StageOf(m) == Walk[at[m]]

Active(m) == pc[m] \in {"between", "invoking"}
Settled(m) == pc[m] \in {"ok", "failed"}

NoSnapshot == [n \in Module |-> [c \in Module |-> NoHash]]

seededModule(m) ==
  IF m \in Imported
  THEN [blankModule EXCEPT !.slot = [s \in Stage |-> Made(1, 1, 1)],
                           !.completed = Stage, !.contentHash = <<1, 1>>]
  ELSE blankModule

Init ==
  /\ mods = [m \in Module |-> seededModule(m)]
  /\ intJudge = "none"
  /\ ckpt = project
  /\ phase = "walk" /\ wave = 1
  /\ pc = [m \in Module |-> "off"]
  /\ at = [m \in Module |-> 1]
  /\ seen = [m \in Module |-> NoSnapshot]
  /\ reflows = 0 /\ target = NoModule
  /\ lastHashes = <<>> /\ intResult = "none" /\ measured = "none"
  /\ exit = "running" /\ runs = 1

\* store.saveCheckpoint(): serialized and written in one turn; failure is ignored.
Save == ckpt' = project' \/ (SavesMayFail /\ UNCHANGED ckpt)

----
\* The head of runOneModule: skip, blocked by a child, or into the stage loop.
ImportedAndComplete(m) ==
  m \in Imported /\ Cardinality(mods[m].completed) >= 1 + Len(Walk)

ChildrenSpecified(m) == \A c \in Children(m) : "spec" \in mods[c].completed

Entered(m) == IF ImportedAndComplete(m) THEN "ok"
              ELSE IF ChildrenSpecified(m) THEN "between" ELSE "failed"

LaunchWave ==
  /\ phase = "walk"
  /\ wave <= Waves
  /\ \A m \in InWave(wave) : pc[m] = "off"
  /\ pc' = [m \in Module |-> IF m \in InWave(wave) THEN Entered(m) ELSE pc[m]]
  /\ UNCHANGED <<project, ckpt, phase, wave, at, seen, integration, exit, runs>>

\* Mutant of WaveSettles: the walk goes on as soon as one worker of the wave settles.
WaveSettlesOnFirst ==
  /\ phase = "walk"
  /\ wave <= Waves
  /\ \E m \in InWave(wave) : Settled(m)
  /\ UNCHANGED <<project, pc, at, seen, integration, runs, ckpt, exit>>
  /\ wave' = wave + 1
  /\ phase' = IF wave = Waves THEN "integrate" ELSE "walk"

\* Mutant of WaveSettles: the walk goes on when a worker of the wave failed.
WaveSettlesAnyway ==
  /\ phase = "walk"
  /\ wave <= Waves
  /\ \A m \in InWave(wave) : Settled(m)
  /\ UNCHANGED <<project, pc, at, seen, integration, runs, ckpt, exit>>
  /\ wave' = wave + 1
  /\ phase' = IF wave = Waves THEN "integrate" ELSE "walk"

\* Promise.all: every worker of the wave settles, then the walk goes on or halts.
WaveSettles ==
  /\ phase = "walk"
  /\ wave <= Waves
  /\ \A m \in InWave(wave) : Settled(m)
  /\ UNCHANGED <<project, pc, at, seen, integration, runs>>
  /\ \/ /\ \A m \in InWave(wave) : pc[m] = "ok"
        /\ wave' = wave + 1
        /\ phase' = IF wave = Waves THEN "integrate" ELSE "walk"
        /\ UNCHANGED <<ckpt, exit>>
     \/ /\ \E m \in InWave(wave) : pc[m] = "failed"
        /\ phase' = "halted"
        /\ exit' = "1"
        /\ Save
        /\ UNCHANGED wave

----
\* The stage loop of runOneModule.
\* Mutant of AfterStage: the loop goes one place too far.
AfterStageTooFar(m) ==
  IF at[m] > Len(Walk)
  THEN pc' = [pc EXCEPT ![m] = "ok"] /\ UNCHANGED at
  ELSE pc' = [pc EXCEPT ![m] = "between"] /\ at' = [at EXCEPT ![m] = @ + 1]

AfterStage(m) ==
  IF at[m] = Len(Walk)
  THEN pc' = [pc EXCEPT ![m] = "ok"] /\ UNCHANGED at
  ELSE pc' = [pc EXCEPT ![m] = "between"] /\ at' = [at EXCEPT ![m] = @ + 1]

Skippable(m) == phase = "walk" /\ StageOf(m) \in mods[m].completed

\* A completed stage is not run again by a walk; a reflow always runs it.
SkipStage(m) ==
  /\ pc[m] = "between"
  /\ Skippable(m)
  /\ AfterStage(m)
  /\ UNCHANGED <<project, ckpt, phase, wave, seen, integration, exit, runs>>

\* Over budget: the error is recorded, the stage is not started.
BudgetStops(m) ==
  /\ pc[m] = "between"
  /\ ~ Skippable(m)
  /\ mods' = [mods EXCEPT ![m] = StageErrorSet(@, StageOf(m))]
  /\ pc' = [pc EXCEPT ![m] = "failed"]
  /\ UNCHANGED intJudge
  /\ Save
  /\ UNCHANGED <<phase, wave, at, seen, integration, exit, runs>>

BeginStage(m) ==
  /\ pc[m] = "between"
  /\ ~ Skippable(m)
  /\ mods' = [mods EXCEPT ![m] = StageErrorClear(@, StageOf(m))]
  /\ seen' = [seen EXCEPT ![m] = ParentHashes(mods, m, StageOf(m))]
  /\ pc' = [pc EXCEPT ![m] = "invoking"]
  /\ UNCHANGED <<intJudge, ckpt, phase, wave, at, integration, exit, runs>>

\* The node throws (an abort leaves no error).
NodeFails(m) ==
  /\ pc[m] = "invoking"
  /\ mods' \in {mods, [mods EXCEPT ![m] = StageErrorSet(@, StageOf(m))]}
  /\ pc' = [pc EXCEPT ![m] = "failed"]
  /\ seen' = [seen EXCEPT ![m] = NoSnapshot]
  /\ UNCHANGED intJudge
  /\ Save
  /\ UNCHANGED <<phase, wave, at, integration, exit, runs>>

\* A node of m that returns version v of something that is now at version n.
NextVersions(m, n) == {v \in {n, n + 1} : v \in 1..MaxVersion[m]}

StageReturns(m) ==
  /\ AfterStage(m)
  /\ seen' = [seen EXCEPT ![m] = NoSnapshot]
  /\ UNCHANGED intJudge
  /\ Save
  /\ UNCHANGED <<phase, wave, integration, exit, runs>>

\* The elicitation that comes back with version v of the specification: made when
\* there is none; otherwise kept, or revised, which revises the contract.
Elicitations(mod, v) ==
  IF ~ Present(mod, "elicit") THEN {1}
  ELSE {0} \union IF v # Contract(mod) THEN {mod.slot["elicit"].v + 1} ELSE {}

SpecReturns(m) ==
  /\ pc[m] = "invoking" /\ StageOf(m) = "spec"
  /\ \E v \in NextVersions(m, Contract(mods[m])) : \E e \in Elicitations(mods[m], v) :
       mods' = Publish([mods EXCEPT ![m] = SpecDone(@, v, e)], m,
                       HashAfter(mods[m], "spec", v), seen[m])
  /\ StageReturns(m)

\* Unresolved attribution: the artifact is kept, nothing is published.
SpecFailsReview(m) ==
  /\ pc[m] = "invoking" /\ StageOf(m) = "spec"
  /\ \E v \in NextVersions(m, Contract(mods[m])) : \E e \in Elicitations(mods[m], v) :
       mods' = [mods EXCEPT ![m] = SpecUnqualified(@, v, e)]
  /\ pc' = [pc EXCEPT ![m] = "failed"]
  /\ seen' = [seen EXCEPT ![m] = NoSnapshot]
  /\ UNCHANGED intJudge
  /\ Save
  /\ UNCHANGED <<phase, wave, at, integration, exit, runs>>

RtlReturns(m) ==
  /\ pc[m] = "invoking" /\ StageOf(m) = "rtl_generate"
  /\ \E k \in NextVersions(m, Code(mods[m])) :
       mods' = Publish([mods EXCEPT ![m] = RtlDone(@, k)], m,
                       HashAfter(mods[m], "rtl_generate", k), seen[m])
  /\ StageReturns(m)

\* The RTL a stage ships: architect comes before there is any and returns none.
Shipped(m) == IF at[m] < RtlPlace THEN {Code(mods[m])} ELSE NextVersions(m, Code(mods[m]))

CheckReturns(m) ==
  /\ pc[m] = "invoking" /\ StageOf(m) \notin {"spec", "rtl_generate", "judge"}
  /\ \E k \in Shipped(m) :
       mods' = [mods EXCEPT ![m] = StageDone(@, StageOf(m), k)]
  /\ StageReturns(m)

\* A contract is revised by a chain that regenerates and re-verifies the design.
JudgeReturns(m) ==
  /\ pc[m] = "invoking" /\ StageOf(m) = "judge"
  /\ \E k \in NextVersions(m, Code(mods[m])), v \in NextVersions(m, Contract(mods[m])),
        reverify \in {"none", "estimate", "cli"} :
       mods' = [mods EXCEPT ![m] = JudgeDone(@, k, v, reverify)]
  /\ StageReturns(m)

----
\* Integration and its reflows.
Hashes == [m \in Module |-> mods[m].contentHash]

\* No content hash has changed since the last integration of this process.
IntegrationSkips ==
  /\ phase = "integrate"
  /\ lastHashes = Hashes
  /\ intResult' = "ok"
  /\ target' = NoModule
  /\ phase' = "decide"
  /\ UNCHANGED <<project, ckpt, wave, pc, at, seen, reflows, lastHashes, measured, exit, runs>>

\* The top's RTL, or the RTL a fix loop of integration repaired and measured clean.
Repaired(k) ==
  [mods EXCEPT ![Top] =
     IF k = Code(@) THEN @ ELSE StageDataSet(@, "rtl_generate", [@.slot["rtl_generate"] EXCEPT !.v = k, !.code = k])]

\* int_lint or int_test ends the integration: blaming module t, or nobody.
IntegrationFails ==
  /\ phase = "integrate"
  /\ lastHashes # Hashes
  /\ lastHashes' = Hashes
  /\ \E k \in NextVersions(Top, Code(mods[Top])) : mods' = Repaired(k)
  /\ target' \in Module \union {NoModule}
  /\ intResult' = "fail"
  /\ measured' = "fail"
  /\ phase' = "decide"
  /\ UNCHANGED <<intJudge, ckpt, wave, pc, at, seen, reflows, exit, runs>>

\* Every module's judge says PASS: a stale verdict reads UNVERIFIED.
AllJudgedPass == \A m \in Module : Present(mods[m], "judge") /\ ~ mods[m].slot["judge"].stale

\* int_judge gives the system's verdict.
IntegrationJudges ==
  /\ phase = "integrate"
  /\ lastHashes # Hashes
  /\ lastHashes' = Hashes
  /\ \E k \in NextVersions(Top, Code(mods[Top])) : mods' = Repaired(k)
  /\ intJudge' \in {"FAIL"} \union IF AllJudgedPass THEN {"PASS"} ELSE {}
  /\ intResult' = "ok"
  /\ measured' = intJudge'
  /\ target' = NoModule
  /\ phase' = "decide"
  /\ UNCHANGED <<ckpt, wave, pc, at, seen, reflows, exit, runs>>

MayReflow == intResult = "fail" /\ target # NoModule /\ reflows < MaxReflows

\* The blamed module runs again from rtl_generate.
StartReflow ==
  /\ phase = "decide"
  /\ MayReflow
  /\ phase' = "reflow"
  /\ reflows' = reflows + 1
  /\ pc' = [pc EXCEPT ![target] = Entered(target)]
  /\ at' = [at EXCEPT ![target] = RtlPlace]
  /\ UNCHANGED <<project, ckpt, wave, seen, target, lastHashes, intResult, measured, exit, runs>>

\* Mutant of ReflowSettles: a reflow that fails is not noticed.
ReflowSettlesOnSuccess ==
  /\ phase = "reflow"
  /\ pc[target] = "ok"
  /\ phase' = "integrate"
  /\ UNCHANGED <<project, ckpt, wave, pc, at, seen, integration, exit, runs>>

ReflowSettles ==
  /\ phase = "reflow"
  /\ Settled(target)
  /\ phase' = IF pc[target] = "ok" THEN "integrate" ELSE "closing"
  /\ UNCHANGED <<project, ckpt, wave, pc, at, seen, integration, exit, runs>>

\* Project phase "done", the last checkpoint, the exit code.
Close ==
  /\ phase = "closing" \/ (phase = "decide" /\ ~ MayReflow)
  /\ phase' = "done"
  /\ exit' = IF intResult # "fail" /\ intJudge = "PASS" THEN "0" ELSE "1"
  /\ UNCHANGED <<project, wave, pc, at, seen, integration, runs>>
  /\ Save

----
\* A process starts on the checkpoint: nothing else survived the last one.
Load ==
  /\ mods' = ckpt[1] /\ intJudge' = ckpt[2]
  /\ wave' = 1
  /\ pc' = [m \in Module |-> "off"]
  /\ at' = [m \in Module |-> 1]
  /\ seen' = [m \in Module |-> NoSnapshot]
  /\ reflows' = 0 /\ target' = NoModule
  /\ lastHashes' = <<>> /\ intResult' = "none"
  /\ UNCHANGED <<ckpt, measured>>

\* The process dies: what it had in memory is gone.
Crash ==
  /\ phase \notin {"halted", "done", "crashed"}
  /\ phase' = "crashed"
  /\ exit' = "1"
  /\ Load
  /\ UNCHANGED runs

\* run --system --resume: another process takes the project up again.
Resume ==
  /\ phase \in {"halted", "done", "crashed"}
  /\ runs < MaxRuns
  /\ runs' = runs + 1
  /\ phase' = "walk"
  /\ exit' = "running"
  /\ Load

StageStep(m) ==
  \/ SkipStage(m) \/ BudgetStops(m) \/ BeginStage(m) \/ NodeFails(m)
  \/ SpecReturns(m) \/ SpecFailsReview(m) \/ RtlReturns(m) \/ CheckReturns(m)
  \/ JudgeReturns(m)

Progress ==
  \/ LaunchWave \/ WaveSettles
  \/ \E m \in Module : StageStep(m)
  \/ IntegrationSkips \/ IntegrationFails \/ IntegrationJudges
  \/ StartReflow \/ ReflowSettles \/ Close

Next == Progress \/ Crash \/ Resume

Spec == Init /\ [][Next]_vars /\ WF_vars(Progress)

----
\* Properties.

PhaseName == {"walk", "integrate", "decide", "reflow", "closing", "halted", "done", "crashed"}
WorkerState == {"off", "between", "invoking", "ok", "failed"}

TypeOK ==
  /\ mods \in [Module -> ModuleState]
  /\ intJudge \in {"none", "PASS", "FAIL"}
  /\ ckpt \in [Module -> ModuleState] \X {"none", "PASS", "FAIL"}
  /\ phase \in PhaseName
  /\ wave \in 1..(Waves + 1)
  /\ pc \in [Module -> WorkerState]
  /\ at \in [Module -> 1..Len(Walk)]
  /\ seen \in [Module -> [Module -> [Module -> ContentHash]]]
  /\ reflows \in 0..MaxReflows
  /\ target \in Module \union {NoModule}
  /\ lastHashes \in [Module -> ContentHash] \union {<<>>}
  /\ intResult \in {"none", "ok", "fail"}
  /\ measured \in {"none", "PASS", "FAIL", "fail"}
  /\ exit \in {"running", "0", "1"}
  /\ runs \in 1..MaxRuns

\* The modules a module instantiates, directly or not.
Descendants(m) ==
  {n \in Module : \A S \in SUBSET Module :
     (Children(m) \subseteq S /\ \A x \in S : Children(x) \subseteq S) => n \in S}

\* Two workers are never active on a module and one it instantiates, directly or
\* transitively, in a wave, a reflow or a resumed walk (runAllPipelines.js, the
\* comment on wave scheduling).
NoRelatedWorkers ==
  \A m, n \in Module : Active(m) /\ Active(n) => n \notin Descendants(m)

\* A completed stage other than the specification's own and the verdict is made for
\* the current contract and not marked stale, through revisions by judge, failed
\* reviews, reflows, crashes and lost checkpoints (reducer.js,
\* invalidateContractDependents).
CompletedFollowsContract ==
  \A m \in Module : \A s \in mods[m].completed \ {"elicit", "spec", "judge"} :
    /\ ~ mods[m].slot[s].stale
    /\ mods[m].slot[s].contract = Contract(mods[m])

\* A parent's record of its child is the hash the child published last
\* (runStage.js, section 13).
ChildHashesCurrent ==
  \A p \in Module : \A c \in Children(p) : mods[p].childHashes[c] = mods[c].contentHash

\* The project is declared done only after every stage of every module has run.  A
\* stage that is not completed then lost it to a contract that judge revised: the
\* module's verdict is stale or, when a reflow has given a new one, the artifact is,
\* and a reflow leaves such only before rtl_generate (runAllPipelines.js, the
\* reflow's stages and the end; runStage.js, judge).
DoneMeansWalked ==
  phase = "done" => \A m \in Module : \A i \in DOMAIN Walk :
    /\ Present(mods[m], Walk[i])
    /\ \/ Walk[i] \in mods[m].completed
       \/ mods[m].slot["judge"].stale
       \/ i < RtlPlace /\ mods[m].slot[Walk[i]].stale

\* In a first run, exit code 0 says that the last integration measured PASS, and that
\* every module but the top (which integration may repair) ships the RTL and the
\* contract its own verdict was given for (runSystem.js, the verdict;
\* runStage.js, the code-slot mirrors).
FreshExitZero ==
  exit = "0" /\ runs = 1 =>
    /\ measured = "PASS"
    /\ \A m \in Module \ {Top} :
         /\ ~ mods[m].slot["judge"].stale
         /\ mods[m].slot["judge"].contract = Contract(mods[m])
         /\ mods[m].slot["judge"].code = Code(mods[m])

\* The schedule keeps the promise of a dependency-ordered walk (DependencyWalk),
\* sequential or in waves, with reflows, crashes and resumes.
Shown(state) == CASE state = "off" -> "waiting"
                  [] state = "ok" -> "finished"
                  [] state = "failed" -> "failed"
                  [] OTHER -> "running"

WalkState == [m \in Module |-> Shown(pc[m])]

DW == INSTANCE DependencyWalk WITH state <- WalkState
WalksInOrder == DW!Spec

\* A run ends: the walk, the integration and its reflows come to an end.
RunEnds == phase = "walk" ~> phase \in {"halted", "done", "crashed"}

----
\* What the code says of itself and does not keep.

\* Workers of a wave do not disturb each other: once the project is done, a parent's
\* record of each child is the hash the child published last (runAllPipelines.js,
\* the comment on runOneModule; runStage.js, section 13).
ChildHashesSettled ==
  phase = "done" =>
    \A p \in Module : \A c \in Children(p) : mods[p].childHashes[c] = mods[c].contentHash

\* Exit code 0 means that the integration judge passed the system: the last
\* integration that measured anything gave PASS (runSystem.js, the exit codes).
ExitZeroMeansIntegrated == exit = "0" => measured = "PASS"
====
