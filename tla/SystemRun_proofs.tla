---- MODULE SystemRun_proofs ----
\* Theorems about SystemRun, for every set of modules, every acyclic instance
\* relation and both schedules.
EXTENDS SystemRun, TLAPS

----
\* What the reducer and one stage make of a module state is a module state.

LEMMA MadeType ==
  ASSUME NEW v \in Nat, NEW contract \in Nat, NEW code \in Nat
  PROVE  Made(v, contract, code) \in Artifact
  BY DEF Made, Artifact

LEMMA BlankType == blankModule \in ModuleState
  BY DEF blankModule, ModuleState, Absent, Artifact, NoHash, ContentHash

LEMMA ContractType ==
  ASSUME NEW mod \in ModuleState
  PROVE  Contract(mod) \in Nat /\ Code(mod) \in Nat
  BY KnownStages DEF Contract, Code, ModuleState, Artifact

LEMMA SlotType ==
  ASSUME NEW mod \in ModuleState, NEW s \in Stage, NEW data \in Artifact
  PROVE  [mod EXCEPT !.slot[s] = data] \in ModuleState
  BY DEF ModuleState

LEMMA CompletedType ==
  ASSUME NEW mod \in ModuleState, NEW s \in Stage
  PROVE  /\ StageComplete(mod, s) \in ModuleState
         /\ StageUncomplete(mod, s) \in ModuleState
         /\ Completed(mod, s) \in ModuleState
  BY DEF StageComplete, StageUncomplete, Completed, ModuleState

LEMMA ErrorType ==
  ASSUME NEW mod \in ModuleState, NEW s \in Stage
  PROVE  /\ StageErrorSet(mod, s) \in ModuleState
         /\ StageErrorClear(mod, s) \in ModuleState
  BY DEF StageErrorSet, StageErrorClear, ModuleState

LEMMA HashType ==
  ASSUME NEW mod \in ModuleState, NEW h \in ContentHash, NEW hs \in [Module -> ContentHash]
  PROVE  /\ ContentHashSet(mod, h) \in ModuleState
         /\ ChildHashesSet(mod, hs) \in ModuleState
  BY DEF ContentHashSet, ChildHashesSet, ModuleState

LEMMA MarkStaleType ==
  ASSUME NEW mod \in ModuleState, NEW S \in SUBSET Stage
  PROVE  MarkStale(mod, S) \in ModuleState
<1> DEFINE marked == [t \in Stage |-> IF t \in S THEN [mod.slot[t] EXCEPT !.stale = TRUE]
                                                ELSE mod.slot[t]]
<1>1. ASSUME NEW t \in Stage PROVE [mod.slot[t] EXCEPT !.stale = TRUE] \in Artifact
  BY DEF ModuleState, Artifact
<1>2. marked \in [Stage -> Artifact]
  BY <1>1 DEF ModuleState
<1>3. mod.completed \ S \in SUBSET Stage
  BY DEF ModuleState
<1>4. MarkStale(mod, S) = [mod EXCEPT !.slot = marked, !.completed = mod.completed \ S]
  BY DEF MarkStale, ModuleState
<1> HIDE DEF marked
<1> QED
  BY <1>2, <1>3, <1>4 DEF ModuleState

LEMMA InvalidateType ==
  ASSUME NEW mod \in ModuleState, NEW s \in Stage, NEW next \in Artifact,
         NEW patched \in ModuleState
  PROVE  invalidateContractDependents(mod, s, next, patched) \in ModuleState
<1>1. {t \in After(s) : Present(patched, t)} \in SUBSET Stage
  BY DEF After
<1> QED
  BY <1>1, MarkStaleType DEF invalidateContractDependents

LEMMA DataType ==
  ASSUME NEW mod \in ModuleState, NEW s \in Stage, NEW data \in Artifact
  PROVE  /\ StageDataSet(mod, s, data) \in ModuleState
         /\ StageDataMerge(mod, s, data) \in ModuleState
<1> DEFINE merged == [data EXCEPT !.stale = mod.slot[s].stale]
<1>1. merged \in Artifact
  BY DEF ModuleState, Artifact
<1>2. StageDataSet(mod, s, data) \in ModuleState
  BY SlotType, InvalidateType DEF StageDataSet
<1>3. StageDataMerge(mod, s, data)
        = invalidateContractDependents(mod, s, merged, [mod EXCEPT !.slot[s] = merged])
  BY DEF StageDataMerge
<1> HIDE DEF merged
<1>4. StageDataMerge(mod, s, data) \in ModuleState
  BY <1>1, <1>3, SlotType, InvalidateType
<1> QED
  BY <1>2, <1>4

----
\* The results of the stages.

LEMMA SpecType ==
  ASSUME NEW mod \in ModuleState, NEW v \in Nat, NEW e \in Nat
  PROVE  SpecDone(mod, v, e) \in ModuleState /\ SpecUnqualified(mod, v, e) \in ModuleState
<1> DEFINE set == StageDataSet(mod, "spec", Made(v, v, 0))
<1>1. "spec" \in Stage /\ "elicit" \in Stage
  BY KnownStages
<1>2. Made(v, v, 0) \in Artifact /\ Made(e, 0, 0) \in Artifact
  BY MadeType
<1>3. set \in ModuleState
  BY <1>1, <1>2, DataType
<1>4. SpecArtifacts(mod, v, e)
        \in {set, StageComplete(StageDataMerge(set, "elicit", Made(e, 0, 0)), "elicit")}
  BY DEF SpecArtifacts
<1> HIDE DEF set
<1>5. SpecArtifacts(mod, v, e) \in ModuleState
  BY <1>1, <1>2, <1>3, <1>4, DataType, CompletedType
<1> QED
  BY <1>1, <1>5, CompletedType, ErrorType DEF SpecDone, SpecUnqualified

LEMMA RtlType ==
  ASSUME NEW mod \in ModuleState, NEW k \in Nat
  PROVE  RtlDone(mod, k) \in ModuleState
<1>1. "rtl_generate" \in Stage /\ Made(k, Contract(mod), k) \in Artifact
  BY KnownStages, MadeType, ContractType
<1> QED
  BY <1>1, DataType, CompletedType DEF RtlDone

LEMMA MirroredType ==
  ASSUME NEW mod \in ModuleState, NEW k \in Nat, NEW v \in Nat
  PROVE  Mirrored(mod, k, v) \in ModuleState
<1>1. "rtl_generate" \in Stage /\ Made(k, v, k) \in Artifact
  BY KnownStages, MadeType
<1> QED
  BY <1>1, DataType DEF Mirrored

LEMMA StageDoneType ==
  ASSUME NEW mod \in ModuleState, NEW s \in Stage, NEW k \in Nat
  PROVE  StageDone(mod, s, k) \in ModuleState
<1> DEFINE set == StageDataSet(mod, s, Made(1, Contract(mod), k))
<1>1. Made(1, Contract(mod), k) \in Artifact /\ Contract(mod) \in Nat
  BY MadeType, ContractType
<1>2. set \in ModuleState
  BY <1>1, DataType
<1>3. StageDone(mod, s, k) = Completed(Mirrored(set, k, Contract(mod)), s)
  BY DEF StageDone
<1> HIDE DEF set
<1> QED
  BY <1>1, <1>2, <1>3, MirroredType, CompletedType

LEMMA JudgeType ==
  ASSUME NEW mod \in ModuleState, NEW k \in Nat, NEW v \in Nat, NEW reverify
  PROVE  JudgeDone(mod, k, v, reverify) \in ModuleState
<1> DEFINE verify   == Made(1, v, k)
           judged   == Mirrored(StageDataSet(mod, "judge", verify), k, v)
           verified == IF reverify = "none" THEN judged
                       ELSE StageDataMerge(judged, "verify", verify)
           revised  == StageDataMerge(verified, "spec", Made(v, v, 0))
           final    == IF reverify = "cli" THEN StageDataSet(revised, "verify", verify)
                       ELSE revised
<1>1. "judge" \in Stage /\ "verify" \in Stage /\ "spec" \in Stage
  BY KnownStages
<1>2. verify \in Artifact /\ Made(v, v, 0) \in Artifact
  BY MadeType
<1>3. JudgeDone(mod, k, v, reverify) = Completed(final, "judge")
  BY DEF JudgeDone
<1>4. judged \in ModuleState
  BY <1>1, <1>2, DataType, MirroredType
<1>5. verified \in ModuleState
  BY <1>1, <1>2, <1>4, DataType
<1>6. revised \in ModuleState
  BY <1>1, <1>2, <1>5, DataType
<1>7. final \in ModuleState
  BY <1>1, <1>2, <1>6, DataType
<1> HIDE DEF final
<1> QED
  BY <1>1, <1>3, <1>7, CompletedType

----
\* Publication to the parents.

LEMMA HashAfterType ==
  ASSUME NEW mod \in ModuleState, NEW s \in Stage, NEW v \in Nat
  PROVE  HashAfter(mod, s, v) \in ContentHash
  BY ContractType DEF HashAfter, ContentHash

LEMMA PublishType ==
  ASSUME NEW given \in [Module -> ModuleState], NEW m \in Module, NEW h \in ContentHash,
         NEW snapshot \in [Module -> [Module -> ContentHash]]
  PROVE  Publish(given, m, h, snapshot) \in [Module -> ModuleState]
<1>1. ASSUME NEW n \in Module
      PROVE  [snapshot[n] EXCEPT ![m] = h] \in [Module -> ContentHash]
  OBVIOUS
<1>2. ASSUME NEW n \in Module
      PROVE  /\ ContentHashSet(given[n], h) \in ModuleState
             /\ ChildHashesSet(given[n], [snapshot[n] EXCEPT ![m] = h]) \in ModuleState
  <2>1. given[n] \in ModuleState /\ snapshot[n] \in [Module -> ContentHash]
    OBVIOUS
  <2> QED
    BY <1>1, <2>1, HashType
<1> QED
  BY <1>2 DEF Publish

LEMMA ParentHashesType ==
  ASSUME NEW given \in [Module -> ModuleState], NEW m \in Module, NEW s
  PROVE  ParentHashes(given, m, s) \in [Module -> [Module -> ContentHash]]
<1>1. \A n \in Module : given[n].childHashes \in [Module -> ContentHash]
  BY DEF ModuleState
<1>2. [c \in Module |-> NoHash] \in [Module -> ContentHash]
  BY DEF NoHash, ContentHash
<1> QED
  BY <1>1, <1>2 DEF ParentHashes

----
\* The waves.

LEMMA HighestLevel ==
  /\ MaxLevel \in Nat
  /\ \A m \in Module : Level[m] <= MaxLevel
<1> DEFINE L == {Level[m] : m \in Module}
<1>1. PICK h \in Module : \A m \in Module : Level[m] <= Level[h]
  BY LevelsFollowInst
<1>2. \E l \in L : \A m \in Module : Level[m] <= l
  BY <1>1
<1>3. MaxLevel \in L /\ \A m \in Module : Level[m] <= MaxLevel
  BY <1>2 DEF MaxLevel
<1> QED
  BY <1>3, LevelsFollowInst

LEMMA WavesCount == Waves \in Nat
  BY HighestLevel, OrderIsTopological DEF Waves

\* Every module has its wave.
LEMMA WaveOfModule ==
  ASSUME NEW m \in Module
  PROVE  \E w \in 1..Waves : m \in InWave(w)
<1>1. CASE Parallel
  <2>1. Level[m] \in Nat /\ Level[m] <= MaxLevel /\ MaxLevel \in Nat
    BY HighestLevel, LevelsFollowInst
  <2>2. Level[m] + 1 \in 1..Waves
    BY <1>1, <2>1 DEF Waves
  <2>3. m \in InWave(Level[m] + 1)
    BY <1>1, <2>1 DEF InWave
  <2> QED
    BY <2>2, <2>3
<1>2. CASE ~ Parallel
  <2>1. PICK i \in DOMAIN Order : Order[i] = m
    BY OrderIsTopological
  <2>2. i \in 1..Waves
    BY <1>2, OrderIsTopological DEF Waves
  <2> QED
    BY <1>2, <2>1, <2>2 DEF InWave
<1> QED
  BY <1>1, <1>2

LEMMA WaveInModule ==
  ASSUME NEW w \in 1..Waves
  PROVE  InWave(w) \subseteq Module
<1>1. CASE Parallel
  BY <1>1 DEF InWave
<1>2. CASE ~ Parallel
  BY <1>2, OrderIsTopological DEF InWave, Waves
<1> QED
  BY <1>1, <1>2

LEMMA OneWave ==
  ASSUME NEW v \in 1..Waves, NEW w \in 1..Waves, NEW m \in Module,
         m \in InWave(v), m \in InWave(w)
  PROVE  v = w
<1>1. CASE Parallel
  BY <1>1, WavesCount, LevelsFollowInst DEF InWave
<1>2. CASE ~ Parallel
  <2>1. v \in DOMAIN Order /\ w \in DOMAIN Order
    BY <1>2, OrderIsTopological DEF Waves
  <2> QED
    BY <1>2, <2>1, OrderIsTopological DEF InWave
<1> QED
  BY <1>1, <1>2

\* A child's wave comes before its parent's.
LEMMA ChildrenFirst ==
  ASSUME NEW v \in 1..Waves, NEW w \in 1..Waves, NEW m \in Module, NEW c \in Children(m),
         m \in InWave(w), c \in InWave(v)
  PROVE  v < w
<1>1. <<m, c>> \in Inst /\ c \in Module
  BY DEF Children
<1>2. CASE Parallel
  <2>1. Level[m] > Level[c]
    BY <1>1, LevelsFollowInst
  <2>2. Level[m] = w - 1 /\ Level[c] = v - 1
    BY <1>2 DEF InWave
  <2> QED
    BY <2>1, <2>2, WavesCount
<1>3. CASE ~ Parallel
  <2>1. v \in DOMAIN Order /\ w \in DOMAIN Order
    BY <1>3, OrderIsTopological DEF Waves
  <2>2. Order[w] = m /\ Order[v] = c
    BY <1>3 DEF InWave
  <2> QED
    BY <1>1, <2>1, <2>2, OrderIsTopological, WavesCount
<1> QED
  BY <1>2, <1>3

\* Two different modules of a wave are not related: nor is a module to itself.
LEMMA DescendantsAreBelow ==
  ASSUME NEW m \in Module, NEW n \in Descendants(m)
  PROVE  Level[n] < Level[m]
<1> DEFINE S == {x \in Module : Level[x] < Level[m]}
<1>1. \A x, y \in Module : y \in Children(x) => Level[y] < Level[x]
  BY LevelsFollowInst DEF Children
<1>2. Children(m) \subseteq S
  BY <1>1 DEF Children
<1>3. \A x \in S : Children(x) \subseteq S
  <2> SUFFICES ASSUME NEW x \in S, NEW y \in Children(x)
               PROVE  y \in S
    OBVIOUS
  <2>1. y \in Module /\ Level[y] < Level[x] /\ Level[x] < Level[m]
    BY <1>1 DEF Children
  <2>2. Level[y] \in Nat /\ Level[x] \in Nat /\ Level[m] \in Nat
    BY <2>1, LevelsFollowInst
  <2> QED
    BY <2>1, <2>2
<1>4. S \in SUBSET Module
  OBVIOUS
<1>5. n \in S
  BY <1>2, <1>3, <1>4 DEF Descendants
<1> QED
  BY <1>5

----
\* The control invariant: the waves before the current one are ok and those after it
\* off; between integrations all is ok; in a reflow all but its target is.

WalkShape ==
  /\ wave \in 1..Waves
  /\ \A w \in 1..Waves : \A m \in InWave(w) :
       /\ w < wave => pc[m] = "ok"
       /\ w > wave => pc[m] = "off"

AllOk == \A m \in Module : pc[m] = "ok"

ReflowShape ==
  /\ target \in Module
  /\ \A m \in Module \ {target} : pc[m] = "ok"
  /\ pc[target] # "off"

Quiet == \A m \in Module : ~ Active(m)

Control ==
  /\ pc \in [Module -> WorkerState]
  /\ phase \in PhaseName
  /\ phase = "walk" => WalkShape
  /\ phase \in {"integrate", "decide"} => AllOk
  /\ phase = "reflow" => ReflowShape
  /\ phase \in {"closing", "halted", "done", "crashed"} => Quiet

ActiveState == {"between", "invoking"}
EnteredState == {"between", "invoking", "ok", "failed"}

\* What a stage step does to the control state.
WorkerStep(m) ==
  /\ Active(m)
  /\ \E x \in EnteredState : pc' = [pc EXCEPT ![m] = x]
  /\ UNCHANGED <<phase, wave, target>>

LEMMA StageStepMovesWorker ==
  ASSUME NEW m \in Module, StageStep(m)
  PROVE  WorkerStep(m)
<1> USE DEF WorkerStep, EnteredState, Active, integration, walk
<1>1. CASE SkipStage(m)
  BY <1>1 DEF SkipStage, AfterStage
<1>2. CASE BudgetStops(m)
  BY <1>2 DEF BudgetStops
<1>3. CASE BeginStage(m)
  BY <1>3 DEF BeginStage
<1>4. CASE NodeFails(m)
  BY <1>4 DEF NodeFails
<1>5. CASE SpecReturns(m)
  BY <1>5 DEF SpecReturns, StageReturns, AfterStage
<1>6. CASE SpecFailsReview(m)
  BY <1>6 DEF SpecFailsReview
<1>7. CASE RtlReturns(m)
  BY <1>7 DEF RtlReturns, StageReturns, AfterStage
<1>8. CASE CheckReturns(m)
  BY <1>8 DEF CheckReturns, StageReturns, AfterStage
<1>9. CASE JudgeReturns(m)
  BY <1>9 DEF JudgeReturns, StageReturns, AfterStage
<1> QED
  BY StageStep(m), <1>1, <1>2, <1>3, <1>4, <1>5, <1>6, <1>7, <1>8, <1>9 DEF StageStep

LEMMA SomeWave == Waves >= 1
  BY WaveOfModule, WavesCount, ModesAndModules

\* A fresh process starts in the walk, before its first wave.
LEMMA OffIsWalkShape ==
  ASSUME wave = 1, pc = [m \in Module |-> "off"]
  PROVE  WalkShape
<1>1. wave \in 1..Waves
  BY SomeWave, WavesCount
<1>2. \A w \in 1..Waves : \A m \in InWave(w) : ~ (w < wave) /\ pc[m] = "off"
  BY WaveInModule, WavesCount
<1> QED
  BY <1>1, <1>2 DEF WalkShape

LEMMA ControlInit == Init => Control
<1> SUFFICES ASSUME Init PROVE Control
  OBVIOUS
<1>1. WalkShape
  BY OffIsWalkShape DEF Init
<1>2. pc \in [Module -> WorkerState] /\ phase = "walk"
  BY DEF Init, WorkerState
<1> QED
  BY <1>1, <1>2 DEF Control, PhaseName

\* In a walk, what is active is in the current wave.
LEMMA ActiveInWave ==
  ASSUME Control, phase = "walk", NEW m \in Module, pc[m] \notin {"ok", "off"}
  PROVE  m \in InWave(wave)
<1>1. PICK w \in 1..Waves : m \in InWave(w)
  BY WaveOfModule
<1>2. WalkShape
  BY DEF Control
<1>3. w = wave
  BY <1>1, <1>2, WavesCount DEF WalkShape
<1> QED
  BY <1>1, <1>3

LEMMA EnteredStates ==
  ASSUME NEW m \in Module
  PROVE  Entered(m) \in EnteredState
  BY DEF Entered, EnteredState

LEMMA ControlWorker ==
  ASSUME Control, NEW m \in Module, WorkerStep(m)
  PROVE  Control'
<1>1. PICK x \in EnteredState : pc' = [pc EXCEPT ![m] = x]
  BY DEF WorkerStep
<1>2. UNCHANGED <<phase, wave, target>> /\ pc[m] \in ActiveState
  BY DEF WorkerStep, Active, ActiveState
<1>3. pc' \in [Module -> WorkerState] /\ phase' \in PhaseName
  BY <1>1, <1>2 DEF Control, EnteredState, WorkerState
<1>4. phase' = "walk" => WalkShape'
  <2> SUFFICES ASSUME phase = "walk" PROVE WalkShape'
    BY <1>2
  <2>1. WalkShape /\ m \in InWave(wave)
    BY <1>2, ActiveInWave DEF Control, ActiveState
  <2>2. ASSUME NEW w \in 1..Waves, NEW n \in InWave(w), w # wave
        PROVE  pc'[n] = pc[n]
    <3>1. n # m
      BY <2>1, <2>2, OneWave DEF WalkShape
    <3> QED
      BY <1>1, <3>1, <2>2, WaveInModule DEF Control
  <2>3. ASSUME NEW w \in 1..Waves, NEW n \in InWave(w)
        PROVE  (w < wave => pc'[n] = "ok") /\ (w > wave => pc'[n] = "off")
    <3>1. CASE w = wave
      BY <3>1, WavesCount
    <3>2. CASE w # wave
      BY <3>2, <2>1, <2>2, <2>3 DEF WalkShape
    <3> QED
      BY <3>1, <3>2
  <2> QED
    BY <1>2, <2>1, <2>3 DEF WalkShape, InWave, Waves
<1>5. phase' \notin {"integrate", "decide"}
  BY <1>2 DEF Control, AllOk, ActiveState
<1>6. phase' = "reflow" => ReflowShape'
  <2> SUFFICES ASSUME phase = "reflow" PROVE ReflowShape'
    BY <1>2
  <2>1. ReflowShape /\ m = target
    BY <1>2 DEF Control, ReflowShape, ActiveState
  <2> QED
    BY <1>1, <1>2, <2>1 DEF ReflowShape, EnteredState, Control
<1>7. phase' \notin {"closing", "halted", "done", "crashed"}
  BY <1>2 DEF Control, Quiet, Active, ActiveState
<1> QED
  BY <1>3, <1>4, <1>5, <1>6, <1>7 DEF Control

LEMMA ControlLaunch ==
  ASSUME Control, LaunchWave
  PROVE  Control'
<1>1. WalkShape /\ phase = "walk" /\ UNCHANGED <<phase, wave>>
  BY DEF Control, LaunchWave
<1>2. pc' = [m \in Module |-> IF m \in InWave(wave) THEN Entered(m) ELSE pc[m]]
  BY DEF LaunchWave
<1>3. pc' \in [Module -> WorkerState]
  BY <1>2, EnteredStates DEF Control, EnteredState, WorkerState
<1>4. ASSUME NEW w \in 1..Waves, NEW n \in InWave(w)
      PROVE  (w < wave => pc'[n] = "ok") /\ (w > wave => pc'[n] = "off")
  <2>1. n \in Module /\ (n \in InWave(wave) => w = wave)
    BY <1>1, <1>4, WaveInModule, OneWave DEF WalkShape
  <2>2. CASE w = wave
    BY <2>2, WavesCount
  <2>3. CASE w # wave
    BY <2>1, <2>3, <1>1, <1>2, <1>4 DEF WalkShape
  <2> QED
    BY <2>2, <2>3
<1>5. WalkShape'
  BY <1>1, <1>4 DEF WalkShape, InWave, Waves
<1> QED
  BY <1>1, <1>3, <1>5 DEF Control

\* When the last wave is ok, all is ok.
LEMMA LastWaveOk ==
  ASSUME WalkShape, wave = Waves, \A m \in InWave(wave) : pc[m] = "ok"
  PROVE  AllOk
<1> SUFFICES ASSUME NEW m \in Module PROVE pc[m] = "ok"
  BY DEF AllOk
<1>1. PICK w \in 1..Waves : m \in InWave(w)
  BY WaveOfModule
<1>2. w = wave \/ w < wave
  BY WavesCount
<1> QED
  BY <1>1, <1>2 DEF WalkShape

LEMMA ControlSettles ==
  ASSUME Control, WaveSettles
  PROVE  Control'
<1>1. WalkShape /\ phase = "walk" /\ UNCHANGED pc
  BY DEF Control, WaveSettles
<1>2. CASE phase' = "halted"
  <2>1. ASSUME NEW m \in Module PROVE ~ Active(m)
    <3>1. CASE m \in InWave(wave)
      BY <3>1 DEF WaveSettles, Settled, Active
    <3>2. CASE m \notin InWave(wave)
      BY <3>2, <1>1, ActiveInWave DEF Active
    <3> QED
      BY <3>1, <3>2
  <2> QED
    BY <1>1, <1>2, <2>1 DEF Control, Quiet, Active, PhaseName
<1>3. CASE phase' # "halted"
  <2>1. /\ \A m \in InWave(wave) : pc[m] = "ok"
        /\ wave' = wave + 1
        /\ phase' = IF wave = Waves THEN "integrate" ELSE "walk"
    BY <1>3 DEF WaveSettles
  <2>2. CASE wave = Waves
    BY <1>1, <2>1, <2>2, LastWaveOk DEF Control, AllOk, PhaseName
  <2>3. CASE wave # Waves
    <3>1. wave' \in 1..Waves /\ phase' = "walk"
      BY <1>1, <2>1, <2>3, WavesCount DEF WalkShape
    <3>2. ASSUME NEW w \in 1..Waves, NEW n \in InWave(w)
          PROVE  (w < wave' => pc'[n] = "ok") /\ (w > wave' => pc'[n] = "off")
      <4>1. (w < wave' => w < wave \/ w = wave) /\ (w > wave' => w > wave)
        BY <1>1, <2>1, WavesCount DEF WalkShape
      <4> QED
        BY <4>1, <1>1, <2>1, <3>2 DEF WalkShape
    <3>3. WalkShape'
      BY <3>1, <3>2 DEF WalkShape, InWave, Waves
    <3> QED
      BY <1>1, <3>1, <3>3 DEF Control
  <2> QED
    BY <2>2, <2>3
<1> QED
  BY <1>2, <1>3

LEMMA ControlIntegration ==
  ASSUME Control, IntegrationSkips \/ IntegrationFails \/ IntegrationJudges
  PROVE  Control'
<1>1. phase = "integrate" /\ phase' = "decide" /\ UNCHANGED pc
  BY DEF IntegrationSkips, IntegrationFails, IntegrationJudges
<1> QED
  BY <1>1 DEF Control, AllOk, PhaseName

LEMMA ControlReflow ==
  ASSUME Control, target \in Module \union {NoModule}, StartReflow
  PROVE  Control'
<1>1. AllOk /\ target \in Module /\ target' = target /\ phase' = "reflow"
  BY DEF Control, StartReflow, MayReflow
<1>2. pc' = [pc EXCEPT ![target] = Entered(target)] /\ Entered(target) \in EnteredState
  BY <1>1, EnteredStates DEF StartReflow
<1>3. ReflowShape' /\ pc' \in [Module -> WorkerState]
  BY <1>1, <1>2 DEF ReflowShape, AllOk, EnteredState, WorkerState, Control
<1> QED
  BY <1>1, <1>3 DEF Control, PhaseName

LEMMA ControlEnds ==
  ASSUME Control, ReflowSettles \/ Close
  PROVE  Control'
<1>1. CASE ReflowSettles
  <2>1. ReflowShape /\ Settled(target) /\ UNCHANGED pc
    BY <1>1 DEF Control, ReflowSettles
  <2>2. CASE pc[target] = "ok"
    BY <1>1, <2>1, <2>2 DEF Control, ReflowSettles, ReflowShape, AllOk, PhaseName
  <2>3. CASE pc[target] # "ok"
    BY <1>1, <2>1, <2>3 DEF Control, ReflowSettles, ReflowShape, Quiet, Active, Settled, PhaseName
  <2> QED
    BY <2>2, <2>3
<1>2. CASE Close
  <2>1. Quiet /\ UNCHANGED pc /\ phase' = "done"
    BY <1>2 DEF Control, Close, AllOk, Quiet, Active
  <2> QED
    BY <2>1 DEF Control, Quiet, Active, PhaseName
<1> QED
  BY <1>1, <1>2

LEMMA ControlLoad ==
  ASSUME Load, phase' \in {"walk", "crashed"}
  PROVE  Control'
<1>1. wave' = 1 /\ pc' = [m \in Module |-> "off"]
  BY DEF Load
<1>2. WalkShape'
  BY <1>1, SomeWave, WavesCount, WaveInModule DEF WalkShape, InWave, Waves
<1> QED
  BY <1>1, <1>2 DEF Control, Quiet, Active, PhaseName, WorkerState

----
\* Type correctness.

IntVerdict == {"none", "PASS", "FAIL"}

LEMMA NoSnapshotType == NoSnapshot \in [Module -> [Module -> ContentHash]]
  BY DEF NoSnapshot, NoHash, ContentHash

LEMMA SeededType ==
  ASSUME NEW m \in Module
  PROVE  seededModule(m) \in ModuleState
<1>1. [s \in Stage |-> Made(1, 1, 1)] \in [Stage -> Artifact]
  BY MadeType
<1>2. <<1, 1>> \in ContentHash
  BY DEF ContentHash
<1>3. [blankModule EXCEPT !.slot = [s \in Stage |-> Made(1, 1, 1)],
                          !.completed = Stage, !.contentHash = <<1, 1>>] \in ModuleState
  BY <1>1, <1>2, BlankType DEF ModuleState
<1> QED
  BY <1>3, BlankType DEF seededModule

LEMMA RtlPlaceType == RtlPlace \in 1..Len(Walk)
  BY WalkIsThePipeline DEF RtlPlace

LEMMA TypeInit == Init => TypeOK
<1> SUFFICES ASSUME Init PROVE TypeOK
  OBVIOUS
<1>1. mods \in [Module -> ModuleState] /\ intJudge \in IntVerdict
  BY SeededType DEF Init, IntVerdict
<1>2. ckpt \in [Module -> ModuleState] \X IntVerdict
  BY <1>1 DEF Init, project
<1>3. wave \in 1..(Waves + 1)
  BY WavesCount DEF Init
<1>4. at \in [Module -> 1..Len(Walk)]
  BY RtlPlaceType, WalkIsThePipeline DEF Init
<1>5. seen \in [Module -> [Module -> [Module -> ContentHash]]]
  BY NoSnapshotType DEF Init
<1>6. reflows \in 0..MaxReflows /\ runs \in 1..MaxRuns
  BY Bounds DEF Init
<1> QED
  BY <1>1, <1>2, <1>3, <1>4, <1>5, <1>6
  DEF Init, TypeOK, IntVerdict, PhaseName, WorkerState

LEMMA SaveType ==
  ASSUME Save, ckpt \in [Module -> ModuleState] \X IntVerdict,
         mods' \in [Module -> ModuleState], intJudge' \in IntVerdict
  PROVE  ckpt' \in [Module -> ModuleState] \X IntVerdict
  BY DEF Save, project

LEMMA VersionType ==
  ASSUME NEW m \in Module, NEW n \in Nat, NEW v \in NextVersions(m, n)
  PROVE  v \in Nat
  BY Bounds DEF NextVersions

\* What a check ships is a version too: the one there is, or one a fix loop left.
LEMMA ShippedType ==
  ASSUME NEW m \in Module, mods[m] \in ModuleState, NEW k \in Shipped(m)
  PROVE  k \in Nat /\ (k # 0 \/ k = Code(mods[m]))
<1>1. Code(mods[m]) \in Nat
  BY KnownStages DEF ModuleState, Artifact, Code
<1> QED
  BY <1>1, Bounds DEF Shipped, NextVersions

LEMMA ElicitationType ==
  ASSUME NEW mod \in ModuleState, NEW v, NEW e \in Elicitations(mod, v)
  PROVE  e \in Nat
<1>1. mod.slot["elicit"].v \in Nat
  BY KnownStages DEF ModuleState, Artifact
<1> QED
  BY <1>1 DEF Elicitations

\* The part of the state that a stage step may change, typed.
StageTypes ==
  /\ mods \in [Module -> ModuleState]
  /\ intJudge \in IntVerdict
  /\ ckpt \in [Module -> ModuleState] \X IntVerdict
  /\ pc \in [Module -> WorkerState]
  /\ at \in [Module -> 1..Len(Walk)]
  /\ seen \in [Module -> [Module -> [Module -> ContentHash]]]

RestTypes ==
  /\ phase \in PhaseName
  /\ wave \in 1..(Waves + 1)
  /\ reflows \in 0..MaxReflows
  /\ target \in Module \union {NoModule}
  /\ lastHashes \in [Module -> ContentHash] \union {<<>>}
  /\ intResult \in {"none", "ok", "fail"}
  /\ measured \in {"none", "PASS", "FAIL", "fail"}
  /\ exit \in {"running", "0", "1"}
  /\ runs \in 1..MaxRuns

LEMMA TypeParts == TypeOK <=> StageTypes /\ RestTypes
  BY DEF TypeOK, StageTypes, RestTypes, IntVerdict

LEMMA AfterStageType ==
  ASSUME StageTypes, NEW m \in Module, AfterStage(m)
  PROVE  pc' \in [Module -> WorkerState] /\ at' \in [Module -> 1..Len(Walk)]
<1>1. at[m] \in 1..Len(Walk) /\ Len(Walk) \in Nat
  BY WalkIsThePipeline DEF StageTypes
<1>2. at[m] # Len(Walk) => at[m] + 1 \in 1..Len(Walk)
  BY <1>1
<1> QED
  BY <1>2 DEF AfterStage, StageTypes, WorkerState

\* The stage of a worker is one of the pipeline.
LEMMA StageOfType ==
  ASSUME StageTypes, NEW m \in Module
  PROVE  StageOf(m) \in Stage
  BY WalkIsThePipeline DEF StageTypes, StageOf

\* A step that ends with StageReturns keeps the types if its module states are.
LEMMA ReturnsType ==
  ASSUME StageTypes, NEW m \in Module, StageReturns(m), mods' \in [Module -> ModuleState]
  PROVE  StageTypes'
<1>1. pc' \in [Module -> WorkerState] /\ at' \in [Module -> 1..Len(Walk)]
  BY AfterStageType DEF StageReturns
<1>2. intJudge' \in IntVerdict
  BY DEF StageReturns, StageTypes
<1>3. ckpt' \in [Module -> ModuleState] \X IntVerdict
  BY <1>2, SaveType DEF StageReturns, StageTypes
<1>4. seen' \in [Module -> [Module -> [Module -> ContentHash]]]
  BY NoSnapshotType DEF StageReturns, StageTypes
<1> QED
  BY <1>1, <1>2, <1>3, <1>4 DEF StageTypes

\* One module state replaced by a module state.
LEMMA ExceptType ==
  ASSUME NEW ms \in [Module -> ModuleState], NEW m \in Module, NEW mod \in ModuleState
  PROVE  [ms EXCEPT ![m] = mod] \in [Module -> ModuleState]
  OBVIOUS

LEMMA StepType ==
  ASSUME StageTypes, NEW m \in Module, StageStep(m)
  PROVE  StageTypes'
<1> DEFINE mod == mods[m]
<1>1. /\ mods \in [Module -> ModuleState] /\ mod \in ModuleState /\ StageOf(m) \in Stage
      /\ Contract(mod) \in Nat /\ Code(mod) \in Nat
      /\ seen[m] \in [Module -> [Module -> ContentHash]]
  <2>1. mods \in [Module -> ModuleState] /\ seen[m] \in [Module -> [Module -> ContentHash]]
    BY DEF StageTypes
  <2>2. mod \in ModuleState
    BY <2>1
  <2> QED
    BY <2>1, <2>2, ContractType, StageOfType
<1>2. CASE SkipStage(m)
  BY <1>2, AfterStageType DEF SkipStage, StageTypes, project
<1>3. CASE BudgetStops(m)
  <2>1. mods' \in [Module -> ModuleState]
    BY <1>1, <1>3, ErrorType, ExceptType DEF BudgetStops
  <2> QED
    BY <1>3, <2>1, SaveType DEF BudgetStops, StageTypes, WorkerState
<1>4. CASE BeginStage(m)
  <2>1. mods' \in [Module -> ModuleState]
    BY <1>1, <1>4, ErrorType, ExceptType DEF BeginStage
  <2> QED
    BY <1>1, <1>4, <2>1, ParentHashesType DEF BeginStage, StageTypes, WorkerState
<1>5. CASE NodeFails(m)
  <2>0. mods' = mods \/ mods' = [mods EXCEPT ![m] = StageErrorSet(mods[m], StageOf(m))]
    BY <1>5 DEF NodeFails
  <2>1. StageErrorSet(mods[m], StageOf(m)) \in ModuleState
    BY <1>1, ErrorType
  <2>2. [mods EXCEPT ![m] = StageErrorSet(mods[m], StageOf(m))] \in [Module -> ModuleState]
    BY <1>1, <2>1, ExceptType
  <2>3. mods' \in [Module -> ModuleState]
    BY <1>1, <2>0, <2>2
  <2> QED
    BY <1>5, <2>3, SaveType, NoSnapshotType DEF NodeFails, StageTypes, WorkerState
<1>6. CASE SpecReturns(m)
  <2>0. PICK v \in NextVersions(m, Contract(mod)) : \E e \in Elicitations(mod, v) :
          mods' = Publish([mods EXCEPT ![m] = SpecDone(mods[m], v, e)], m,
                          HashAfter(mods[m], "spec", v), seen[m])
    BY <1>6 DEF SpecReturns
  <2>1. PICK e \in Elicitations(mod, v) :
          mods' = Publish([mods EXCEPT ![m] = SpecDone(mods[m], v, e)], m,
                          HashAfter(mods[m], "spec", v), seen[m])
    BY <2>0
  <2>2. v \in Nat /\ e \in Nat
    BY <1>1, VersionType, ElicitationType
  <2>3. /\ HashAfter(mods[m], "spec", v) \in ContentHash
        /\ [mods EXCEPT ![m] = SpecDone(mods[m], v, e)] \in [Module -> ModuleState]
    BY <1>1, <2>2, HashAfterType, SpecType, ExceptType, KnownStages
  <2>4. mods' \in [Module -> ModuleState]
    BY <1>1, <2>1, <2>3, PublishType
  <2> QED
    BY <1>6, <2>4, ReturnsType DEF SpecReturns
<1>7. CASE SpecFailsReview(m)
  <2>0. PICK v \in NextVersions(m, Contract(mod)) : \E e \in Elicitations(mod, v) :
          mods' = [mods EXCEPT ![m] = SpecUnqualified(mods[m], v, e)]
    BY <1>7 DEF SpecFailsReview
  <2>1. PICK e \in Elicitations(mod, v) :
          mods' = [mods EXCEPT ![m] = SpecUnqualified(mods[m], v, e)]
    BY <2>0
  <2>2. v \in Nat /\ e \in Nat
    BY <1>1, VersionType, ElicitationType
  <2>3. mods' \in [Module -> ModuleState]
    BY <1>1, <2>1, <2>2, SpecType, ExceptType
  <2> QED
    BY <1>7, <2>3, SaveType, NoSnapshotType DEF SpecFailsReview, StageTypes, WorkerState
<1>8. CASE RtlReturns(m)
  <2>1. PICK k \in NextVersions(m, Code(mod)) :
          mods' = Publish([mods EXCEPT ![m] = RtlDone(mods[m], k)], m,
                          HashAfter(mods[m], "rtl_generate", k), seen[m])
    BY <1>8 DEF RtlReturns
  <2>2. k \in Nat
    BY <1>1, VersionType
  <2>3. /\ HashAfter(mods[m], "rtl_generate", k) \in ContentHash
        /\ [mods EXCEPT ![m] = RtlDone(mods[m], k)] \in [Module -> ModuleState]
    BY <1>1, <2>2, HashAfterType, RtlType, ExceptType, KnownStages
  <2>4. mods' \in [Module -> ModuleState]
    BY <1>1, <2>1, <2>3, PublishType
  <2> QED
    BY <1>8, <2>4, ReturnsType DEF RtlReturns
<1>9. CASE CheckReturns(m)
  <2>1. PICK k \in Shipped(m) :
          mods' = [mods EXCEPT ![m] = StageDone(mods[m], StageOf(m), k)]
    BY <1>9 DEF CheckReturns
  <2>2. mods' \in [Module -> ModuleState]
    BY <1>1, <2>1, ShippedType, StageDoneType, ExceptType
  <2> QED
    BY <1>9, <2>2, ReturnsType DEF CheckReturns
<1>10. CASE JudgeReturns(m)
  <2>1. PICK k \in NextVersions(m, Code(mod)), v \in NextVersions(m, Contract(mod)),
             reverify \in {"none", "estimate", "cli"} :
          mods' = [mods EXCEPT ![m] = JudgeDone(mods[m], k, v, reverify)]
    BY <1>10 DEF JudgeReturns
  <2>2. k \in Nat /\ v \in Nat
    BY <1>1, VersionType
  <2>3. mods' \in [Module -> ModuleState]
    BY <1>1, <2>1, <2>2, JudgeType, ExceptType
  <2> QED
    BY <1>10, <2>3, ReturnsType DEF JudgeReturns
<1> QED
  BY StageStep(m), <1>2, <1>3, <1>4, <1>5, <1>6, <1>7, <1>8, <1>9, <1>10 DEF StageStep

LEMMA HashesType ==
  ASSUME StageTypes
  PROVE  Hashes \in [Module -> ContentHash]
  BY DEF StageTypes, Hashes, ModuleState

LEMMA RepairedType ==
  ASSUME StageTypes, NEW k \in NextVersions(Top, Code(mods[Top]))
  PROVE  Repaired(k) \in [Module -> ModuleState]
<1> DEFINE mod == mods[Top]
           data == [mod.slot["rtl_generate"] EXCEPT !.v = k, !.code = k]
<1>1. mods \in [Module -> ModuleState] /\ mod \in ModuleState /\ Top \in Module
  BY ModesAndModules DEF StageTypes
<1>2. k \in Nat
  BY <1>1, ContractType, VersionType
<1>3. "rtl_generate" \in Stage
  BY KnownStages
<1>4. mod.slot["rtl_generate"] \in Artifact
  BY <1>1, <1>3 DEF ModuleState
<1>5. data \in Artifact
  BY <1>2, <1>4 DEF Artifact
<1>6. StageDataSet(mod, "rtl_generate", data) \in ModuleState
  BY <1>1, <1>3, <1>5, DataType
<1>7. Repaired(k) = [mods EXCEPT ![Top] = IF k = Code(mod) THEN mod
                                          ELSE StageDataSet(mod, "rtl_generate", data)]
  BY <1>1 DEF Repaired
<1> HIDE DEF mod, data
<1> QED
  BY <1>1, <1>6, <1>7, ExceptType

LEMMA IntegrationType ==
  ASSUME TypeOK, IntegrationSkips \/ IntegrationFails \/ IntegrationJudges
  PROVE  TypeOK'
<1> USE TypeParts DEF StageTypes, RestTypes, PhaseName
<1>1. CASE IntegrationSkips
  BY <1>1 DEF IntegrationSkips, TypeOK, project
<1>2. CASE IntegrationFails
  <2>1. mods' \in [Module -> ModuleState] /\ lastHashes' \in [Module -> ContentHash]
    BY <1>2, RepairedType, HashesType DEF IntegrationFails
  <2> QED
    BY <1>2, <2>1 DEF IntegrationFails, TypeOK
<1>3. CASE IntegrationJudges
  <2>1. mods' \in [Module -> ModuleState] /\ lastHashes' \in [Module -> ContentHash]
    BY <1>3, RepairedType, HashesType DEF IntegrationJudges
  <2>2. intJudge' \in {"PASS", "FAIL"}
    BY <1>3 DEF IntegrationJudges
  <2> QED
    BY <1>3, <2>1, <2>2 DEF IntegrationJudges, TypeOK
<1> QED
  BY <1>1, <1>2, <1>3

LEMMA LoadType ==
  ASSUME TypeOK, Load, phase' \in PhaseName, exit' \in {"running", "0", "1"},
         runs' \in 1..MaxRuns
  PROVE  TypeOK'
<1>1. ckpt[1] \in [Module -> ModuleState] /\ ckpt[2] \in {"none", "PASS", "FAIL"}
  BY DEF TypeOK
<1>2. 1 \in 1..(Waves + 1) /\ 0 \in 0..MaxReflows /\ 1 \in 1..Len(Walk)
  BY WavesCount, Bounds, RtlPlaceType, WalkIsThePipeline
<1>3. [m \in Module |-> NoSnapshot] \in [Module -> [Module -> [Module -> ContentHash]]]
  BY NoSnapshotType
<1> QED
  BY <1>1, <1>2, <1>3 DEF Load, TypeOK, WorkerState

LEMMA TypeNext ==
  ASSUME TypeOK, [Next]_vars
  PROVE  TypeOK'
<1> USE DEF PhaseName
<1>1. CASE LaunchWave
  <2>1. pc' \in [Module -> WorkerState]
    BY <1>1, EnteredStates DEF LaunchWave, TypeOK, EnteredState, WorkerState
  <2> QED
    BY <1>1, <2>1 DEF LaunchWave, TypeOK, project, integration
<1>2. CASE WaveSettles
  <2>1. wave' \in 1..(Waves + 1)
    BY <1>2, WavesCount DEF WaveSettles, TypeOK
  <2>2. ckpt' \in [Module -> ModuleState] \X IntVerdict
    BY <1>2, SaveType DEF WaveSettles, TypeOK, project, IntVerdict
  <2> QED
    BY <1>2, <2>1, <2>2 DEF WaveSettles, TypeOK, project, integration, IntVerdict
<1>3. ASSUME NEW m \in Module, StageStep(m)
      PROVE  TypeOK'
  <2>1. StageTypes'
    BY <1>3, TypeParts, StepType
  <2>2. UNCHANGED <<phase, wave, integration, exit, runs>>
    BY <1>3 DEF StageStep, SkipStage, BudgetStops, BeginStage, NodeFails, SpecReturns,
                SpecFailsReview, RtlReturns, CheckReturns, JudgeReturns, StageReturns
  <2>3. RestTypes'
    BY <2>2, TypeParts DEF RestTypes, integration, Waves
  <2> QED
    BY <2>1, <2>3 DEF TypeOK, StageTypes, RestTypes, IntVerdict
<1>4. CASE IntegrationSkips \/ IntegrationFails \/ IntegrationJudges
  BY <1>4, IntegrationType
<1>5. CASE StartReflow
  <2>1. target \in Module /\ reflows < MaxReflows /\ reflows \in 0..MaxReflows
    BY <1>5 DEF StartReflow, MayReflow, TypeOK
  <2>2. pc' \in [Module -> WorkerState] /\ at' \in [Module -> 1..Len(Walk)]
    BY <1>5, <2>1, EnteredStates, RtlPlaceType
    DEF StartReflow, TypeOK, EnteredState, WorkerState
  <2>3. reflows' \in 0..MaxReflows
    BY <1>5, <2>1, Bounds DEF StartReflow
  <2> QED
    BY <1>5, <2>2, <2>3 DEF StartReflow, TypeOK, project
<1>6. CASE ReflowSettles
  BY <1>6 DEF ReflowSettles, TypeOK, project, integration
<1>7. CASE Close
  <2>1. ckpt' \in [Module -> ModuleState] \X IntVerdict
    BY <1>7, SaveType DEF Close, TypeOK, project, IntVerdict
  <2> QED
    BY <1>7, <2>1 DEF Close, TypeOK, project, integration, IntVerdict
<1>8. CASE Crash
  BY <1>8, LoadType DEF Crash, TypeOK
<1>9. CASE Resume
  <2>1. runs' \in 1..MaxRuns
    BY <1>9, Bounds DEF Resume, TypeOK
  <2> QED
    BY <1>9, <2>1, LoadType DEF Resume
<1>10. CASE UNCHANGED vars
  BY <1>10 DEF vars, project, walk, integration, TypeOK
<1> QED
  BY <1>1, <1>2, <1>3, <1>4, <1>5, <1>6, <1>7, <1>8, <1>9, <1>10 DEF Next, Progress

\* Every variable keeps its type, whatever the modules, their instances and the
\* pipeline: what the reducer and the stages make of a module state is one again.
THEOREM TypeCorrect == Spec => []TypeOK
<1>1. Init => TypeOK
  BY TypeInit
<1>2. TypeOK /\ [Next]_vars => TypeOK'
  BY TypeNext
<1> QED
  BY <1>1, <1>2, PTL DEF Spec

----
\* The schedule.

LEMMA ControlNext ==
  ASSUME TypeOK, Control, [Next]_vars
  PROVE  Control'
<1>1. CASE LaunchWave
  BY <1>1, ControlLaunch
<1>2. CASE WaveSettles
  BY <1>2, ControlSettles
<1>3. ASSUME NEW m \in Module, StageStep(m)
      PROVE  Control'
  BY <1>3, StageStepMovesWorker, ControlWorker
<1>4. CASE IntegrationSkips \/ IntegrationFails \/ IntegrationJudges
  BY <1>4, ControlIntegration
<1>5. CASE StartReflow
  BY <1>5, ControlReflow DEF TypeOK
<1>6. CASE ReflowSettles \/ Close
  BY <1>6, ControlEnds
<1>7. CASE Crash \/ Resume
  BY <1>7, ControlLoad DEF Crash, Resume
<1>8. CASE UNCHANGED vars
  <2>1. UNCHANGED <<phase, wave, pc, target>>
    BY <1>8 DEF vars, walk, integration
  <2> QED
    BY <2>1 DEF Control, WalkShape, AllOk, ReflowShape, Quiet, Active, InWave, Waves
<1> QED
  BY <1>1, <1>2, <1>3, <1>4, <1>5, <1>6, <1>7, <1>8 DEF Next, Progress

THEOREM ControlInvariant == Spec => []Control
<1>1. Init => TypeOK /\ Control
  BY TypeInit, ControlInit
<1>2. TypeOK /\ Control /\ [Next]_vars => (TypeOK /\ Control)'
  BY TypeNext, ControlNext
<1> QED
  BY <1>1, <1>2, PTL DEF Spec

\* Workers that are active together share a wave, or are one.
LEMMA ControlSeparates ==
  ASSUME Control
  PROVE  NoRelatedWorkers
<1> SUFFICES ASSUME NEW m \in Module, NEW n \in Module, Active(m), Active(n),
                    n \in Descendants(m)
             PROVE  FALSE
  BY DEF NoRelatedWorkers
<1>1. Level[n] < Level[m] /\ Level[m] \in Nat /\ Level[n] \in Nat
  BY DescendantsAreBelow, LevelsFollowInst
<1>2. phase = "walk" \/ phase = "reflow"
  BY DEF Control, PhaseName, AllOk, Quiet, Active
<1>3. CASE phase = "walk"
  <2>1. m \in InWave(wave) /\ n \in InWave(wave) /\ wave \in 1..Waves
    BY <1>3, ActiveInWave DEF Active, Control, WalkShape
  <2>2. Level[m] = Level[n]
    BY <2>1 DEF InWave
  <2> QED
    BY <1>1, <2>2
<1>4. CASE phase = "reflow"
  <2>1. m = n
    BY <1>4 DEF Control, ReflowShape, Active
  <2> QED
    BY <1>1, <2>1
<1> QED
  BY <1>2, <1>3, <1>4

\* No module is ever at work together with one it instantiates, directly or not,
\* whatever the acyclic instance relation: in a diamond as in a tree, with one
\* module at a time or in waves, in reflows and after crashes.
THEOREM NoRelatedWorkersAtOnce == Spec => []NoRelatedWorkers
<1>1. Control => NoRelatedWorkers
  BY ControlSeparates
<1> QED
  BY <1>1, ControlInvariant, PTL

----
\* Refinement of DependencyWalk.

LEMMA ShownStates ==
  /\ Shown("off") = "waiting" /\ Shown("ok") = "finished" /\ Shown("failed") = "failed"
  /\ Shown("between") = "running" /\ Shown("invoking") = "running"
  BY DEF Shown

\* Where the mapped state comes from.
LEMMA WalkStates ==
  ASSUME pc \in [Module -> WorkerState], NEW m \in Module
  PROVE  /\ WalkState[m] = Shown(pc[m])
         /\ WalkState[m] = "waiting" <=> pc[m] = "off"
         /\ WalkState[m] = "finished" <=> pc[m] = "ok"
         /\ WalkState[m] = "running" <=> Active(m)
  BY ShownStates DEF WalkState, WorkerState, Active

LEMMA EnteringStates ==
  ASSUME NEW x \in EnteredState
  PROVE  Shown(x) \in DW!Entering
  BY ShownStates DEF EnteredState, DW!Entering

LEMMA RefinesInit == Init => DW!Init
  BY ShownStates DEF Init, DW!Init, WalkState

LEMMA RefinesLaunch ==
  ASSUME Control, LaunchWave
  PROVE  DW!Start
<1> DEFINE S == InWave(wave)
           e == [m \in S |-> Shown(Entered(m))]
<1>1. WalkShape /\ S \subseteq Module /\ pc \in [Module -> WorkerState]
  BY WaveInModule DEF Control, LaunchWave, WalkShape
<1>2. \A m \in S : pc[m] = "off"
  BY DEF LaunchWave
<1>3. S \in SUBSET {m \in Module : WalkState[m] = "waiting"}
  BY <1>1, <1>2, WalkStates
<1>4. \A m \in Module : WalkState[m] \in {"waiting", "finished"}
  <2> SUFFICES ASSUME NEW m \in Module PROVE pc[m] \in {"off", "ok"}
    BY <1>1, WalkStates
  <2> QED
    BY <1>2, ActiveInWave DEF LaunchWave
<1>5. \A m \in S : \A c \in DW!Children(m) : WalkState[c] = "finished"
  <2> SUFFICES ASSUME NEW m \in S, NEW c \in Children(m)
               PROVE  pc[c] = "ok" /\ c \in Module
    BY <1>1, WalkStates DEF DW!Children, Children
  <2>1. c \in Module
    BY DEF Children
  <2>2. PICK v \in 1..Waves : c \in InWave(v)
    BY <2>1, WaveOfModule
  <2>3. v < wave
    BY <1>1, <2>2, ChildrenFirst DEF WalkShape
  <2> QED
    BY <1>1, <2>1, <2>2, <2>3 DEF WalkShape
<1>6. e \in [S -> DW!Entering]
  BY <1>1, EnteredStates, EnteringStates
<1>7. WalkState' = [m \in Module |-> IF m \in S THEN e[m] ELSE WalkState[m]]
  BY DEF LaunchWave, WalkState
<1> HIDE DEF S, e
<1> QED
  BY <1>3, <1>4, <1>5, <1>6, <1>7 DEF DW!Start

LEMMA RefinesWorker ==
  ASSUME pc \in [Module -> WorkerState], NEW m \in Module, WorkerStep(m)
  PROVE  DW!Finish \/ WalkState' = WalkState
<1>1. PICK x \in EnteredState : pc' = [pc EXCEPT ![m] = x]
  BY DEF WorkerStep
<1>2. WalkState[m] = "running"
  BY WalkStates DEF WorkerStep
<1>3. WalkState' = [WalkState EXCEPT ![m] = Shown(x)]
  BY <1>1 DEF WalkState
<1>4. CASE Shown(x) = "running"
  BY <1>2, <1>3, <1>4 DEF WalkState
<1>5. CASE Shown(x) # "running"
  <2>1. Shown(x) \in {"finished", "failed"} /\ m \in DW!Running
    BY <1>2, <1>5, ShownStates DEF EnteredState, DW!Running
  <2> QED
    BY <1>3, <2>1 DEF DW!Finish
<1> QED
  BY <1>4, <1>5

LEMMA RefinesReflow ==
  ASSUME Control, target \in Module \union {NoModule}, StartReflow
  PROVE  DW!Rerun
<1>1. AllOk /\ target \in Module /\ pc' = [pc EXCEPT ![target] = Entered(target)]
  BY DEF Control, StartReflow, MayReflow
<1>2. \A m \in Module : WalkState[m] = "finished"
  BY <1>1, WalkStates DEF AllOk, Control
<1>3. Shown(Entered(target)) \in DW!Entering
  BY <1>1, EnteredStates, EnteringStates
<1>4. WalkState' = [WalkState EXCEPT ![target] = Shown(Entered(target))]
  BY <1>1 DEF WalkState, Control
<1> QED
  BY <1>1, <1>2, <1>3, <1>4 DEF DW!Rerun

LEMMA RefinesNext ==
  ASSUME TypeOK, Control, [Next]_vars
  PROVE  DW!Next \/ WalkState' = WalkState
<1>1. CASE LaunchWave
  BY <1>1, RefinesLaunch DEF DW!Next
<1>2. ASSUME NEW m \in Module, StageStep(m)
      PROVE  DW!Next \/ WalkState' = WalkState
  BY <1>2, StageStepMovesWorker, RefinesWorker DEF DW!Next, Control
<1>3. CASE StartReflow
  BY <1>3, RefinesReflow DEF DW!Next, TypeOK
<1>4. CASE Crash \/ Resume
  <2>1. pc' = [m \in Module |-> "off"]
    BY <1>4 DEF Crash, Resume, Load
  <2> QED
    BY <2>1, ShownStates DEF WalkState, DW!Next, DW!Restart
<1>5. CASE \/ WaveSettles \/ IntegrationSkips \/ IntegrationFails \/ IntegrationJudges
           \/ ReflowSettles \/ Close \/ UNCHANGED vars
  <2>1. pc' = pc
    BY <1>5 DEF WaveSettles, IntegrationSkips, IntegrationFails, IntegrationJudges,
                ReflowSettles, Close, vars, walk
  <2> QED
    BY <2>1 DEF WalkState
<1> QED
  BY <1>1, <1>2, <1>3, <1>4, <1>5 DEF Next, Progress

\* The walk in order, or in waves, with its reflows and resumes, implements the
\* dependency-ordered walk.
THEOREM WalkImplementsDependencyOrder == Spec => WalksInOrder
<1>1. Init => DW!Init
  BY RefinesInit
<1>2. TypeOK /\ Control /\ [Next]_vars => [DW!Next]_WalkState
  BY RefinesNext
<1> QED
  BY <1>1, <1>2, TypeCorrect, ControlInvariant, PTL DEF Spec, WalksInOrder, DW!Spec

----
\* The hashes of the children, module by module.

\* What no stage touches of its own module's state, and no repair.
SameHashes(r, mod) == r.contentHash = mod.contentHash /\ r.childHashes = mod.childHashes

LEMMA SlotKeepsHashes ==
  ASSUME NEW mod \in ModuleState, NEW s \in Stage, NEW data \in Artifact
  PROVE  /\ SameHashes(StageDataSet(mod, s, data), mod)
         /\ SameHashes(StageDataMerge(mod, s, data), mod)
<1>1. ASSUME NEW r, NEW x, r = [mod EXCEPT !.slot[s] = x]
      PROVE  /\ r.contentHash = mod.contentHash /\ r.childHashes = mod.childHashes
             /\ \A S : /\ MarkStale(r, S).contentHash = mod.contentHash
                       /\ MarkStale(r, S).childHashes = mod.childHashes
  BY <1>1 DEF MarkStale, ModuleState
<1> QED
  BY <1>1 DEF SameHashes, StageDataSet, StageDataMerge, invalidateContractDependents

LEMMA MarksKeepHashes ==
  ASSUME NEW mod \in ModuleState, NEW s \in Stage
  PROVE  /\ SameHashes(StageComplete(mod, s), mod)
         /\ SameHashes(StageUncomplete(mod, s), mod)
         /\ SameHashes(StageErrorSet(mod, s), mod)
         /\ SameHashes(StageErrorClear(mod, s), mod)
  BY DEF SameHashes, StageComplete, StageUncomplete, StageErrorSet, StageErrorClear, ModuleState

LEMMA SpecKeepsHashes ==
  ASSUME NEW mod \in ModuleState, NEW v \in Nat, NEW e \in Nat
  PROVE  SameHashes(SpecDone(mod, v, e), mod) /\ SameHashes(SpecUnqualified(mod, v, e), mod)
<1> DEFINE set == StageDataSet(mod, "spec", Made(v, v, 0))
           merged == StageDataMerge(set, "elicit", Made(e, 0, 0))
<1>1. "spec" \in Stage /\ "elicit" \in Stage
  BY KnownStages
<1>2. Made(v, v, 0) \in Artifact /\ Made(e, 0, 0) \in Artifact
  BY MadeType
<1>3. set \in ModuleState /\ SameHashes(set, mod)
  BY <1>1, <1>2, DataType, SlotKeepsHashes
<1>4. SpecArtifacts(mod, v, e) \in {set, StageComplete(merged, "elicit")}
  BY DEF SpecArtifacts
<1> HIDE DEF set
<1>5. merged \in ModuleState /\ SameHashes(merged, set)
  BY <1>1, <1>2, <1>3, DataType, SlotKeepsHashes
<1> DEFINE r == SpecArtifacts(mod, v, e)
<1>6. r \in ModuleState /\ SameHashes(r, mod)
  <2> DEFINE d == StageComplete(merged, "elicit")
  <2>1. d \in ModuleState /\ SameHashes(d, merged)
    BY <1>1, <1>5, CompletedType, MarksKeepHashes
  <2> HIDE DEF d, merged
  <2>2. SameHashes(d, mod)
    BY <1>3, <1>5, <2>1 DEF SameHashes
  <2>3. r = set \/ r = d
    BY <1>4 DEF d
  <2> HIDE DEF r
  <2> QED
    BY <1>3, <2>1, <2>2, <2>3
<1> DEFINE u == StageUncomplete(r, "spec")
<1>7. SpecDone(mod, v, e) = StageComplete(r, "spec")
  BY DEF SpecDone, Completed
<1>8. SpecUnqualified(mod, v, e) = StageErrorSet(u, "spec")
  BY DEF SpecUnqualified
<1> HIDE DEF r
<1>9. SameHashes(StageComplete(r, "spec"), r) /\ SameHashes(u, r) /\ u \in ModuleState
  BY <1>1, <1>6, CompletedType, MarksKeepHashes
<1> HIDE DEF u
<1>10. SameHashes(StageErrorSet(u, "spec"), u)
  BY <1>1, <1>9, MarksKeepHashes
<1> QED
  BY <1>6, <1>7, <1>8, <1>9, <1>10 DEF SameHashes

LEMMA RtlKeepsHashes ==
  ASSUME NEW mod \in ModuleState, NEW k \in Nat
  PROVE  SameHashes(RtlDone(mod, k), mod)
<1> DEFINE r == StageDataSet(mod, "rtl_generate", Made(k, Contract(mod), k))
<1>1. "rtl_generate" \in Stage /\ Made(k, Contract(mod), k) \in Artifact
  BY KnownStages, MadeType, ContractType
<1>2. r \in ModuleState /\ SameHashes(r, mod)
  BY <1>1, DataType, SlotKeepsHashes
<1>3. RtlDone(mod, k) = StageComplete(r, "rtl_generate")
  BY DEF RtlDone, Completed
<1> HIDE DEF r
<1> QED
  BY <1>1, <1>2, <1>3, MarksKeepHashes DEF SameHashes

LEMMA MirrorKeepsHashes ==
  ASSUME NEW mod \in ModuleState, NEW k \in Nat, NEW v \in Nat
  PROVE  SameHashes(Mirrored(mod, k, v), mod)
<1>1. "rtl_generate" \in Stage /\ Made(k, v, k) \in Artifact
  BY KnownStages, MadeType
<1> QED
  BY <1>1, SlotKeepsHashes DEF Mirrored, SameHashes

LEMMA StageKeepsHashes ==
  ASSUME NEW mod \in ModuleState, NEW s \in Stage, NEW k \in Nat
  PROVE  SameHashes(StageDone(mod, s, k), mod)
<1> DEFINE set == StageDataSet(mod, s, Made(1, Contract(mod), k))
           r == Mirrored(set, k, Contract(mod))
<1>1. Made(1, Contract(mod), k) \in Artifact /\ Contract(mod) \in Nat
  BY MadeType, ContractType
<1>2. set \in ModuleState /\ SameHashes(set, mod)
  BY <1>1, DataType, SlotKeepsHashes
<1>3. StageDone(mod, s, k) = StageComplete(r, s)
  BY DEF StageDone, Completed
<1> HIDE DEF set
<1>4. r \in ModuleState /\ SameHashes(r, set)
  BY <1>1, <1>2, MirroredType, MirrorKeepsHashes
<1> HIDE DEF r
<1> QED
  BY <1>2, <1>3, <1>4, MarksKeepHashes DEF SameHashes

LEMMA JudgeKeepsHashes ==
  ASSUME NEW mod \in ModuleState, NEW k \in Nat, NEW v \in Nat, NEW reverify
  PROVE  SameHashes(JudgeDone(mod, k, v, reverify), mod)
<1> DEFINE verify   == Made(1, v, k)
           set      == StageDataSet(mod, "judge", verify)
           judged   == Mirrored(set, k, v)
           verified == IF reverify = "none" THEN judged
                       ELSE StageDataMerge(judged, "verify", verify)
           revised  == StageDataMerge(verified, "spec", Made(v, v, 0))
           final    == IF reverify = "cli" THEN StageDataSet(revised, "verify", verify)
                       ELSE revised
<1>1. "judge" \in Stage /\ "verify" \in Stage /\ "spec" \in Stage
  BY KnownStages
<1>2. verify \in Artifact /\ Made(v, v, 0) \in Artifact
  BY MadeType
<1>3. JudgeDone(mod, k, v, reverify) = StageComplete(final, "judge")
  BY DEF JudgeDone, Completed
<1> HIDE DEF verify
<1>4. set \in ModuleState /\ SameHashes(set, mod)
  BY <1>1, <1>2, DataType, SlotKeepsHashes
<1> HIDE DEF set
<1>5. judged \in ModuleState /\ SameHashes(judged, set)
  BY <1>4, MirroredType, MirrorKeepsHashes
<1> HIDE DEF judged
<1>6. verified \in ModuleState /\ SameHashes(verified, judged)
  BY <1>1, <1>2, <1>5, DataType, SlotKeepsHashes DEF SameHashes
<1> HIDE DEF verified
<1>7. revised \in ModuleState /\ SameHashes(revised, verified)
  BY <1>1, <1>2, <1>6, DataType, SlotKeepsHashes
<1> HIDE DEF revised
<1>8. final \in ModuleState /\ SameHashes(final, revised)
  BY <1>1, <1>2, <1>7, DataType, SlotKeepsHashes DEF SameHashes
<1> HIDE DEF final
<1> QED
  BY <1>1, <1>3, <1>4, <1>5, <1>6, <1>7, <1>8, MarksKeepHashes DEF SameHashes

LEMMA RepairKeepsHashes ==
  ASSUME NEW mod \in ModuleState, NEW k \in Nat
  PROVE  SameHashes(StageDataSet(mod, "rtl_generate",
                      [mod.slot["rtl_generate"] EXCEPT !.v = k, !.code = k]), mod)
<1>1. "rtl_generate" \in Stage
  BY KnownStages
<1>2. [mod.slot["rtl_generate"] EXCEPT !.v = k, !.code = k] \in Artifact
  BY <1>1 DEF ModuleState, Artifact
<1> QED
  BY <1>1, <1>2, SlotKeepsHashes

----
\* A walk module by module keeps every parent's record.

\* No module that is imported is instantiated: nothing published its hash.
OneAtATime == ~ Parallel /\ \A m \in Imported : Parents(m) = {}

HashesCurrent(ms) ==
  \A p \in Module : \A c \in Children(p) : ms[p].childHashes[c] = ms[c].contentHash

\* In memory and in the checkpoint the records are current, and so is what a worker
\* has read of its parents.
HashInv ==
  /\ HashesCurrent(mods)
  /\ HashesCurrent(ckpt[1])
  /\ \A m \in Module : pc[m] = "invoking" => seen[m] = ParentHashes(mods, m, StageOf(m))

LEMMA OneActive ==
  ASSUME OneAtATime, Control, NEW m \in Module, NEW n \in Module, Active(m), Active(n)
  PROVE  m = n
<1>1. phase = "walk" \/ phase = "reflow"
  BY DEF Control, PhaseName, AllOk, Quiet, Active
<1>2. CASE phase = "walk"
  <2>1. m \in InWave(wave) /\ n \in InWave(wave)
    BY <1>2, ActiveInWave DEF Active
  <2> QED
    BY <2>1 DEF InWave, OneAtATime
<1>3. CASE phase = "reflow"
  BY <1>3 DEF Control, ReflowShape, Active
<1> QED
  BY <1>1, <1>2, <1>3

\* Nothing is its own parent.
LEMMA NotOwnParent ==
  ASSUME NEW m \in Module
  PROVE  m \notin Parents(m)
<1>1. ASSUME <<m, m>> \in Inst PROVE FALSE
  <2>1. Level[m] > Level[m]
    BY <1>1, LevelsFollowInst
  <2> QED
    BY <2>1, LevelsFollowInst
<1> QED
  BY <1>1 DEF Parents

LEMMA HashesReplaced ==
  ASSUME NEW ms \in [Module -> ModuleState], HashesCurrent(ms), NEW m \in Module,
         NEW r, SameHashes(r, ms[m])
  PROVE  /\ HashesCurrent([ms EXCEPT ![m] = r])
         /\ \A n \in Module : SameHashes([ms EXCEPT ![m] = r][n], ms[n])
<1> DEFINE new == [ms EXCEPT ![m] = r]
<1>1. \A n \in Module : SameHashes(new[n], ms[n])
  BY DEF SameHashes
<1> HIDE DEF new
<1>2. HashesCurrent(new)
  BY <1>1 DEF HashesCurrent, SameHashes, Children
<1> QED
  BY <1>1, <1>2 DEF new

\* A publication on what the parents' records are now.
LEMMA HashesPublished ==
  ASSUME NEW ms \in [Module -> ModuleState], HashesCurrent(ms), NEW m \in Module,
         NEW r \in ModuleState, SameHashes(r, ms[m]), NEW h, NEW snapshot,
         \A p \in Parents(m) : snapshot[p] = ms[p].childHashes
  PROVE  HashesCurrent(Publish([ms EXCEPT ![m] = r], m, h, snapshot))
<1> DEFINE base == [ms EXCEPT ![m] = r]
           new == Publish(base, m, h, snapshot)
<1>1. base \in [Module -> ModuleState] /\ HashesCurrent(base)
  BY ExceptType, HashesReplaced
<1>2. \A p \in Parents(m) : p \in Module /\ snapshot[p] = base[p].childHashes
  BY NotOwnParent DEF Parents
<1> HIDE DEF base
<1>3. \A n \in Module : /\ base[n] \in ModuleState
                        /\ base[n].childHashes \in [Module -> ContentHash]
  BY <1>1 DEF ModuleState
<1>4. ASSUME NEW n \in Module
      PROVE  new[n].contentHash = IF n = m THEN h ELSE base[n].contentHash
  BY <1>3, NotOwnParent DEF Publish, ContentHashSet, ChildHashesSet, ModuleState
<1>5. ASSUME NEW n \in Module
      PROVE  new[n].childHashes = IF n \in Parents(m) THEN [base[n].childHashes EXCEPT ![m] = h]
                                  ELSE base[n].childHashes
  BY <1>2, <1>3, NotOwnParent DEF Publish, ContentHashSet, ChildHashesSet, ModuleState
<1> HIDE DEF new
<1>6. ASSUME NEW p \in Module, NEW c \in Children(p)
      PROVE  new[p].childHashes[c] = new[c].contentHash
  <2>1. c \in Module /\ base[p].childHashes[c] = base[c].contentHash
    BY <1>1 DEF HashesCurrent, Children
  <2>2. CASE c = m
    <3>1. p \in Parents(m)
      BY <2>2 DEF Parents, Children
    <3> QED
      BY <1>3, <1>4, <1>5, <2>2, <3>1
  <2>3. CASE c # m
    BY <1>3, <1>4, <1>5, <2>1, <2>3
  <2> QED
    BY <2>2, <2>3
<1> QED
  BY <1>6 DEF HashesCurrent, new, base

LEMMA SavedHashes ==
  ASSUME HashInv, ckpt' = ckpt \/ Save, HashesCurrent(mods')
  PROVE  HashesCurrent(ckpt'[1])
  BY DEF HashInv, Save, project

\* A worker that ends its stage: no other is active, so nothing it read can be stale.
LEMMA HashLeaves ==
  ASSUME OneAtATime, Control, StageTypes, HashInv, NEW m \in Module, Active(m),
         HashesCurrent(mods'), ckpt' = ckpt \/ Save,
         NEW x \in {"between", "ok", "failed"}, pc' = [pc EXCEPT ![m] = x]
  PROVE  HashInv'
<1>1. HashesCurrent(ckpt'[1])
  BY SavedHashes
<1>2. ASSUME NEW n \in Module PROVE pc'[n] # "invoking"
  <2>1. CASE n = m
    BY <2>1 DEF StageTypes
  <2>2. CASE n # m
    BY <2>2, OneActive DEF StageTypes, Active
  <2> QED
    BY <2>1, <2>2
<1> QED
  BY <1>1, <1>2 DEF HashInv, HashesCurrent, Children

LEMMA HashSteps ==
  ASSUME OneAtATime, Control, StageTypes, HashInv, NEW m \in Module, StageStep(m)
  PROVE  HashInv'
<1> DEFINE mod == mods[m]
<1>1. /\ mods \in [Module -> ModuleState] /\ mod \in ModuleState /\ StageOf(m) \in Stage
      /\ Contract(mod) \in Nat /\ Code(mod) \in Nat /\ HashesCurrent(mods)
  <2>1. mods \in [Module -> ModuleState] /\ mod \in ModuleState /\ HashesCurrent(mods)
    BY DEF StageTypes, HashInv
  <2> QED
    BY <2>1, ContractType, StageOfType
<1>2. Active(m)
  BY StageStepMovesWorker DEF WorkerStep
<1>3. ASSUME AfterStage(m)
      PROVE  \E x \in {"between", "ok", "failed"} : pc' = [pc EXCEPT ![m] = x]
  BY <1>3 DEF AfterStage
<1>4. ASSUME NEW r, SameHashes(r, mod), mods' = [mods EXCEPT ![m] = r]
      PROVE  /\ HashesCurrent(mods')
             /\ \A n \in Module : SameHashes(mods'[n], mods[n])
  BY <1>1, <1>4, HashesReplaced
<1>5. ASSUME pc[m] = "invoking", StageOf(m) \in {"spec", "rtl_generate"},
             NEW r \in ModuleState, SameHashes(r, mod), NEW h,
             mods' = Publish([mods EXCEPT ![m] = r], m, h, seen[m])
      PROVE  HashesCurrent(mods')
  <2>1. \A p \in Parents(m) : seen[m][p] = mods[p].childHashes
    BY <1>5 DEF HashInv, ParentHashes, Parents
  <2> QED
    BY <1>1, <1>5, <2>1, HashesPublished
<1> HIDE DEF mod
<1>6. CASE SkipStage(m)
  <2>1. HashesCurrent(mods')
    BY <1>1, <1>6 DEF SkipStage, project
  <2> QED
    BY <1>2, <1>3, <1>6, <2>1, HashLeaves DEF SkipStage
<1>7. CASE BudgetStops(m) \/ NodeFails(m)
  <2>1. PICK r : SameHashes(r, mod) /\ mods' = [mods EXCEPT ![m] = r]
    <3>1. SameHashes(StageErrorSet(mod, StageOf(m)), mod) /\ SameHashes(mod, mod)
      BY <1>1, MarksKeepHashes DEF SameHashes
    <3>2. mods = [mods EXCEPT ![m] = mod]
      BY <1>1 DEF mod
    <3>3. mods' \in {mods, [mods EXCEPT ![m] = StageErrorSet(mod, StageOf(m))]}
      BY <1>7 DEF BudgetStops, NodeFails, mod
    <3> QED
      BY <3>1, <3>2, <3>3
  <2>2. HashesCurrent(mods')
    BY <1>4, <2>1
  <2>3. pc' = [pc EXCEPT ![m] = "failed"] /\ Save
    BY <1>7 DEF BudgetStops, NodeFails
  <2> QED
    BY <1>2, <2>2, <2>3, HashLeaves
<1>8. CASE BeginStage(m)
  <2> DEFINE r == StageErrorClear(mod, StageOf(m))
  <2>1. /\ mods' = [mods EXCEPT ![m] = r] /\ pc' = [pc EXCEPT ![m] = "invoking"]
        /\ seen' = [seen EXCEPT ![m] = ParentHashes(mods, m, StageOf(m))]
        /\ UNCHANGED <<ckpt, at>>
    BY <1>8 DEF BeginStage, mod
  <2>2. SameHashes(r, mod)
    BY <1>1, MarksKeepHashes
  <2> HIDE DEF r
  <2>3. HashesCurrent(mods') /\ \A n \in Module : SameHashes(mods'[n], mods[n])
    BY <1>4, <2>1, <2>2
  <2>4. ParentHashes(mods', m, StageOf(m)) = ParentHashes(mods, m, StageOf(m))
    BY <2>3 DEF ParentHashes, SameHashes
  <2>5. ASSUME NEW n \in Module, pc'[n] = "invoking"
        PROVE  seen'[n] = ParentHashes(mods', n, StageOf(n)')
    <3>1. n = m
      <4>1. n # m => Active(n)
        BY <2>1, <2>5 DEF Active, StageTypes
      <4> QED
        BY <1>2, <4>1, OneActive
    <3>2. StageOf(n)' = StageOf(m)
      BY <2>1, <3>1 DEF StageOf
    <3> QED
      BY <2>1, <2>4, <3>1, <3>2 DEF StageTypes
  <2>6. HashesCurrent(ckpt'[1])
    BY <2>1 DEF HashInv
  <2> QED
    BY <2>3, <2>5, <2>6 DEF HashInv, HashesCurrent, Children
<1>9. CASE SpecReturns(m) \/ SpecFailsReview(m)
  <2>1. ASSUME NEW v \in NextVersions(m, Contract(mod)), NEW e \in Elicitations(mod, v)
        PROVE  /\ SpecDone(mod, v, e) \in ModuleState
               /\ SameHashes(SpecDone(mod, v, e), mod)
               /\ SameHashes(SpecUnqualified(mod, v, e), mod)
    <3>1. v \in Nat /\ e \in Nat
      BY <1>1, VersionType, ElicitationType
    <3> QED
      BY <1>1, <3>1, SpecType, SpecKeepsHashes
  <2>2. CASE SpecReturns(m)
    <3>0. PICK v \in NextVersions(m, Contract(mod)) : \E e \in Elicitations(mod, v) :
            mods' = Publish([mods EXCEPT ![m] = SpecDone(mod, v, e)], m,
                            HashAfter(mod, "spec", v), seen[m])
      BY <2>2 DEF SpecReturns, mod
    <3>1. PICK e \in Elicitations(mod, v) :
            mods' = Publish([mods EXCEPT ![m] = SpecDone(mod, v, e)], m,
                            HashAfter(mod, "spec", v), seen[m])
      BY <3>0
    <3>2. pc[m] = "invoking" /\ StageOf(m) = "spec" /\ AfterStage(m) /\ Save
      BY <2>2 DEF SpecReturns, StageReturns
    <3>3. HashesCurrent(mods')
      BY <1>5, <2>1, <3>1, <3>2
    <3> QED
      BY <1>2, <1>3, <3>2, <3>3, HashLeaves
  <2>3. CASE SpecFailsReview(m)
    <3>0. PICK v \in NextVersions(m, Contract(mod)) : \E e \in Elicitations(mod, v) :
            mods' = [mods EXCEPT ![m] = SpecUnqualified(mod, v, e)]
      BY <2>3 DEF SpecFailsReview, mod
    <3>1. HashesCurrent(mods')
      BY <1>4, <2>1, <3>0
    <3>2. pc' = [pc EXCEPT ![m] = "failed"] /\ Save
      BY <2>3 DEF SpecFailsReview
    <3> QED
      BY <1>2, <3>1, <3>2, HashLeaves
  <2> QED
    BY <1>9, <2>2, <2>3
<1>10. CASE RtlReturns(m)
  <2>1. PICK k \in NextVersions(m, Code(mod)) :
          mods' = Publish([mods EXCEPT ![m] = RtlDone(mod, k)], m,
                          HashAfter(mod, "rtl_generate", k), seen[m])
    BY <1>10 DEF RtlReturns, mod
  <2>2. RtlDone(mod, k) \in ModuleState /\ SameHashes(RtlDone(mod, k), mod)
    BY <1>1, VersionType, RtlType, RtlKeepsHashes
  <2>3. pc[m] = "invoking" /\ StageOf(m) = "rtl_generate" /\ AfterStage(m) /\ Save
    BY <1>10 DEF RtlReturns, StageReturns
  <2>4. HashesCurrent(mods')
    BY <1>5, <2>1, <2>2, <2>3
  <2> QED
    BY <1>2, <1>3, <2>3, <2>4, HashLeaves
<1>11. CASE CheckReturns(m)
  <2>1. PICK k \in Shipped(m) : mods' = [mods EXCEPT ![m] = StageDone(mod, StageOf(m), k)]
    BY <1>11 DEF CheckReturns, mod
  <2>2. k \in Nat
    BY <1>1, ShippedType DEF mod
  <2>3. HashesCurrent(mods')
    BY <1>1, <1>4, <2>1, <2>2, StageKeepsHashes
  <2>4. AfterStage(m) /\ Save
    BY <1>11 DEF CheckReturns, StageReturns
  <2> QED
    BY <1>2, <1>3, <2>3, <2>4, HashLeaves
<1>12. CASE JudgeReturns(m)
  <2>1. PICK k \in NextVersions(m, Code(mod)), v \in NextVersions(m, Contract(mod)),
             reverify \in {"none", "estimate", "cli"} :
          mods' = [mods EXCEPT ![m] = JudgeDone(mod, k, v, reverify)]
    BY <1>12 DEF JudgeReturns, mod
  <2>2. k \in Nat /\ v \in Nat
    BY <1>1, VersionType
  <2>3. HashesCurrent(mods')
    BY <1>1, <1>4, <2>1, <2>2, JudgeKeepsHashes
  <2>4. AfterStage(m) /\ Save
    BY <1>12 DEF JudgeReturns, StageReturns
  <2> QED
    BY <1>2, <1>3, <2>3, <2>4, HashLeaves
<1> QED
  BY StageStep(m), <1>6, <1>7, <1>8, <1>9, <1>10, <1>11, <1>12 DEF StageStep

LEMMA HashIntegration ==
  ASSUME Control, StageTypes, HashInv,
         IntegrationSkips \/ IntegrationFails \/ IntegrationJudges
  PROVE  HashInv'
<1> DEFINE mod == mods[Top]
<1>1. /\ mods \in [Module -> ModuleState] /\ mod \in ModuleState /\ Code(mod) \in Nat
      /\ Top \in Module /\ HashesCurrent(mods)
  <2>1. mods \in [Module -> ModuleState] /\ mod \in ModuleState /\ HashesCurrent(mods)
    BY ModesAndModules DEF StageTypes, HashInv
  <2> QED
    BY <2>1, ContractType, ModesAndModules
<1>2. /\ UNCHANGED <<ckpt, pc>>
      /\ phase = "integrate"
      /\ \/ mods' = mods
         \/ \E k \in NextVersions(Top, Code(mod)) : mods' = Repaired(k)
  BY DEF IntegrationSkips, IntegrationFails, IntegrationJudges, project
<1>3. HashesCurrent(mods')
  <2>1. CASE mods' = mods
    BY <1>1, <2>1
  <2>2. CASE mods' # mods
    <3>1. PICK k \in NextVersions(Top, Code(mod)) : mods' = Repaired(k)
      BY <1>2, <2>2
    <3>2. PICK r : SameHashes(r, mod) /\ mods' = [mods EXCEPT ![Top] = r]
      <4> DEFINE repaired == StageDataSet(mod, "rtl_generate",
                               [mod.slot["rtl_generate"] EXCEPT !.v = k, !.code = k])
      <4>1. SameHashes(repaired, mod) /\ SameHashes(mod, mod)
        BY <1>1, VersionType, RepairKeepsHashes DEF SameHashes
      <4>2. Repaired(k) = [mods EXCEPT ![Top] = IF k = Code(mod) THEN mod ELSE repaired]
        BY <1>1 DEF Repaired
      <4> HIDE DEF repaired, mod
      <4> QED
        BY <3>1, <4>1, <4>2
    <3> QED
      BY <1>1, <3>2, HashesReplaced
  <2> QED
    BY <2>1, <2>2
<1>4. \A n \in Module : pc'[n] = "ok"
  BY <1>2 DEF Control, AllOk
<1> QED
  BY <1>2, <1>3, <1>4 DEF HashInv, HashesCurrent, Children

LEMMA HashInit ==
  ASSUME OneAtATime, Init
  PROVE  HashInv
<1>1. /\ mods = [m \in Module |-> seededModule(m)] /\ ckpt[1] = mods
      /\ \A m \in Module : pc[m] = "off"
  BY DEF Init, project
<1>2. \A m \in Module : seededModule(m).childHashes = [c \in Module |-> NoHash]
  BY DEF seededModule, blankModule
<1>3. ASSUME NEW p \in Module, NEW c \in Children(p)
      PROVE  c \in Module /\ seededModule(c).contentHash = NoHash
  <2>1. c \in Module /\ p \in Parents(c)
    BY DEF Children, Parents
  <2>2. c \notin Imported
    BY <2>1 DEF OneAtATime
  <2> QED
    BY <2>1, <2>2 DEF seededModule, blankModule
<1> QED
  BY <1>1, <1>2, <1>3 DEF HashInv, HashesCurrent

LEMMA HashNext ==
  ASSUME OneAtATime, TypeOK, Control, HashInv, [Next]_vars
  PROVE  HashInv'
<1> USE DEF HashesCurrent, Children
<1>1. CASE LaunchWave \/ StartReflow
  <2>1. UNCHANGED <<mods, ckpt, seen>>
    BY <1>1 DEF LaunchWave, StartReflow, project
  <2>2. ASSUME NEW n \in Module PROVE pc'[n] # "invoking"
    <3>1. pc[n] # "invoking"
      <4>1. CASE StartReflow
        BY <4>1 DEF StartReflow, Control, AllOk
      <4>2. CASE LaunchWave
        BY <4>2, ActiveInWave DEF LaunchWave
      <4> QED
        BY <1>1, <4>1, <4>2
    <3>2. \A q \in Module : Entered(q) # "invoking"
      BY DEF Entered
    <3>3. StartReflow => target \in Module
      BY DEF StartReflow, MayReflow, TypeOK
    <3> QED
      BY <1>1, <3>1, <3>2, <3>3 DEF LaunchWave, StartReflow, TypeOK
  <2> QED
    BY <2>1, <2>2 DEF HashInv
<1>2. CASE WaveSettles \/ Close
  <2>1. UNCHANGED <<mods, pc, at, seen>> /\ (ckpt' = ckpt \/ Save)
    BY <1>2 DEF WaveSettles, Close, project
  <2>2. HashesCurrent(mods') /\ HashesCurrent(ckpt'[1])
    BY <2>1, SavedHashes DEF HashInv
  <2> QED
    BY <2>1, <2>2 DEF HashInv, ParentHashes, StageOf, Parents
<1>3. ASSUME NEW m \in Module, StageStep(m)
      PROVE  HashInv'
  BY <1>3, HashSteps, TypeParts
<1>4. CASE IntegrationSkips \/ IntegrationFails \/ IntegrationJudges
  BY <1>4, HashIntegration, TypeParts
<1>5. CASE Crash \/ Resume
  <2>1. mods' = ckpt[1] /\ ckpt' = ckpt /\ \A m \in Module : pc'[m] = "off"
    BY <1>5 DEF Crash, Resume, Load
  <2> QED
    BY <2>1 DEF HashInv
<1>6. CASE ReflowSettles \/ UNCHANGED vars
  <2>1. UNCHANGED <<mods, ckpt, pc, at, seen>>
    BY <1>6 DEF ReflowSettles, vars, project, walk
  <2> QED
    BY <2>1 DEF HashInv, ParentHashes, StageOf, Parents
<1> QED
  BY <1>1, <1>2, <1>3, <1>4, <1>5, <1>6 DEF Next, Progress

\* Where the modules run one at a time, every parent's record of every child is the
\* hash the child published last, in every state: through revisions, failures,
\* repairs by integration, reflows, crashes and lost checkpoints.  In waves it is not
\* (ChildHashesSettled), and an imported child has published nothing.
THEOREM SequentialWalkKeepsRecords ==
  ASSUME ~ Parallel, \A m \in Imported : Parents(m) = {}
  PROVE  Spec => []ChildHashesCurrent
<1>0. OneAtATime
  BY DEF OneAtATime
<1>1. Init => TypeOK /\ Control /\ HashInv
  BY <1>0, TypeInit, ControlInit, HashInit
<1>2. TypeOK /\ Control /\ HashInv /\ [Next]_vars => (TypeOK /\ Control /\ HashInv)'
  BY <1>0, TypeNext, ControlNext, HashNext
<1>3. HashInv => ChildHashesCurrent
  BY DEF HashInv, HashesCurrent, ChildHashesCurrent
<1> QED
  BY <1>1, <1>2, <1>3, PTL DEF Spec
====
