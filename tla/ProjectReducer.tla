---- MODULE ProjectReducer ----
\* The state of one module of a project and the actions of the project reducer that
\* change it: src/projectState/reducer.js.  The reducer is pure and each dispatch
\* runs to its end, so an action is an operator from module state to module state.
\*
\* An artifact keeps what later steps tell apart: its own version, the version of
\* the specification contract and the version of the RTL it was made from, and the
\* "STALE" mark.  Equal versions stand for equal snapshots; versions only grow.
EXTENDS Naturals, FiniteSets

CONSTANTS Module,  \* the modules of the system
          Stage    \* the stages of the pipeline, by key

ASSUME KnownStages == {"elicit", "spec", "rtl_generate", "verify", "judge"} \subseteq Stage

Artifact == [v : Nat, contract : Nat, code : Nat, stale : BOOLEAN]

\* An empty slot of stageData.
Absent == [v |-> 0, contract |-> 0, code |-> 0, stale |-> FALSE]

Made(v, contract, code) == [v |-> v, contract |-> contract, code |-> code, stale |-> FALSE]

Present(mod, s) == mod.slot[s].v # 0

\* computeContentHash(spec, code): the versions of the pair.
ContentHash == Nat \X Nat
NoHash == <<0, 0>>

ModuleState == [slot : [Stage -> Artifact],
                completed : SUBSET Stage,
                errors : SUBSET Stage,
                contentHash : ContentHash,
                childHashes : [Module -> ContentHash]]

blankModule == [slot |-> [s \in Stage |-> Absent],
                completed |-> {},
                errors |-> {},
                contentHash |-> NoHash,
                childHashes |-> [c \in Module |-> NoHash]]

----
\* Stages with a greater id than elicit (1) or spec (2).  Ids are not the pipeline
\* order, but every other stage comes after these two in both.
After(s) == Stage \ (IF s = "elicit" THEN {"elicit"} ELSE {"elicit", "spec"})

\* The contract of a sealed specification changes: slot s of `mod` held something,
\* and `next` differs from it.
ContractChanged(mod, s, next) ==
  /\ s \in {"elicit", "spec"}
  /\ Present(mod, s)
  /\ Present(mod, "spec")
  /\ next.v # mod.slot[s].v

MarkStale(patched, S) ==
  [patched EXCEPT
    !.slot = [t \in Stage |-> IF t \in S THEN [patched.slot[t] EXCEPT !.stale = TRUE]
                                         ELSE patched.slot[t]],
    !.completed = @ \ S]

\* Mutant of invalidateContractDependents: dependents keep their state.
invalidateNothing(mod, s, next, patched) == patched

\* Artifacts are kept for inspection, marked stale and no longer completed.
invalidateContractDependents(mod, s, next, patched) ==
  IF ContractChanged(mod, s, next)
  THEN MarkStale(patched, {t \in After(s) : Present(patched, t)})
  ELSE patched

\* MODULE_STAGE_DATA_SET: replace the slot.
StageDataSet(mod, s, data) ==
  invalidateContractDependents(mod, s, data, [mod EXCEPT !.slot[s] = data])

\* MODULE_STAGE_DATA_MERGE: a shallow merge keeps the "STALE" status of the slot.
StageDataMerge(mod, s, data) ==
  LET merged == [data EXCEPT !.stale = mod.slot[s].stale] IN
  invalidateContractDependents(mod, s, merged, [mod EXCEPT !.slot[s] = merged])

\* MODULE_STAGE_COMPLETE, MODULE_STAGE_UNCOMPLETE
StageComplete(mod, s) == [mod EXCEPT !.completed = @ \union {s}]
StageUncomplete(mod, s) == [mod EXCEPT !.completed = @ \ {s}]

\* MODULE_STAGE_ERROR_SET, MODULE_STAGE_ERROR_CLEAR
StageErrorSet(mod, s) == [mod EXCEPT !.errors = @ \union {s}]
StageErrorClear(mod, s) == [mod EXCEPT !.errors = @ \ {s}]

\* MODULE_CONTENT_HASH_SET, MODULE_CHILD_HASHES_SET (the whole map is replaced)
ContentHashSet(mod, h) == [mod EXCEPT !.contentHash = h]
ChildHashesSet(mod, hs) == [mod EXCEPT !.childHashes = hs]
====
