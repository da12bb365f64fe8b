---- MODULE StageRun ----
\* What one call of runStage makes of the project: src/projectState/runStage.js.
\* A stage is two turns of the event loop: the start (budget gate, error cleared, the
\* project state read once as `reducerState`) and, after the node's answer, one
\* run of synchronous dispatches.  The node itself is its answer: an artifact of
\* its own stage and what it returns for other slots.
EXTENDS ProjectReducer

CONSTANT Inst  \* the instance tree: <<parent module, child module>>

ASSUME InstRelatesModules == Inst \subseteq Module \X Module

Children(m) == {c \in Module : <<m, c>> \in Inst}
Parents(m) == {p \in Module : <<p, m>> \in Inst}

Contract(mod) == mod.slot["spec"].v
Code(mod) == mod.slot["rtl_generate"].v

\* A node's own result is dispatched, its stage finishes and completes.
Completed(mod, s) == StageComplete(mod, s)

----
\* spec answers contract version v; e is the version of the elicitation it returns
\* with it (made from the description, or revised by the spec reviews), 0 for none.
\* The merge comes after the specification was set, so a revised elicitation marks
\* the new specification itself stale.
SpecArtifacts(mod, v, e) ==
  LET set == StageDataSet(mod, "spec", Made(v, v, 0)) IN
  IF e = 0 THEN set
  ELSE StageComplete(StageDataMerge(set, "elicit", Made(e, 0, 0)), "elicit")

SpecDone(mod, v, e) == Completed(SpecArtifacts(mod, v, e), "spec")

\* specQualificationError: the unresolved artifact stays, the stage is not completed.
SpecUnqualified(mod, v, e) ==
  StageErrorSet(StageUncomplete(SpecArtifacts(mod, v, e), "spec"), "spec")

\* rtl_generate answers code version k for the contract it read.
RtlDone(mod, k) ==
  Completed(StageDataSet(mod, "rtl_generate", Made(k, Contract(mod), k)), "rtl_generate")

\* Mutant of Mirrored: the RTL another stage ships is dropped.
NotMirrored(mod, k, v) == mod

\* The RTL another stage ships, version k for contract v, is merged into its slot.
Mirrored(mod, k, v) ==
  IF k = Code(mod) /\ v = Contract(mod) THEN mod
  ELSE StageDataMerge(mod, "rtl_generate", Made(k, v, k))

\* Any later stage but judge: its own result, then the RTL it may have repaired.
StageDone(mod, s, k) ==
  LET set == StageDataSet(mod, s, Made(1, Contract(mod), k)) IN
  Completed(Mirrored(set, k, Contract(mod)), s)

\* judge: its verdict, the RTL, the verification it re-ran ("estimate": by the LLM,
\* "cli": by the simulator, "none": not kept), the specification, of contract v if
\* its chain revised it; a simulator's verification is then set once more.
JudgeDone(mod, k, v, reverify) ==
  LET verify   == Made(1, v, k)
      judged   == Mirrored(StageDataSet(mod, "judge", verify), k, v)
      verified == IF reverify = "none" THEN judged ELSE StageDataMerge(judged, "verify", verify)
      revised  == StageDataMerge(verified, "spec", Made(v, v, 0))
      final    == IF reverify = "cli" THEN StageDataSet(revised, "verify", verify) ELSE revised
  IN Completed(final, "judge")

----
\* Sections 12 and 13, for spec and rtl_generate: the content hash of the pair, one
\* half the result, the other read when the stage began, and the childHashes of the
\* parents.  `snapshot` is what the parents' maps were when the stage began.
HashAfter(mod, s, v) ==
  IF s = "spec" THEN <<v, Code(mod)>> ELSE <<Contract(mod), v>>

\* Mutant of Publish: a parent's map is replaced by one with this child alone.
PublishAlone(mods, m, h, snapshot) ==
  [n \in Module |->
     IF n = m THEN ContentHashSet(mods[n], h)
     ELSE IF n \in Parents(m)
          THEN ChildHashesSet(mods[n], [c \in Module |-> IF c = m THEN h ELSE NoHash])
          ELSE mods[n]]

Publish(mods, m, h, snapshot) ==
  [n \in Module |->
     IF n = m THEN ContentHashSet(mods[n], h)
     ELSE IF n \in Parents(m)
          THEN ChildHashesSet(mods[n], [snapshot[n] EXCEPT ![m] = h])
          ELSE mods[n]]

\* What the stage s of module m reads of its parents when it begins.
ParentHashes(mods, m, s) ==
  [n \in Module |-> IF s \in {"spec", "rtl_generate"} /\ n \in Parents(m)
                    THEN mods[n].childHashes
                    ELSE [c \in Module |-> NoHash]]
====
