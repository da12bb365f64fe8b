---- MODULE Contract_proofs ----
\* What the project holds: completed work follows the contract
\* (CompletedFollowsContract), and a project that is done was walked
\* (DoneMeansWalked), for every pipeline, every instance relation and every sequence
\* of revisions, failures and crashes.
EXTENDS SystemRun_proofs, FiniteSetTheorems

\* The stages of which the property speaks.
Derived == Stage \ {"elicit", "spec", "judge"}

\* What is completed is there, and what is derived is fresh and of the contract.
Held(mod) == \A s \in mod.completed : Present(mod, s)

Backed(mod) ==
  /\ Held(mod)
  /\ \A s \in mod.completed \intersect Derived :
       /\ Contract(mod) # 0
       /\ ~ mod.slot[s].stale
       /\ mod.slot[s].contract = Contract(mod)

----
\* Slots.

LEMMA PutSlot ==
  ASSUME NEW mod \in ModuleState, NEW s \in Stage, NEW data \in Artifact
  PROVE  /\ [mod EXCEPT !.slot[s] = data].slot[s] = data
         /\ \A t \in Stage \ {s} : [mod EXCEPT !.slot[s] = data].slot[t] = mod.slot[t]
         /\ [mod EXCEPT !.slot[s] = data].completed = mod.completed
  BY DEF ModuleState

LEMMA MarkedSlots ==
  ASSUME NEW mod \in ModuleState, NEW S \in SUBSET Stage
  PROVE  /\ MarkStale(mod, S).completed = mod.completed \ S
         /\ \A t \in Stage : /\ MarkStale(mod, S).slot[t].v = mod.slot[t].v
                             /\ MarkStale(mod, S).slot[t].contract = mod.slot[t].contract
<1> DEFINE marked == [t \in Stage |-> IF t \in S THEN [mod.slot[t] EXCEPT !.stale = TRUE]
                                                ELSE mod.slot[t]]
<1>1. MarkStale(mod, S) = [mod EXCEPT !.slot = marked, !.completed = mod.completed \ S]
  BY DEF MarkStale, ModuleState
<1>2. /\ MarkStale(mod, S).slot = marked
      /\ MarkStale(mod, S).completed = mod.completed \ S
  BY <1>1 DEF ModuleState
<1>3. ASSUME NEW t \in Stage
      PROVE  marked[t].v = mod.slot[t].v /\ marked[t].contract = mod.slot[t].contract
  BY DEF ModuleState, Artifact
<1> QED
  BY <1>2, <1>3

\* A slot other than the specification's and the elicitation's is just replaced.
LEMMA PlainData ==
  ASSUME NEW mod \in ModuleState, NEW s \in Stage, s \notin {"elicit", "spec"},
         NEW data \in Artifact
  PROVE  /\ StageDataSet(mod, s, data) = [mod EXCEPT !.slot[s] = data]
         /\ StageDataMerge(mod, s, data)
              = [mod EXCEPT !.slot[s] = [data EXCEPT !.stale = mod.slot[s].stale]]
  BY DEF StageDataSet, StageDataMerge, invalidateContractDependents, ContractChanged

LEMMA MergedData ==
  ASSUME NEW mod \in ModuleState, NEW s \in Stage, NEW data \in Artifact
  PROVE  LET merged == [data EXCEPT !.stale = mod.slot[s].stale] IN
           /\ merged \in Artifact
           /\ merged.v = data.v /\ merged.contract = data.contract
           /\ merged.stale = mod.slot[s].stale
  BY DEF ModuleState, Artifact

\* What a changed contract leaves completed.
LEMMA Invalidated ==
  ASSUME NEW mod \in ModuleState, Held(mod), NEW s \in {"elicit", "spec"},
         NEW next \in Artifact, next.v # 0, ContractChanged(mod, s, next),
         NEW r, r = invalidateContractDependents(mod, s, next, [mod EXCEPT !.slot[s] = next])
  PROVE  /\ r \in ModuleState /\ Held(r)
         /\ r.completed \subseteq {"elicit", "spec"}
         /\ r.slot[s].v = next.v
         /\ \A t \in Stage \ {s} : r.slot[t].v = mod.slot[t].v
<1> DEFINE patched == [mod EXCEPT !.slot[s] = next]
           S == {t \in After(s) : Present(patched, t)}
<1>1. s \in Stage /\ S \in SUBSET Stage
  BY KnownStages DEF After
<1>2. patched \in ModuleState
  BY <1>1, SlotType
<1>3. /\ patched.slot[s] = next /\ patched.completed = mod.completed
      /\ \A t \in Stage \ {s} : patched.slot[t] = mod.slot[t]
  BY <1>1, PutSlot
<1>4. r = MarkStale(patched, S)
  BY DEF invalidateContractDependents
<1> HIDE DEF patched
<1>5. r \in ModuleState
  BY <1>1, <1>2, <1>4, MarkStaleType
<1>6. /\ r.completed = mod.completed \ S
      /\ \A t \in Stage : r.slot[t].v = patched.slot[t].v
  <2> HIDE DEF S
  <2>1. /\ MarkStale(patched, S).completed = patched.completed \ S
        /\ \A t \in Stage : MarkStale(patched, S).slot[t].v = patched.slot[t].v
    BY <1>1, <1>2, MarkedSlots
  <2> QED
    BY <1>3, <1>4, <2>1
<1>7. mod.completed \subseteq Stage
  BY DEF ModuleState
<1>8. ASSUME NEW t \in r.completed
      PROVE  t \in {"elicit", "spec"} /\ Present(r, t)
  <2>1. t \in Stage /\ t \in mod.completed /\ t \notin S /\ mod.slot[t].v # 0
    BY <1>6, <1>7, <1>8 DEF Held, Present
  <2>2. patched.slot[t].v # 0
    BY <1>3, <2>1
  <2>3. t \notin After(s)
    BY <2>1, <2>2 DEF Present
  <2> QED
    BY <1>6, <2>1, <2>2, <2>3 DEF After, Present
<1> QED
  BY <1>1, <1>3, <1>5, <1>6, <1>8 DEF Held

\* Any other slot set, or merged into: what is completed stays so, and stays backed
\* if the new content of a completed slot is.
LEMMA Patched ==
  ASSUME NEW mod \in ModuleState, NEW s \in Stage \ {"elicit", "spec"},
         NEW data \in Artifact, data.v # 0,
         NEW r \in {StageDataSet(mod, s, data), StageDataMerge(mod, s, data)}
  PROVE  /\ r \in ModuleState
         /\ r.completed = mod.completed
         /\ \A t \in Stage \ {s} : r.slot[t] = mod.slot[t]
         /\ Contract(r) = Contract(mod)
         /\ r.slot[s].v = data.v /\ r.slot[s].contract = data.contract
         /\ r = StageDataSet(mod, s, data) => r.slot[s] = data
         /\ Held(mod) => Held(r)
         /\ /\ Backed(mod)
            /\ s \in mod.completed \intersect Derived =>
                 data.contract = Contract(mod) /\ ~ data.stale
            => Backed(r)
<1>1. s \in Stage /\ s \notin {"elicit", "spec"} /\ "spec" \in Stage \ {s}
  BY KnownStages
<1>2. PICK x \in Artifact : /\ r = [mod EXCEPT !.slot[s] = x]
                            /\ x.v = data.v /\ x.contract = data.contract
                            /\ x = data \/ x.stale = mod.slot[s].stale
  <2>1. CASE r = StageDataSet(mod, s, data)
    <3>1. r = [mod EXCEPT !.slot[s] = data]
      BY <1>1, <2>1, PlainData
    <3> QED
      BY <3>1
  <2>2. CASE r = StageDataMerge(mod, s, data)
    <3> DEFINE merged == [data EXCEPT !.stale = mod.slot[s].stale]
    <3>1. r = [mod EXCEPT !.slot[s] = merged]
      BY <1>1, <2>2, PlainData
    <3>2. /\ merged \in Artifact /\ merged.v = data.v /\ merged.contract = data.contract
          /\ merged.stale = mod.slot[s].stale
      BY <1>1, MergedData
    <3> HIDE DEF merged
    <3> QED
      BY <3>1, <3>2
  <2> QED
    BY <2>1, <2>2
<1>3. r \in ModuleState
  BY <1>1, <1>2, SlotType
<1>4. /\ r.slot[s] = x /\ r.completed = mod.completed
      /\ \A t \in Stage \ {s} : r.slot[t] = mod.slot[t]
  BY <1>1, <1>2, PutSlot
<1>5. Contract(r) = Contract(mod)
  BY <1>1, <1>4 DEF Contract
<1>6. r = StageDataSet(mod, s, data) => r.slot[s] = data
  <2>1. StageDataSet(mod, s, data) = [mod EXCEPT !.slot[s] = data]
    BY <1>1, PlainData
  <2> QED
    BY <1>1, <2>1, PutSlot
<1>7. mod.completed \subseteq Stage
  BY DEF ModuleState
<1>8. Held(mod) => Held(r)
  BY <1>2, <1>4, <1>7 DEF Held, Present
<1>9. ASSUME Backed(mod),
             s \in mod.completed \intersect Derived =>
               data.contract = Contract(mod) /\ ~ data.stale,
             NEW t \in r.completed \intersect Derived
      PROVE  /\ Contract(r) # 0
             /\ ~ r.slot[t].stale
             /\ r.slot[t].contract = Contract(r)
  <2>1. /\ t \in mod.completed \intersect Derived /\ Contract(mod) # 0
        /\ ~ mod.slot[t].stale /\ mod.slot[t].contract = Contract(mod)
    BY <1>4, <1>9 DEF Backed
  <2>2. CASE t = s
    BY <1>2, <1>4, <1>5, <1>9, <2>1, <2>2
  <2>3. CASE t # s
    BY <1>4, <1>5, <1>7, <2>1, <2>3
  <2> QED
    BY <2>2, <2>3
<1> QED
  BY <1>2, <1>3, <1>4, <1>5, <1>6, <1>8, <1>9 DEF Backed

\* Slots and completed stages are all that Backed sees.
LEMMA SameSlots ==
  ASSUME NEW mod, NEW r, r.slot = mod.slot, r.completed = mod.completed
  PROVE  (Backed(r) <=> Backed(mod)) /\ Contract(r) = Contract(mod)
  BY DEF Backed, Held, Present, Contract

LEMMA BackedComplete ==
  ASSUME NEW mod \in ModuleState, Backed(mod), NEW s \in Stage, Present(mod, s),
         s \in Derived =>
           Contract(mod) # 0 /\ ~ mod.slot[s].stale /\ mod.slot[s].contract = Contract(mod)
  PROVE  Backed(StageComplete(mod, s)) /\ Contract(StageComplete(mod, s)) = Contract(mod)
<1>1. /\ StageComplete(mod, s).slot = mod.slot
      /\ StageComplete(mod, s).completed = mod.completed \union {s}
  BY DEF StageComplete, ModuleState
<1> QED
  BY <1>1 DEF Backed, Held, Present, Contract

LEMMA BackedUncomplete ==
  ASSUME NEW mod \in ModuleState, Backed(mod), NEW s \in Stage
  PROVE  /\ Backed(StageUncomplete(mod, s))
         /\ Contract(StageUncomplete(mod, s)) = Contract(mod)
<1>1. /\ StageUncomplete(mod, s).slot = mod.slot
      /\ StageUncomplete(mod, s).completed = mod.completed \ {s}
  BY DEF StageUncomplete, ModuleState
<1> QED
  BY <1>1 DEF Backed, Held, Present, Contract

LEMMA BackedErrors ==
  ASSUME NEW mod \in ModuleState, Backed(mod), NEW s \in Stage
  PROVE  /\ Backed(StageErrorSet(mod, s)) /\ Contract(StageErrorSet(mod, s)) = Contract(mod)
         /\ Backed(StageErrorClear(mod, s)) /\ Contract(StageErrorClear(mod, s)) = Contract(mod)
<1>1. /\ StageErrorSet(mod, s).slot = mod.slot
      /\ StageErrorSet(mod, s).completed = mod.completed
      /\ StageErrorClear(mod, s).slot = mod.slot
      /\ StageErrorClear(mod, s).completed = mod.completed
  BY DEF StageErrorSet, StageErrorClear, ModuleState
<1> QED
  BY <1>1, SameSlots

----
\* What the stages return.

\* A specification, set or merged: unchanged, or it invalidates what depends on it.
LEMMA BackedSpec ==
  ASSUME NEW mod \in ModuleState, Held(mod), NEW v \in Nat \ {0},
         Backed(mod) \/ v # Contract(mod), Contract(mod) = 0 => Backed(mod),
         NEW r \in {StageDataSet(mod, "spec", Made(v, v, 0)),
                    StageDataMerge(mod, "spec", Made(v, v, 0))}
  PROVE  /\ r \in ModuleState /\ Backed(r) /\ Contract(r) = v
         /\ \A t \in Stage \ {"spec"} : r.slot[t].v = mod.slot[t].v
<1> DEFINE data == Made(v, v, 0)
<1>0. "spec" \in Stage /\ data \in Artifact /\ data.v = v
  BY KnownStages DEF Made, Artifact
<1> HIDE DEF data
<1>1. PICK x \in Artifact :
        /\ r = invalidateContractDependents(mod, "spec", x, [mod EXCEPT !.slot["spec"] = x])
        /\ x.v = v
  <2>1. CASE r = StageDataSet(mod, "spec", Made(v, v, 0))
    BY <1>0, <2>1 DEF StageDataSet, data
  <2>2. CASE r = StageDataMerge(mod, "spec", Made(v, v, 0))
    <3> DEFINE merged == [data EXCEPT !.stale = mod.slot["spec"].stale]
    <3>1. merged \in Artifact /\ merged.v = v
      BY <1>0, MergedData
    <3>2. r = invalidateContractDependents(mod, "spec", merged,
                                           [mod EXCEPT !.slot["spec"] = merged])
      BY <2>2 DEF StageDataMerge, data
    <3> HIDE DEF merged
    <3> QED
      BY <3>1, <3>2
  <2> QED
    BY <2>1, <2>2
<1> DEFINE patched == [mod EXCEPT !.slot["spec"] = x]
<1>2. /\ patched \in ModuleState /\ patched.slot["spec"] = x
      /\ patched.completed = mod.completed
      /\ \A t \in Stage \ {"spec"} : patched.slot[t] = mod.slot[t]
  BY <1>0, SlotType, PutSlot
<1>3. mod.completed \subseteq Stage
  BY DEF ModuleState
<1>4. CASE ContractChanged(mod, "spec", x)
  <2>1. /\ r \in ModuleState /\ Held(r) /\ r.completed \subseteq {"elicit", "spec"}
        /\ r.slot["spec"].v = v
        /\ \A t \in Stage \ {"spec"} : r.slot[t].v = mod.slot[t].v
    BY <1>1, <1>4, Invalidated
  <2> QED
    BY <2>1 DEF Backed, Derived, Contract
<1>5. CASE ~ ContractChanged(mod, "spec", x)
  <2>1. r = patched
    BY <1>1, <1>5 DEF invalidateContractDependents
  <2>2. Contract(mod) = 0 \/ v = Contract(mod)
    BY <1>1, <1>5 DEF ContractChanged, Present, Contract
  <2>3. Backed(mod)
    BY <2>2
  <2> HIDE DEF patched
  <2>4. Contract(r) = v
    BY <1>1, <1>2, <2>1 DEF Contract
  <2>5. Held(r)
    BY <1>1, <1>2, <1>3, <2>1 DEF Held, Present
  <2>6. \A t \in r.completed \intersect Derived :
          t \in mod.completed \intersect Derived /\ r.slot[t] = mod.slot[t]
    BY <1>2, <1>3, <2>1 DEF Derived
  <2>7. mod.completed \intersect Derived # {} => Contract(mod) # 0 /\ v = Contract(mod)
    BY <2>2, <2>3 DEF Backed
  <2> QED
    BY <1>2, <2>1, <2>2, <2>3, <2>4, <2>5, <2>6, <2>7 DEF Backed
<1> QED
  BY <1>4, <1>5

\* The elicitation that comes back with it.
LEMMA BackedElicitation ==
  ASSUME NEW mod \in ModuleState, Backed(mod), Contract(mod) # 0, NEW e \in Nat \ {0}
  PROVE  LET r == StageDataMerge(mod, "elicit", Made(e, 0, 0)) IN
           /\ r \in ModuleState /\ Backed(r) /\ Contract(r) = Contract(mod)
           /\ Present(r, "elicit")
<1> DEFINE data == Made(e, 0, 0)
           x == [data EXCEPT !.stale = mod.slot["elicit"].stale]
           patched == [mod EXCEPT !.slot["elicit"] = x]
           r == StageDataMerge(mod, "elicit", data)
<1>0. "elicit" \in Stage /\ "spec" \in Stage /\ data \in Artifact /\ data.v = e
  BY KnownStages DEF Made, Artifact
<1> SUFFICES /\ r \in ModuleState /\ Backed(r) /\ Contract(r) = Contract(mod)
             /\ Present(r, "elicit")
  OBVIOUS
<1> HIDE DEF data
<1>1. x \in Artifact /\ x.v = e
  BY <1>0, MergedData
<1>2. r = invalidateContractDependents(mod, "elicit", x, patched)
  BY DEF StageDataMerge
<1>3. r \in ModuleState
  BY <1>0, DataType
<1> HIDE DEF x, r
<1>4. CASE ContractChanged(mod, "elicit", x)
  <2>1. /\ Held(r) /\ r.completed \subseteq {"elicit", "spec"} /\ r.slot["elicit"].v = e
        /\ \A t \in Stage \ {"elicit"} : r.slot[t].v = mod.slot[t].v
    BY <1>1, <1>2, <1>4, Invalidated DEF Backed
  <2> QED
    BY <1>0, <1>3, <2>1 DEF Backed, Derived, Contract, Present
<1>5. CASE ~ ContractChanged(mod, "elicit", x)
  <2>1. r = patched
    BY <1>2, <1>5 DEF invalidateContractDependents
  <2>2. /\ patched.slot["elicit"] = x /\ patched.completed = mod.completed
        /\ \A t \in Stage \ {"elicit"} : patched.slot[t] = mod.slot[t]
    BY <1>0, <1>1, PutSlot
  <2> HIDE DEF patched
  <2>3. mod.completed \subseteq Stage
    BY DEF ModuleState
  <2>4. Held(r) /\ Present(r, "elicit")
    BY <1>1, <2>1, <2>2, <2>3 DEF Held, Present, Backed
  <2>5. Contract(r) = Contract(mod)
    BY <1>0, <2>1, <2>2 DEF Contract
  <2>6. \A t \in r.completed \intersect Derived :
          t \in mod.completed \intersect Derived /\ r.slot[t] = mod.slot[t]
    BY <2>1, <2>2, <2>3 DEF Derived
  <2>7. Backed(r)
    BY <2>4, <2>5, <2>6 DEF Backed
  <2> QED
    BY <1>3, <2>4, <2>5, <2>7
<1> QED
  BY <1>4, <1>5

LEMMA BackedArtifacts ==
  ASSUME NEW mod \in ModuleState, Backed(mod), NEW v \in Nat \ {0}, NEW e \in Nat
  PROVE  /\ SpecArtifacts(mod, v, e) \in ModuleState
         /\ Backed(SpecArtifacts(mod, v, e))
         /\ Contract(SpecArtifacts(mod, v, e)) = v
<1> DEFINE set == StageDataSet(mod, "spec", Made(v, v, 0))
           merged == StageDataMerge(set, "elicit", Made(e, 0, 0))
<1>1. set \in ModuleState /\ Backed(set) /\ Contract(set) = v
  BY BackedSpec DEF Backed
<1>2. CASE e = 0
  BY <1>1, <1>2 DEF SpecArtifacts
<1>3. CASE e # 0
  <2> HIDE DEF set
  <2>1. /\ merged \in ModuleState /\ Backed(merged) /\ Contract(merged) = v
        /\ Present(merged, "elicit")
    BY <1>1, <1>3, BackedElicitation
  <2>2. SpecArtifacts(mod, v, e) = StageComplete(merged, "elicit")
    BY <1>3 DEF SpecArtifacts, set
  <2> HIDE DEF merged
  <2>3. "elicit" \in Stage /\ "elicit" \notin Derived
    BY KnownStages DEF Derived
  <2> QED
    BY <2>1, <2>2, <2>3, BackedComplete, CompletedType
<1> QED
  BY <1>2, <1>3

LEMMA BackedSpecStage ==
  ASSUME NEW mod \in ModuleState, Backed(mod), NEW v \in Nat \ {0}, NEW e \in Nat
  PROVE  /\ Backed(SpecDone(mod, v, e)) /\ Contract(SpecDone(mod, v, e)) = v
         /\ Backed(SpecUnqualified(mod, v, e)) /\ Contract(SpecUnqualified(mod, v, e)) = v
<1> DEFINE r == SpecArtifacts(mod, v, e)
<1>1. r \in ModuleState /\ Backed(r) /\ Contract(r) = v
  BY BackedArtifacts
<1>2. "spec" \in Stage /\ "spec" \notin Derived
  BY KnownStages DEF Derived
<1>3. /\ SpecDone(mod, v, e) = StageComplete(r, "spec")
      /\ SpecUnqualified(mod, v, e) = StageErrorSet(StageUncomplete(r, "spec"), "spec")
  BY DEF SpecDone, SpecUnqualified, Completed
<1> HIDE DEF r
<1>4. Present(r, "spec")
  BY <1>1 DEF Present, Contract
<1>5. Backed(StageComplete(r, "spec")) /\ Contract(StageComplete(r, "spec")) = v
  BY <1>1, <1>2, <1>4, BackedComplete
<1>6. /\ StageUncomplete(r, "spec") \in ModuleState
      /\ Backed(StageUncomplete(r, "spec")) /\ Contract(StageUncomplete(r, "spec")) = v
  BY <1>1, <1>2, BackedUncomplete, CompletedType
<1> QED
  BY <1>2, <1>3, <1>5, <1>6, BackedErrors

LEMMA BackedRtl ==
  ASSUME NEW mod \in ModuleState, Backed(mod), Contract(mod) # 0, NEW k \in Nat \ {0}
  PROVE  Backed(RtlDone(mod, k)) /\ Contract(RtlDone(mod, k)) = Contract(mod)
<1> DEFINE data == Made(k, Contract(mod), k)
           r == StageDataSet(mod, "rtl_generate", data)
<1>1. "rtl_generate" \in Stage \ {"elicit", "spec"}
  BY KnownStages
<1>2. /\ data \in Artifact /\ data.v = k /\ data.contract = Contract(mod)
      /\ ~ data.stale
  BY ContractType DEF Made, Artifact
<1>3. RtlDone(mod, k) = StageComplete(r, "rtl_generate")
  BY DEF RtlDone, Completed
<1> HIDE DEF data
<1>4. /\ r \in ModuleState /\ Backed(r) /\ Contract(r) = Contract(mod)
      /\ r.slot["rtl_generate"] = data
  BY <1>1, <1>2, Patched
<1> HIDE DEF r
<1> QED
  BY <1>1, <1>2, <1>3, <1>4, BackedComplete DEF Present

\* The RTL another stage ships: backed if it is of the contract that stands.
LEMMA BackedMirror ==
  ASSUME NEW mod \in ModuleState, NEW k \in Nat \ {0}, NEW v \in Nat \ {0},
         NEW r, r = Mirrored(mod, k, v)
  PROVE  /\ r \in ModuleState
         /\ r.completed = mod.completed
         /\ \A t \in Stage \ {"rtl_generate"} : r.slot[t] = mod.slot[t]
         /\ Contract(r) = Contract(mod)
         /\ Held(mod) => Held(r)
         /\ Backed(mod) /\ v = Contract(mod) => Backed(r)
<1> DEFINE data == Made(k, v, k)
<1>1. "rtl_generate" \in Stage \ {"elicit", "spec"}
  BY KnownStages
<1>2. data \in Artifact /\ data.v = k /\ data.contract = v /\ ~ data.stale
  BY DEF Made, Artifact
<1>3. r = mod \/ r = StageDataMerge(mod, "rtl_generate", data)
  BY DEF Mirrored
<1> HIDE DEF data
<1> QED
  BY <1>1, <1>2, <1>3, Patched

\* A check: its own result, and the RTL it ships, which may be the one there is.
LEMMA BackedStage ==
  ASSUME NEW mod \in ModuleState, Backed(mod), Contract(mod) # 0,
         NEW k \in Nat, k # 0 \/ k = Code(mod),
         NEW s \in Stage \ {"elicit", "spec", "rtl_generate"}
  PROVE  Backed(StageDone(mod, s, k)) /\ Contract(StageDone(mod, s, k)) = Contract(mod)
<1> DEFINE data == Made(1, Contract(mod), k)
           set == StageDataSet(mod, s, data)
           r == Mirrored(set, k, Contract(mod))
<1>1. /\ data \in Artifact /\ data.v = 1 /\ data.contract = Contract(mod)
      /\ ~ data.stale
  BY ContractType DEF Made, Artifact
<1>2. StageDone(mod, s, k) = StageComplete(r, s)
  BY DEF StageDone, Completed
<1> HIDE DEF data
<1>3. /\ set \in ModuleState /\ Backed(set) /\ Contract(set) = Contract(mod)
      /\ set.slot[s] = data /\ Code(set) = Code(mod)
  BY <1>1, KnownStages, Patched DEF Code
<1> HIDE DEF set
<1>4. /\ r \in ModuleState /\ Backed(r) /\ Contract(r) = Contract(mod)
      /\ r.slot[s] = data
  <2>1. Contract(mod) \in Nat \ {0} /\ s \in Stage \ {"rtl_generate"}
    BY ContractType
  <2>2. CASE k = Code(mod)
    BY <1>3, <2>2 DEF Mirrored
  <2>3. CASE k # Code(mod)
    <3>1. k \in Nat \ {0}
      BY <2>3
    <3>2. /\ r \in ModuleState
          /\ \A t \in Stage \ {"rtl_generate"} : r.slot[t] = set.slot[t]
          /\ Contract(r) = Contract(set)
          /\ Backed(set) /\ Contract(mod) = Contract(set) => Backed(r)
      BY SMTT(30), <1>3, <2>1, <3>1, BackedMirror
    <3> QED
      BY <1>3, <2>1, <3>2
  <2> QED
    BY <2>2, <2>3
<1> HIDE DEF r
<1> QED
  BY <1>1, <1>2, <1>4, BackedComplete DEF Present

\* judge: a verdict of the contract there was keeps what is completed; a revised
\* contract leaves only the specification completed, and its own stage.
LEMMA BackedJudge ==
  ASSUME NEW mod \in ModuleState, Backed(mod), Contract(mod) # 0, NEW k \in Nat \ {0},
         NEW v \in Nat \ {0}, NEW reverify
  PROVE  Backed(JudgeDone(mod, k, v, reverify)) /\ Contract(JudgeDone(mod, k, v, reverify)) = v
<1> DEFINE verify   == Made(1, v, k)
           set      == StageDataSet(mod, "judge", verify)
           judged   == Mirrored(set, k, v)
           verified == IF reverify = "none" THEN judged
                       ELSE StageDataMerge(judged, "verify", verify)
           revised  == StageDataMerge(verified, "spec", Made(v, v, 0))
           final    == IF reverify = "cli" THEN StageDataSet(revised, "verify", verify)
                       ELSE revised
<1>1. JudgeDone(mod, k, v, reverify) = StageComplete(final, "judge")
  BY DEF JudgeDone, Completed
<1>2. verify \in Artifact /\ verify.v = 1 /\ verify.contract = v /\ ~ verify.stale
  BY DEF Made, Artifact
<1>3. /\ "judge" \in Stage \ {"elicit", "spec"} /\ "verify" \in Stage \ {"elicit", "spec"}
      /\ "judge" \notin Derived /\ "judge" \in Stage \ {"rtl_generate"}
  BY KnownStages DEF Derived
<1> HIDE DEF verify
<1>4. /\ set \in ModuleState /\ Backed(set) /\ Contract(set) = Contract(mod)
      /\ set.slot["judge"] = verify
  BY <1>2, <1>3, Patched
<1> HIDE DEF set
<1>5. /\ judged \in ModuleState /\ Held(judged) /\ Contract(judged) = Contract(mod)
      /\ judged.slot["judge"] = verify
      /\ v = Contract(mod) => Backed(judged)
  <2>1. /\ judged \in ModuleState
        /\ \A t \in Stage \ {"rtl_generate"} : judged.slot[t] = set.slot[t]
        /\ Contract(judged) = Contract(set)
        /\ Held(set) => Held(judged)
        /\ Backed(set) /\ v = Contract(set) => Backed(judged)
    BY <1>4, BackedMirror
  <2> QED
    BY <1>3, <1>4, <2>1 DEF Backed
<1> HIDE DEF judged
<1>6. /\ verified \in ModuleState /\ Held(verified) /\ Contract(verified) = Contract(mod)
      /\ verified.slot["judge"].v = 1
      /\ v = Contract(mod) => Backed(verified)
  <2>1. CASE reverify = "none"
    BY <1>2, <1>5, <2>1
  <2>2. CASE reverify # "none"
    <3> DEFINE r == StageDataMerge(judged, "verify", verify)
    <3>1. /\ r \in ModuleState
          /\ \A t \in Stage \ {"verify"} : r.slot[t] = judged.slot[t]
          /\ Contract(r) = Contract(judged)
          /\ Held(judged) => Held(r)
          /\ Backed(judged) /\ v = Contract(judged) => Backed(r)
      BY <1>2, <1>3, <1>5, Patched
    <3>2. verified = r
      BY <2>2
    <3> HIDE DEF r, verified
    <3> QED
      BY <1>2, <1>3, <1>5, <3>1, <3>2
  <2> QED
    BY <2>1, <2>2
<1> HIDE DEF verified
<1>7. /\ revised \in ModuleState /\ Backed(revised) /\ Contract(revised) = v
      /\ Present(revised, "judge")
  <2>1. /\ revised \in ModuleState /\ Backed(revised) /\ Contract(revised) = v
        /\ \A t \in Stage \ {"spec"} : revised.slot[t].v = verified.slot[t].v
    BY <1>6, BackedSpec
  <2> QED
    BY <1>3, <1>6, <2>1 DEF Present
<1> HIDE DEF revised
<1>8. /\ final \in ModuleState /\ Backed(final) /\ Contract(final) = v
      /\ Present(final, "judge")
  <2>1. CASE reverify = "cli"
    <3> DEFINE r == StageDataSet(revised, "verify", verify)
    <3>1. /\ r \in ModuleState /\ Backed(r)
          /\ \A t \in Stage \ {"verify"} : r.slot[t] = revised.slot[t]
          /\ Contract(r) = Contract(revised)
      BY <1>2, <1>3, <1>7, Patched
    <3>2. final = r
      BY <2>1
    <3> HIDE DEF r, final
    <3> QED
      BY <1>3, <1>7, <3>1, <3>2 DEF Present
  <2>2. CASE reverify # "cli"
    BY <1>7, <2>2
  <2> QED
    BY <2>1, <2>2
<1> HIDE DEF final
<1> QED
  BY <1>1, <1>3, <1>8, BackedComplete

\* Publishing hashes leaves every slot as it is.
LEMMA PublishedSlots ==
  ASSUME NEW ms \in [Module -> ModuleState], NEW m \in Module, NEW h, NEW snapshot,
         NEW n \in Module
  PROVE  /\ Publish(ms, m, h, snapshot)[n].slot = ms[n].slot
         /\ Publish(ms, m, h, snapshot)[n].completed = ms[n].completed
<1>1. \A x : /\ ContentHashSet(ms[n], x).slot = ms[n].slot
             /\ ContentHashSet(ms[n], x).completed = ms[n].completed
             /\ ChildHashesSet(ms[n], x).slot = ms[n].slot
             /\ ChildHashesSet(ms[n], x).completed = ms[n].completed
  BY DEF ContentHashSet, ChildHashesSet, ModuleState
<1> QED
  BY <1>1 DEF Publish

LEMMA BackedRepair ==
  ASSUME NEW mod \in ModuleState, Backed(mod), NEW k \in Nat \ {0},
         NEW r, r = StageDataSet(mod, "rtl_generate",
                      [mod.slot["rtl_generate"] EXCEPT !.v = k, !.code = k])
  PROVE  Backed(r) /\ Contract(r) = Contract(mod)
<1> DEFINE s == "rtl_generate"
           data == [mod.slot[s] EXCEPT !.v = k, !.code = k]
<1>1. s \in Stage \ {"elicit", "spec"}
  BY KnownStages
<1>2. /\ data \in Artifact /\ data.v = k /\ data.contract = mod.slot[s].contract
      /\ data.stale = mod.slot[s].stale
  BY <1>1 DEF ModuleState, Artifact
<1>3. r = StageDataSet(mod, s, data)
  OBVIOUS
<1> HIDE DEF data
<1>4. s \in mod.completed \intersect Derived => data.contract = Contract(mod) /\ ~ data.stale
  BY <1>2 DEF Backed
<1> HIDE DEF s
<1> QED
  BY <1>1, <1>2, <1>3, <1>4, Patched

LEMMA BackedSeed ==
  ASSUME NEW m \in Module
  PROVE  Backed(seededModule(m)) /\ (m \in Imported => Contract(seededModule(m)) # 0)
<1>1. CASE m \in Imported
  <2>1. /\ seededModule(m).slot = [s \in Stage |-> Made(1, 1, 1)]
        /\ seededModule(m).completed = Stage
    BY <1>1 DEF seededModule, blankModule
  <2> QED
    BY <2>1, KnownStages DEF Backed, Held, Present, Contract, Derived, Made
<1>2. CASE m \notin Imported
  BY <1>2 DEF seededModule, blankModule, Backed, Held
<1> QED
  BY <1>1, <1>2

----
\* The invariant of the data: every module is backed, in memory and in the checkpoint,
\* and a worker that is past its first stage has a specification.

DataInv ==
  /\ \A m \in Module : Backed(mods[m]) /\ Backed(ckpt[1][m])
  /\ \A m \in Imported : Contract(mods[m]) # 0 /\ Contract(ckpt[1][m]) # 0
  /\ \A m \in Module : pc[m] = "ok" \/ at[m] > 1 => Contract(mods[m]) # 0

\* The project is backed as it was, module by module, and may have been saved.
ProjectStep ==
  /\ \A m \in Module : Backed(mods'[m])
  /\ \A m \in Module : Contract(mods[m]) # 0 => Contract(mods'[m]) # 0
  /\ ckpt' = ckpt \/ ckpt' = project'

LEMMA DataStep ==
  ASSUME DataInv, ProjectStep,
         \A m \in Module : pc'[m] = "ok" \/ at'[m] > 1 =>
           pc[m] = "ok" \/ at[m] > 1 \/ Contract(mods'[m]) # 0
  PROVE  DataInv'
<1>1. Imported \subseteq Module
  BY ModesAndModules
<1>2. ckpt'[1] = ckpt[1] \/ ckpt'[1] = mods'
  BY DEF ProjectStep, project
<1>3. \A m \in Module : Backed(mods'[m]) /\ Backed(ckpt'[1][m])
  BY <1>2 DEF DataInv, ProjectStep
<1>4. \A m \in Imported : Contract(mods'[m]) # 0 /\ Contract(ckpt'[1][m]) # 0
  BY <1>1, <1>2 DEF DataInv, ProjectStep
<1>5. \A m \in Module : pc'[m] = "ok" \/ at'[m] > 1 => Contract(mods'[m]) # 0
  BY DEF DataInv, ProjectStep
<1> QED
  BY <1>3, <1>4, <1>5 DEF DataInv

\* One module's state replaced by a backed one.
LEMMA OneModule ==
  ASSUME mods \in [Module -> ModuleState], DataInv, NEW m \in Module, NEW r,
         Backed(r), Contract(mods[m]) # 0 => Contract(r) # 0,
         \/ mods' = [mods EXCEPT ![m] = r]
         \/ /\ r \in ModuleState
            /\ \E h \in ContentHash : mods' = Publish([mods EXCEPT ![m] = r], m, h, seen[m]),
         ckpt' = ckpt \/ ckpt' = project'
  PROVE  ProjectStep /\ Contract(mods'[m]) = Contract(r)
<1> DEFINE ms == [mods EXCEPT ![m] = r]
<1>1. \A n \in Module : mods'[n].slot = ms[n].slot /\ mods'[n].completed = ms[n].completed
  <2>1. CASE mods' = ms
    BY <2>1
  <2>2. CASE mods' # ms
    <3>1. PICK h \in ContentHash : mods' = Publish(ms, m, h, seen[m])
      BY <2>2
    <3>2. ms \in [Module -> ModuleState]
      BY <2>2, ExceptType
    <3> HIDE DEF ms
    <3> QED
      BY <3>1, <3>2, PublishedSlots
  <2> QED
    BY <2>1, <2>2
<1>2. \A n \in Module : Backed(ms[n]) /\ (Contract(mods[n]) # 0 => Contract(ms[n]) # 0)
  BY DEF DataInv
<1>3. ms[m] = r
  OBVIOUS
<1> HIDE DEF ms
<1>4. \A n \in Module : (Backed(mods'[n]) <=> Backed(ms[n])) /\ Contract(mods'[n]) = Contract(ms[n])
  BY <1>1, SameSlots
<1> QED
  BY <1>2, <1>3, <1>4 DEF ProjectStep

LEMMA SavedOrNot == Save => ckpt' = ckpt \/ ckpt' = project'
  BY DEF Save

\* The versions a node returns.
LEMMA NextVersionType ==
  ASSUME NEW m \in Module, NEW n \in Nat, NEW v \in NextVersions(m, n)
  PROVE  v \in Nat \ {0}
  BY Bounds DEF NextVersions

\* The first stage is the specification; a worker elsewhere has one.
LEMMA FirstStage ==
  ASSUME StageTypes, DataInv, NEW m \in Module
  PROVE  StageOf(m) = "spec" \/ Contract(mods[m]) # 0
<1>1. at[m] \in 1..Len(Walk)
  BY DEF StageTypes
<1>2. at[m] = 1 \/ at[m] > 1
  BY <1>1, WalkIsThePipeline
<1> QED
  BY <1>2, WalkIsThePipeline DEF DataInv, StageOf

\* A stage that stays, or fails: the worker is not ok and has not moved on.
LEMMA DataStays ==
  ASSUME StageTypes, DataInv, ProjectStep, NEW m \in Module,
         NEW x \in {"invoking", "failed"}, pc' = [pc EXCEPT ![m] = x], at' = at
  PROVE  DataInv'
<1>1. \A n \in Module : pc'[n] = "ok" => pc[n] = "ok"
  BY DEF StageTypes
<1> QED
  BY <1>1, DataStep

\* A stage that succeeds has left a specification.
LEMMA DataMoves ==
  ASSUME StageTypes, DataInv, ProjectStep, NEW m \in Module,
         AfterStage(m), Contract(mods'[m]) # 0
  PROVE  DataInv'
<1>1. \A n \in Module \ {m} : pc'[n] = pc[n] /\ at'[n] = at[n]
  BY DEF AfterStage, StageTypes
<1> QED
  BY <1>1, DataStep

LEMMA DataSpec ==
  ASSUME StageTypes, DataInv, NEW m \in Module, SpecReturns(m) \/ SpecFailsReview(m)
  PROVE  DataInv'
<1> DEFINE mod == mods[m]
<1>1. mod \in ModuleState /\ Backed(mod) /\ Contract(mod) \in Nat
  BY ContractType DEF StageTypes, DataInv
<1>2. ASSUME NEW v \in NextVersions(m, Contract(mod)), NEW e \in Elicitations(mod, v)
      PROVE  /\ v \in Nat \ {0} /\ e \in Nat
             /\ SpecDone(mod, v, e) \in ModuleState
             /\ Backed(SpecDone(mod, v, e)) /\ Contract(SpecDone(mod, v, e)) = v
             /\ Backed(SpecUnqualified(mod, v, e)) /\ Contract(SpecUnqualified(mod, v, e)) = v
             /\ HashAfter(mod, "spec", v) \in ContentHash
  <2>1. v \in Nat \ {0} /\ e \in Nat
    BY <1>1, NextVersionType, ElicitationType
  <2> HIDE DEF mod
  <2> QED
    BY <1>1, <2>1, BackedSpecStage, SpecType, HashAfterType, KnownStages
<1>3. CASE SpecReturns(m)
  <2>0. PICK v \in NextVersions(m, Contract(mod)) : \E e \in Elicitations(mod, v) :
          mods' = Publish([mods EXCEPT ![m] = SpecDone(mods[m], v, e)], m,
                          HashAfter(mods[m], "spec", v), seen[m])
    BY <1>3 DEF SpecReturns
  <2>1. PICK e \in Elicitations(mod, v) :
          mods' = Publish([mods EXCEPT ![m] = SpecDone(mod, v, e)], m,
                          HashAfter(mod, "spec", v), seen[m])
    BY <2>0
  <2>2. AfterStage(m) /\ (ckpt' = ckpt \/ ckpt' = project')
    BY <1>3, SavedOrNot DEF SpecReturns, StageReturns
  <2> DEFINE r == SpecDone(mod, v, e)
  <2>3. /\ r \in ModuleState /\ Backed(r) /\ Contract(r) # 0
        /\ HashAfter(mod, "spec", v) \in ContentHash
    BY <1>2
  <2> HIDE DEF r, mod
  <2>4. ProjectStep /\ Contract(mods'[m]) = Contract(r)
    BY <2>1, <2>2, <2>3, OneModule DEF StageTypes, r
  <2> QED
    BY <2>2, <2>3, <2>4, DataMoves
<1>4. CASE SpecFailsReview(m)
  <2>0. PICK v \in NextVersions(m, Contract(mod)) : \E e \in Elicitations(mod, v) :
          mods' = [mods EXCEPT ![m] = SpecUnqualified(mods[m], v, e)]
    BY <1>4 DEF SpecFailsReview
  <2>1. PICK e \in Elicitations(mod, v) :
          mods' = [mods EXCEPT ![m] = SpecUnqualified(mod, v, e)]
    BY <2>0
  <2>2. /\ pc' = [pc EXCEPT ![m] = "failed"] /\ at' = at
        /\ ckpt' = ckpt \/ ckpt' = project'
    BY <1>4, SavedOrNot DEF SpecFailsReview
  <2> DEFINE r == SpecUnqualified(mod, v, e)
  <2>3. Backed(r) /\ Contract(r) # 0
    BY <1>2
  <2> HIDE DEF r, mod
  <2>4. ProjectStep
    BY <2>1, <2>2, <2>3, OneModule DEF StageTypes, r
  <2> QED
    BY <2>2, <2>4, DataStays
<1> QED
  BY <1>3, <1>4

LEMMA DataWork ==
  ASSUME StageTypes, DataInv, NEW m \in Module,
         RtlReturns(m) \/ CheckReturns(m) \/ JudgeReturns(m)
  PROVE  DataInv'
<1> DEFINE mod == mods[m]
<1>1. mod \in ModuleState /\ Backed(mod) /\ Contract(mod) \in Nat /\ Code(mod) \in Nat
  BY ContractType DEF StageTypes, DataInv
<1>2. AfterStage(m) /\ (ckpt' = ckpt \/ ckpt' = project')
  BY SavedOrNot DEF RtlReturns, CheckReturns, JudgeReturns, StageReturns
<1>3. Contract(mod) # 0
  BY FirstStage DEF RtlReturns, CheckReturns, JudgeReturns
<1>4. CASE RtlReturns(m)
  <2>1. PICK k \in NextVersions(m, Code(mod)) :
          mods' = Publish([mods EXCEPT ![m] = RtlDone(mod, k)], m,
                          HashAfter(mod, "rtl_generate", k), seen[m])
    BY <1>4 DEF RtlReturns
  <2> DEFINE r == RtlDone(mod, k)
             h == HashAfter(mod, "rtl_generate", k)
  <2> HIDE DEF mod
  <2>2. r \in ModuleState /\ Backed(r) /\ Contract(r) # 0 /\ h \in ContentHash
    BY <1>1, <1>3, NextVersionType, RtlType, BackedRtl, HashAfterType, KnownStages
  <2> HIDE DEF r, h
  <2>3. ProjectStep /\ Contract(mods'[m]) = Contract(r)
    BY <1>2, <2>1, <2>2, OneModule DEF StageTypes, r, h
  <2> QED
    BY <1>2, <2>2, <2>3, DataMoves
<1>5. CASE CheckReturns(m)
  <2>1. PICK k \in Shipped(m) :
          mods' = [mods EXCEPT ![m] = StageDone(mod, StageOf(m), k)]
    BY <1>5 DEF CheckReturns
  <2>2. StageOf(m) \in Stage \ {"elicit", "spec", "rtl_generate"}
    BY <1>5, WalkIsThePipeline DEF CheckReturns, StageOf, StageTypes
  <2> DEFINE r == StageDone(mod, StageOf(m), k)
  <2>0. k \in Nat /\ (k # 0 \/ k = Code(mod))
    BY <1>1, ShippedType
  <2> HIDE DEF mod
  <2>3. Backed(r) /\ Contract(r) # 0
    BY <1>1, <1>3, <2>0, <2>2, BackedStage
  <2> HIDE DEF r
  <2>4. ProjectStep /\ Contract(mods'[m]) = Contract(r)
    BY <1>2, <2>1, <2>3, OneModule DEF StageTypes, r
  <2> QED
    BY <1>2, <2>3, <2>4, DataMoves
<1>6. CASE JudgeReturns(m)
  <2>1. PICK k \in NextVersions(m, Code(mod)), v \in NextVersions(m, Contract(mod)),
             reverify \in {"none", "estimate", "cli"} :
          mods' = [mods EXCEPT ![m] = JudgeDone(mod, k, v, reverify)]
    BY <1>6 DEF JudgeReturns
  <2> DEFINE r == JudgeDone(mod, k, v, reverify)
  <2> HIDE DEF mod
  <2>2. k \in Nat \ {0} /\ v \in Nat \ {0}
    BY <1>1, NextVersionType
  <2>3. Backed(r) /\ Contract(r) # 0
    BY <1>1, <1>3, <2>2, BackedJudge
  <2> HIDE DEF r
  <2>4. ProjectStep /\ Contract(mods'[m]) = Contract(r)
    BY <1>2, <2>1, <2>3, OneModule DEF StageTypes, r
  <2> QED
    BY <1>2, <2>3, <2>4, DataMoves
<1> QED
  BY <1>4, <1>5, <1>6

LEMMA DataSteps ==
  ASSUME StageTypes, DataInv, NEW m \in Module, StageStep(m)
  PROVE  DataInv'
<1> DEFINE mod == mods[m]
           s == StageOf(m)
<1>1. mod \in ModuleState /\ Backed(mod) /\ s \in Stage
  BY StageOfType DEF StageTypes, DataInv
<1>2. CASE SkipStage(m)
  <2>1. ProjectStep /\ mods' = mods
    BY <1>2 DEF SkipStage, ProjectStep, DataInv, project
  <2>2. s \in mod.completed /\ AfterStage(m)
    BY <1>2 DEF SkipStage, Skippable
  <2>3. Contract(mod) # 0
    BY <1>1, <2>2, FirstStage DEF Backed, Held, Present, Contract
  <2> QED
    BY <2>1, <2>2, <2>3, DataMoves
<1>3. CASE BudgetStops(m) \/ BeginStage(m) \/ NodeFails(m)
  <2>1. /\ Backed(StageErrorSet(mod, s)) /\ Contract(StageErrorSet(mod, s)) = Contract(mod)
        /\ Backed(StageErrorClear(mod, s)) /\ Contract(StageErrorClear(mod, s)) = Contract(mod)
    BY <1>1, BackedErrors
  <2>2. PICK r \in {mod, StageErrorSet(mod, s), StageErrorClear(mod, s)} :
          mods' = [mods EXCEPT ![m] = r]
    <3>1. mods = [mods EXCEPT ![m] = mod]
      BY DEF StageTypes
    <3>2. \/ mods' = mods
          \/ mods' = [mods EXCEPT ![m] = StageErrorSet(mod, s)]
          \/ mods' = [mods EXCEPT ![m] = StageErrorClear(mod, s)]
      BY <1>3 DEF BudgetStops, BeginStage, NodeFails
    <3> HIDE DEF mod, s
    <3> QED
      BY <3>1, <3>2
  <2>3. \E x \in {"invoking", "failed"} : pc' = [pc EXCEPT ![m] = x]
    BY <1>3 DEF BudgetStops, BeginStage, NodeFails
  <2>4. at' = at /\ (ckpt' = ckpt \/ ckpt' = project')
    BY <1>3, SavedOrNot DEF BudgetStops, BeginStage, NodeFails
  <2>5. Backed(r) /\ Contract(r) = Contract(mod)
    BY <1>1, <2>1, <2>2
  <2>6. ProjectStep
    BY <2>2, <2>4, <2>5, OneModule DEF StageTypes
  <2> QED
    BY <2>3, <2>4, <2>6, DataStays
<1> QED
  BY StageStep(m), <1>2, <1>3, DataSpec, DataWork DEF StageStep

\* Integration changes the top alone; a reflow starts when every worker is ok.
LEMMA DataIntegration ==
  ASSUME StageTypes, DataInv, IntegrationSkips \/ IntegrationFails \/ IntegrationJudges
  PROVE  DataInv'
<1> DEFINE mod == mods[Top]
<1>1. /\ Top \in Module /\ mod \in ModuleState /\ Backed(mod) /\ Code(mod) \in Nat
  BY ModesAndModules, ContractType DEF StageTypes, DataInv
<1>2. UNCHANGED <<ckpt, pc, at>>
  BY DEF IntegrationSkips, IntegrationFails, IntegrationJudges
<1>3. PICK r : Backed(r) /\ Contract(r) = Contract(mod) /\ mods' = [mods EXCEPT ![Top] = r]
  <2>1. mods = [mods EXCEPT ![Top] = mod]
    BY DEF StageTypes
  <2>2. CASE mods' = mods
    BY <1>1, <2>1, <2>2
  <2>3. CASE mods' # mods
    <3>1. PICK k \in NextVersions(Top, Code(mod)) : mods' = Repaired(k)
      BY <2>3 DEF IntegrationSkips, IntegrationFails, IntegrationJudges, project
    <3> DEFINE data == [mod.slot["rtl_generate"] EXCEPT !.v = k, !.code = k]
               r == StageDataSet(mod, "rtl_generate", data)
    <3>2. Repaired(k) = [mods EXCEPT ![Top] = IF k = Code(mod) THEN mod ELSE r]
      BY <1>1 DEF Repaired
    <3>3. Backed(r) /\ Contract(r) = Contract(mod)
      BY <1>1, NextVersionType, BackedRepair
    <3> HIDE DEF r, mod
    <3> QED
      BY <2>1, <2>3, <3>1, <3>2, <3>3
  <2> QED
    BY <2>2, <2>3
<1>4. ProjectStep
  BY <1>1, <1>2, <1>3, OneModule DEF StageTypes
<1> QED
  BY <1>2, <1>4, DataStep

LEMMA DataLaunch ==
  ASSUME TypeOK, DataInv, LaunchWave
  PROVE  DataInv'
<1>1. ProjectStep
  BY DEF LaunchWave, ProjectStep, DataInv, project
<1>2. UNCHANGED <<mods, at>>
  BY DEF LaunchWave, project
<1>3. ASSUME NEW m \in Module, pc'[m] = "ok", pc[m] # "ok"
      PROVE  Contract(mods[m]) # 0
  <2>1. Entered(m) = "ok"
    BY <1>3 DEF LaunchWave, TypeOK
  <2>2. m \in Imported
    BY <2>1 DEF Entered, ImportedAndComplete
  <2> QED
    BY <2>2 DEF DataInv
<1> QED
  BY <1>1, <1>2, <1>3, DataStep

LEMMA DataReflow ==
  ASSUME TypeOK, Control, DataInv, StartReflow
  PROVE  DataInv'
<1>1. ProjectStep
  BY DEF StartReflow, ProjectStep, DataInv, project
<1>2. \A m \in Module : pc[m] = "ok"
  BY DEF StartReflow, Control, AllOk
<1> QED
  BY <1>1, <1>2, DataStep

LEMMA DataLoad ==
  ASSUME DataInv, Load
  PROVE  DataInv'
<1>1. mods' = ckpt[1] /\ ckpt' = ckpt
  BY DEF Load
<1>2. \A m \in Module : pc'[m] # "ok" /\ ~ at'[m] > 1
  BY DEF Load
<1> QED
  BY <1>1, <1>2 DEF DataInv

LEMMA DataInit == Init => DataInv
<1> SUFFICES ASSUME Init PROVE DataInv
  OBVIOUS
<1>1. /\ mods = [m \in Module |-> seededModule(m)] /\ ckpt[1] = mods
      /\ \A m \in Module : pc[m] = "off" /\ at[m] = 1
  BY DEF Init, project
<1> QED
  BY <1>1, BackedSeed, ModesAndModules DEF DataInv

LEMMA DataNext ==
  ASSUME TypeOK, Control, DataInv, [Next]_vars
  PROVE  DataInv'
<1>1. CASE LaunchWave
  BY <1>1, DataLaunch
<1>2. CASE WaveSettles \/ Close
  <2>1. UNCHANGED <<mods, pc, at>> /\ (ckpt' = ckpt \/ ckpt' = project')
    BY <1>2, SavedOrNot DEF WaveSettles, Close, project
  <2>2. ProjectStep
    BY <2>1 DEF ProjectStep, DataInv
  <2> QED
    BY <2>1, <2>2, DataStep
<1>3. ASSUME NEW m \in Module, StageStep(m)
      PROVE  DataInv'
  BY <1>3, DataSteps, TypeParts
<1>4. CASE IntegrationSkips \/ IntegrationFails \/ IntegrationJudges
  BY <1>4, DataIntegration, TypeParts
<1>5. CASE StartReflow
  BY <1>5, DataReflow
<1>6. CASE Crash \/ Resume
  BY <1>6, DataLoad DEF Crash, Resume
<1>7. CASE ReflowSettles \/ UNCHANGED vars
  <2>1. UNCHANGED <<mods, ckpt, pc, at>>
    BY <1>7 DEF ReflowSettles, vars, project, walk
  <2> QED
    BY <2>1 DEF DataInv
<1> QED
  BY <1>1, <1>2, <1>3, <1>4, <1>5, <1>6, <1>7 DEF Next, Progress

LEMMA BackedFollows == TypeOK /\ DataInv => CompletedFollowsContract
  BY DEF DataInv, Backed, Derived, CompletedFollowsContract, TypeOK, ModuleState

\* What is completed was made for the contract that stands and is not stale, whatever
\* the pipeline and the modules: through revisions by spec and by judge, failed
\* reviews, repairs by integration, reflows, crashes and checkpoints that were lost.
THEOREM ContractIsFollowed == Spec => []CompletedFollowsContract
<1>1. Init => TypeOK /\ Control /\ DataInv
  BY TypeInit, ControlInit, DataInit
<1>2. TypeOK /\ Control /\ DataInv /\ [Next]_vars => (TypeOK /\ Control /\ DataInv)'
  BY TypeNext, ControlNext, DataNext
<1>3. TypeOK /\ DataInv => CompletedFollowsContract
  BY BackedFollows
<1> QED
  BY <1>1, <1>2, <1>3, PTL DEF Spec

----
\* A project that is done was walked.

\* Before rtl_generate: each stage has an artifact, completed or stale.
Early(mod) ==
  \A i \in DOMAIN Walk : i < RtlPlace =>
    /\ Present(mod, Walk[i])
    /\ Walk[i] \in mod.completed \/ mod.slot[Walk[i]].stale

\* The stages of a range of places are completed.
Ran(mod, first, last) ==
  \A i \in DOMAIN Walk : first <= i /\ i <= last => Walk[i] \in mod.completed

\* All stages have run; what is not completed since is stale, or the verdict is.
Done(mod) ==
  /\ Early(mod)
  /\ \A i \in DOMAIN Walk : RtlPlace <= i =>
       /\ Present(mod, Walk[i])
       /\ Walk[i] \in mod.completed \/ mod.slot["judge"].stale

\* The places of the walk.
LEMMA Places ==
  /\ Len(Walk) \in Nat /\ DOMAIN Walk = 1..Len(Walk)
  /\ \A i \in DOMAIN Walk : Walk[i] \in Stage \ {"elicit"}
  /\ RtlPlace \in 2..(Len(Walk) - 1)
  /\ Walk[1] = "spec" /\ Walk[RtlPlace] = "rtl_generate" /\ Walk[Len(Walk)] = "judge"
  /\ \A i \in DOMAIN Walk : Walk[i] = "spec" => i = 1
  /\ \A i \in DOMAIN Walk : Walk[i] = "rtl_generate" => i = RtlPlace
  /\ \A i \in DOMAIN Walk : Walk[i] = "verify" => RtlPlace < i
  /\ \A i \in DOMAIN Walk : Walk[i] = "judge" => i = Len(Walk)
<1>1. /\ Len(Walk) \in Nat /\ DOMAIN Walk = 1..Len(Walk)
      /\ \A i \in DOMAIN Walk : Walk[i] \in Stage \ {"elicit"}
  BY WalkIsThePipeline
<1>2. PICK x \in DOMAIN Walk, y \in DOMAIN Walk :
        Walk[x] = "rtl_generate" /\ Walk[y] = "verify" /\ x < y
  BY WalkIsThePipeline
<1>3. RtlPlace = x
  <2>1. RtlPlace \in DOMAIN Walk /\ Walk[RtlPlace] = "rtl_generate"
    BY <1>2 DEF RtlPlace
  <2> QED
    BY <1>2, <2>1, WalkIsThePipeline
<1>4. x # 1 /\ x # Len(Walk)
  BY <1>2, WalkIsThePipeline
<1>5. x \in 2..(Len(Walk) - 1)
  BY <1>1, <1>4
<1>6. 1 \in DOMAIN Walk /\ Len(Walk) \in DOMAIN Walk
  BY <1>1, <1>5
<1> QED
  BY <1>1, <1>2, <1>3, <1>5, <1>6, WalkIsThePipeline

\* Only slots and completed stages matter.
SameWork(r, mod) == r.slot = mod.slot /\ r.completed = mod.completed

LEMMA SameWorkDone ==
  ASSUME NEW r, NEW mod, SameWork(r, mod)
  PROVE  /\ Done(r) <=> Done(mod)
         /\ \A i, j : Ran(r, i, j) <=> Ran(mod, i, j)
  BY DEF SameWork, Done, Early, Ran, Present

LEMMA RanIsDone ==
  ASSUME NEW mod \in ModuleState, Held(mod), Ran(mod, 1, Len(Walk))
  PROVE  Done(mod)
<1>1. \A i \in DOMAIN Walk : Walk[i] \in mod.completed /\ Present(mod, Walk[i])
  BY Places DEF Ran, Held
<1> QED
  BY <1>1 DEF Done, Early

\* More is completed, and what has lost its mark is.
LEMMA DoneKept ==
  ASSUME NEW mod \in ModuleState, Done(mod), NEW r,
         mod.completed \subseteq r.completed,
         \A t \in Stage : Present(mod, t) => Present(r, t),
         \A t \in Stage : r.slot[t].stale = mod.slot[t].stale \/ (t \in r.completed /\ t # "judge")
  PROVE  Done(r)
<1>1. r.slot["judge"].stale = mod.slot["judge"].stale
  BY KnownStages
<1>2. ASSUME NEW i \in DOMAIN Walk
      PROVE  /\ Walk[i] \in Stage
             /\ Present(r, Walk[i])
             /\ Walk[i] \in mod.completed => Walk[i] \in r.completed
             /\ \/ r.slot[Walk[i]].stale = mod.slot[Walk[i]].stale
                \/ Walk[i] \in r.completed
  <2>1. Walk[i] \in Stage
    BY Places
  <2>2. Present(mod, Walk[i])
    BY Places DEF Done, Early
  <2> QED
    BY <2>1, <2>2
<1> QED
  BY <1>1, <1>2 DEF Done, Early

----
\* What the stages leave.

\* A slot other than the specification's and the elicitation's, set or merged into.
LEMMA PlainSlots ==
  ASSUME NEW mod \in ModuleState, NEW s \in Stage \ {"elicit", "spec"},
         NEW data \in Artifact, data.v # 0,
         NEW r \in {StageDataSet(mod, s, data), StageDataMerge(mod, s, data)}
  PROVE  /\ r \in ModuleState
         /\ r.completed = mod.completed
         /\ \A t \in Stage \ {s} : r.slot[t] = mod.slot[t]
         /\ Present(r, s)
         /\ r = StageDataMerge(mod, s, data) => r.slot[s].stale = mod.slot[s].stale
<1>1. /\ r \in ModuleState /\ r.completed = mod.completed /\ r.slot[s].v = data.v
      /\ \A t \in Stage \ {s} : r.slot[t] = mod.slot[t]
  BY Patched
<1>2. ASSUME r = StageDataMerge(mod, s, data)
      PROVE  r.slot[s].stale = mod.slot[s].stale
  <2> DEFINE merged == [data EXCEPT !.stale = mod.slot[s].stale]
  <2>1. r = [mod EXCEPT !.slot[s] = merged]
    BY <1>2, PlainData
  <2>2. merged \in Artifact /\ merged.stale = mod.slot[s].stale
    BY MergedData
  <2> HIDE DEF merged
  <2>3. r.slot[s] = merged
    BY <2>1, <2>2, PutSlot
  <2> QED
    BY <2>2, <2>3
<1> QED
  BY <1>1, <1>2 DEF Present

\* The RTL another stage ships is merged: its mark stays.
LEMMA MirroredSlots ==
  ASSUME NEW mod \in ModuleState, NEW k \in Nat, k # 0 \/ k = Code(mod), NEW v \in Nat,
         v = Contract(mod) \/ k # 0
  PROVE  LET r == Mirrored(mod, k, v) IN
           /\ r \in ModuleState
           /\ r.completed = mod.completed
           /\ \A t \in Stage \ {"rtl_generate"} : r.slot[t] = mod.slot[t]
           /\ \A t \in Stage : Present(mod, t) => Present(r, t)
           /\ \A t \in Stage : r.slot[t].stale = mod.slot[t].stale
<1> DEFINE data == Made(k, v, k)
           r == Mirrored(mod, k, v)
<1> SUFFICES /\ r \in ModuleState
             /\ r.completed = mod.completed
             /\ \A t \in Stage \ {"rtl_generate"} : r.slot[t] = mod.slot[t]
             /\ \A t \in Stage : Present(mod, t) => Present(r, t)
             /\ \A t \in Stage : r.slot[t].stale = mod.slot[t].stale
  OBVIOUS
<1>1. "rtl_generate" \in Stage \ {"elicit", "spec"}
  BY KnownStages
<1>2. data \in Artifact /\ data.v = k
  BY DEF Made, Artifact
<1>3. r = mod \/ (k # 0 /\ r = StageDataMerge(mod, "rtl_generate", data))
  BY DEF Mirrored
<1> HIDE DEF data, r
<1>4. CASE r = mod
  BY <1>4
<1>5. CASE r # mod
  <2>1. k # 0 /\ r = StageDataMerge(mod, "rtl_generate", data)
    BY <1>3, <1>5
  <2>2. /\ r \in ModuleState /\ r.completed = mod.completed
        /\ \A t \in Stage \ {"rtl_generate"} : r.slot[t] = mod.slot[t]
        /\ Present(r, "rtl_generate")
        /\ r.slot["rtl_generate"].stale = mod.slot["rtl_generate"].stale
    BY <1>1, <1>2, <2>1, PlainSlots
  <2> QED
    BY <2>2 DEF Present
<1> QED
  BY <1>4, <1>5

\* What a stage s leaves that changes no contract: its own artifact, completed.
Worked(mod, r, s) ==
  /\ r.completed = mod.completed \union {s}
  /\ \A t \in Stage : Present(mod, t) => Present(r, t)
  /\ \A t \in Stage \ {s} : r.slot[t].stale = mod.slot[t].stale

LEMMA RtlWorks ==
  ASSUME NEW mod \in ModuleState, NEW k \in Nat \ {0}
  PROVE  Worked(mod, RtlDone(mod, k), "rtl_generate")
<1> DEFINE data == Made(k, Contract(mod), k)
           r == StageDataSet(mod, "rtl_generate", data)
<1>1. "rtl_generate" \in Stage \ {"elicit", "spec"}
  BY KnownStages
<1>2. data \in Artifact /\ data.v = k
  BY ContractType DEF Made, Artifact
<1>3. RtlDone(mod, k) = StageComplete(r, "rtl_generate")
  BY DEF RtlDone, Completed
<1> HIDE DEF data
<1>4. /\ r \in ModuleState /\ r.completed = mod.completed /\ Present(r, "rtl_generate")
      /\ \A t \in Stage \ {"rtl_generate"} : r.slot[t] = mod.slot[t]
  BY <1>1, <1>2, PlainSlots
<1> HIDE DEF r
<1>5. /\ StageComplete(r, "rtl_generate").slot = r.slot
      /\ StageComplete(r, "rtl_generate").completed = r.completed \union {"rtl_generate"}
  BY <1>4 DEF StageComplete, ModuleState
<1> QED
  BY <1>3, <1>4, <1>5 DEF Worked, Present

LEMMA CheckWorks ==
  ASSUME NEW mod \in ModuleState, NEW s \in Stage \ {"elicit", "spec", "rtl_generate"},
         NEW k \in Nat, k # 0 \/ k = Code(mod)
  PROVE  Worked(mod, StageDone(mod, s, k), s)
<1> DEFINE data == Made(1, Contract(mod), k)
           set == StageDataSet(mod, s, data)
           r == Mirrored(set, k, Contract(mod))
<1>1. data \in Artifact /\ data.v = 1 /\ Contract(mod) \in Nat
  BY ContractType DEF Made, Artifact
<1>2. StageDone(mod, s, k) = StageComplete(r, s)
  BY DEF StageDone, Completed
<1> HIDE DEF data
<1>3. /\ set \in ModuleState /\ set.completed = mod.completed /\ Present(set, s)
      /\ \A t \in Stage \ {s} : set.slot[t] = mod.slot[t]
  BY <1>1, PlainSlots
<1> HIDE DEF set
<1>4. Contract(set) = Contract(mod) /\ Code(set) = Code(mod)
  BY <1>3, KnownStages DEF Contract, Code
<1>5. /\ r \in ModuleState /\ r.completed = set.completed
      /\ \A t \in Stage : Present(set, t) => Present(r, t)
      /\ \A t \in Stage : r.slot[t].stale = set.slot[t].stale
  BY <1>1, <1>3, <1>4, MirroredSlots
<1> HIDE DEF r
<1>6. StageComplete(r, s).slot = r.slot /\ StageComplete(r, s).completed = r.completed \union {s}
  BY <1>5 DEF StageComplete, ModuleState
<1> QED
  BY <1>2, <1>3, <1>5, <1>6 DEF Worked, Present

\* What is marked stale is no longer completed, and the rest is as it was.
LEMMA MarkedStale ==
  ASSUME NEW mod \in ModuleState, NEW S \in SUBSET Stage
  PROVE  \A t \in Stage : MarkStale(mod, S).slot[t].stale = (mod.slot[t].stale \/ t \in S)
<1> DEFINE marked == [t \in Stage |-> IF t \in S THEN [mod.slot[t] EXCEPT !.stale = TRUE]
                                                ELSE mod.slot[t]]
<1>1. MarkStale(mod, S) = [mod EXCEPT !.slot = marked, !.completed = mod.completed \ S]
  BY DEF MarkStale, ModuleState
<1>2. MarkStale(mod, S).slot = marked
  BY <1>1 DEF ModuleState
<1>3. ASSUME NEW t \in Stage
      PROVE  marked[t].stale = (mod.slot[t].stale \/ t \in S)
  <2>1. mod.slot[t] \in Artifact
    BY DEF ModuleState
  <2>2. CASE t \in S
    BY <2>1, <2>2 DEF Artifact
  <2>3. CASE t \notin S
    BY <2>1, <2>3 DEF Artifact
  <2> QED
    BY <2>2, <2>3
<1> QED
  BY <1>2, <1>3

\* A specification merged: the same contract changes nothing else; a new one marks
\* what depends on it.
LEMMA RevisedSlots ==
  ASSUME NEW mod \in ModuleState, Contract(mod) # 0, NEW v \in Nat \ {0},
         NEW r, r = StageDataMerge(mod, "spec", Made(v, v, 0))
  PROVE  /\ r \in ModuleState
         /\ \A t \in Stage : Present(mod, t) => Present(r, t)
         /\ \A t \in Stage : mod.slot[t].stale => r.slot[t].stale
         /\ v = Contract(mod) =>
              /\ r.completed = mod.completed
              /\ \A t \in Stage \ {"spec"} : r.slot[t] = mod.slot[t]
         /\ v # Contract(mod) =>
              /\ \A t \in Stage \ {"elicit", "spec"} : Present(mod, t) => r.slot[t].stale
              /\ "spec" \in mod.completed => "spec" \in r.completed
<1> DEFINE data == Made(v, v, 0)
           x == [data EXCEPT !.stale = mod.slot["spec"].stale]
           patched == [mod EXCEPT !.slot["spec"] = x]
           S == {t \in After("spec") : Present(patched, t)}
<1>1. "spec" \in Stage /\ data \in Artifact /\ data.v = v
  BY KnownStages DEF Made, Artifact
<1>2. r = invalidateContractDependents(mod, "spec", x, patched)
  BY DEF StageDataMerge
<1> HIDE DEF data
<1>3. x \in Artifact /\ x.v = v /\ x.stale = mod.slot["spec"].stale
  BY <1>1, MergedData
<1> HIDE DEF x
<1>4. /\ patched \in ModuleState /\ patched.slot["spec"] = x
      /\ patched.completed = mod.completed
      /\ \A t \in Stage \ {"spec"} : patched.slot[t] = mod.slot[t]
  BY <1>1, <1>3, SlotType, PutSlot
<1> HIDE DEF patched
<1>5. /\ \A t \in Stage : patched.slot[t].stale = mod.slot[t].stale
      /\ \A t \in Stage : Present(mod, t) => Present(patched, t)
  BY <1>3, <1>4 DEF Present
<1>6. ContractChanged(mod, "spec", x) <=> v # Contract(mod)
  BY <1>3 DEF ContractChanged, Present, Contract
<1>7. CASE v = Contract(mod)
  BY <1>2, <1>4, <1>5, <1>6, <1>7 DEF invalidateContractDependents
<1>8. CASE v # Contract(mod)
  <2>1. r = MarkStale(patched, S)
    BY <1>2, <1>6, <1>8 DEF invalidateContractDependents
  <2>2. S \in SUBSET Stage
    BY DEF After
  <2>3. \A t \in Stage \ {"elicit", "spec"} : Present(mod, t) => t \in S
    BY <1>5 DEF After
  <2>4. "spec" \notin S
    BY DEF After
  <2> HIDE DEF S
  <2>5. /\ r \in ModuleState /\ r.completed = mod.completed \ S
        /\ \A t \in Stage : r.slot[t].v = patched.slot[t].v
        /\ \A t \in Stage : r.slot[t].stale = (patched.slot[t].stale \/ t \in S)
    BY <1>4, <2>1, <2>2, MarkedSlots, MarkedStale, MarkStaleType
  <2> QED
    BY <1>5, <1>8, <2>3, <2>4, <2>5 DEF Present
<1> QED
  BY <1>7, <1>8

\* judge on a module whose stages have all run: a verdict of the contract there was
\* completes the walk; one that revised the contract is itself marked stale.
LEMMA JudgeIsDone ==
  ASSUME NEW mod \in ModuleState, Contract(mod) # 0, Early(mod), Held(mod),
         Ran(mod, RtlPlace, Len(Walk) - 1),
         NEW k \in Nat \ {0}, NEW v \in Nat \ {0}, NEW reverify
  PROVE  Done(JudgeDone(mod, k, v, reverify))
<1> DEFINE verify   == Made(1, v, k)
           set      == StageDataSet(mod, "judge", verify)
           judged   == Mirrored(set, k, v)
           verified == IF reverify = "none" THEN judged
                       ELSE StageDataMerge(judged, "verify", verify)
           revised  == StageDataMerge(verified, "spec", Made(v, v, 0))
           final    == IF reverify = "cli" THEN StageDataSet(revised, "verify", verify)
                       ELSE revised
           done     == StageComplete(final, "judge")
<1>1. JudgeDone(mod, k, v, reverify) = done
  BY DEF JudgeDone, Completed
<1>2. verify \in Artifact /\ verify.v = 1
  BY DEF Made, Artifact
<1>3. /\ "judge" \in Stage \ {"elicit", "spec", "rtl_generate", "verify"}
      /\ "verify" \in Stage \ {"elicit", "spec"} /\ "spec" \in Stage
  BY KnownStages
<1> HIDE DEF verify
<1>4. /\ set \in ModuleState /\ set.completed = mod.completed /\ Present(set, "judge")
      /\ \A t \in Stage \ {"judge"} : set.slot[t] = mod.slot[t]
  BY <1>2, <1>3, PlainSlots
<1> HIDE DEF set
<1>5. /\ judged \in ModuleState /\ judged.completed = mod.completed
      /\ \A t \in Stage \ {"rtl_generate"} : judged.slot[t] = set.slot[t]
      /\ \A t \in Stage : Present(set, t) => Present(judged, t)
      /\ \A t \in Stage : judged.slot[t].stale = set.slot[t].stale
  <2>1. /\ k # 0 \/ k = Code(set)
        /\ v = Contract(set) \/ k # 0
        /\ k \in Nat /\ v \in Nat /\ set \in ModuleState
    BY <1>4
  <2>2. /\ judged \in ModuleState /\ judged.completed = set.completed
        /\ \A t \in Stage \ {"rtl_generate"} : judged.slot[t] = set.slot[t]
        /\ \A t \in Stage : Present(set, t) => Present(judged, t)
        /\ \A t \in Stage : judged.slot[t].stale = set.slot[t].stale
    BY ONLY ZenonT(30), <2>1, MirroredSlots
  <2> HIDE DEF judged
  <2> QED BY <1>4, <2>2
<1> HIDE DEF judged
<1>6. /\ verified \in ModuleState /\ verified.completed = mod.completed
      /\ \A t \in Stage \ {"verify"} : verified.slot[t] = judged.slot[t]
      /\ \A t \in Stage : Present(judged, t) => Present(verified, t)
      /\ \A t \in Stage : verified.slot[t].stale = judged.slot[t].stale
  <2>1. CASE reverify = "none"
    BY <1>5, <2>1
  <2>2. CASE reverify # "none"
    <3> DEFINE r == StageDataMerge(judged, "verify", verify)
    <3>1. /\ r \in ModuleState /\ r.completed = judged.completed /\ Present(r, "verify")
          /\ \A t \in Stage \ {"verify"} : r.slot[t] = judged.slot[t]
          /\ r.slot["verify"].stale = judged.slot["verify"].stale
      BY <1>2, <1>3, <1>5, PlainSlots
    <3>2. verified = r
      BY <2>2
    <3> HIDE DEF r, verified
    <3> QED
      BY <1>5, <3>1, <3>2 DEF Present
  <2> QED
    BY <2>1, <2>2
<1> HIDE DEF verified
<1>7. Contract(verified) = Contract(mod)
  BY <1>3, <1>4, <1>5, <1>6, KnownStages DEF Contract
<1>8. /\ revised \in ModuleState
      /\ \A t \in Stage : Present(verified, t) => Present(revised, t)
      /\ \A t \in Stage : verified.slot[t].stale => revised.slot[t].stale
      /\ v = Contract(mod) => revised.completed = mod.completed
      /\ v # Contract(mod) =>
           /\ \A t \in Stage \ {"elicit", "spec"} : Present(verified, t) => revised.slot[t].stale
           /\ "spec" \in mod.completed => "spec" \in revised.completed
  BY <1>6, <1>7, RevisedSlots
<1> HIDE DEF revised
<1>9. /\ final \in ModuleState /\ final.completed = revised.completed
      /\ \A t \in Stage \ {"verify"} : final.slot[t] = revised.slot[t]
      /\ \A t \in Stage : Present(revised, t) => Present(final, t)
  <2>1. CASE reverify = "cli"
    <3> DEFINE r == StageDataSet(revised, "verify", verify)
    <3>1. /\ r \in ModuleState /\ r.completed = revised.completed /\ Present(r, "verify")
          /\ \A t \in Stage \ {"verify"} : r.slot[t] = revised.slot[t]
      BY <1>2, <1>3, <1>8, PlainSlots
    <3>2. final = r
      BY <2>1
    <3> HIDE DEF r, final
    <3> QED
      BY <3>1, <3>2 DEF Present
  <2>2. CASE reverify # "cli"
    BY <1>8, <2>2
  <2> QED
    BY <2>1, <2>2
<1> HIDE DEF final
<1>10. done.slot = final.slot /\ done.completed = final.completed \union {"judge"}
  BY <1>9 DEF StageComplete, ModuleState
<1> HIDE DEF done
<1>11. \A t \in Stage : Present(mod, t) \/ t = "judge" => Present(verified, t) /\ Present(done, t)
  BY <1>4, <1>5, <1>6, <1>8, <1>9, <1>10 DEF Present
<1>12. \A t \in Stage \ {"verify", "judge"} : mod.slot[t].stale => done.slot[t].stale
  BY <1>4, <1>5, <1>6, <1>8, <1>9, <1>10
<1>13. CASE v = Contract(mod)
  <2>1. done.completed = mod.completed \union {"judge"}
    BY <1>8, <1>9, <1>10, <1>13
  <2>2. ASSUME NEW i \in DOMAIN Walk, i < RtlPlace
        PROVE  /\ Present(done, Walk[i])
               /\ Walk[i] \in done.completed \/ done.slot[Walk[i]].stale
    <3>1. Walk[i] \in Stage \ {"verify", "judge"}
      BY <2>2, Places
    <3> QED
      BY <1>11, <1>12, <2>1, <2>2, <3>1 DEF Early
  <2>3. ASSUME NEW i \in DOMAIN Walk, RtlPlace <= i
        PROVE  Present(done, Walk[i]) /\ Walk[i] \in done.completed
    <3>1. Walk[i] \in Stage /\ (i <= Len(Walk) - 1 \/ Walk[i] = "judge")
      BY Places
    <3>2. Walk[i] \in mod.completed \/ Walk[i] = "judge"
      BY <2>3, <3>1 DEF Ran
    <3> QED
      BY <1>11, <2>1, <3>1, <3>2 DEF Held
  <2> QED
    BY <1>1, <2>2, <2>3 DEF Done, Early
<1>14. CASE v # Contract(mod)
  <2>1. \A t \in Stage \ {"elicit", "spec", "verify"} :
          Present(mod, t) \/ t = "judge" => done.slot[t].stale
    BY <1>8, <1>9, <1>10, <1>11, <1>14
  <2>2. ASSUME NEW i \in DOMAIN Walk, i < RtlPlace
        PROVE  /\ Present(done, Walk[i])
               /\ Walk[i] \in done.completed \/ done.slot[Walk[i]].stale
    <3>1. Walk[i] \in Stage \ {"elicit", "verify", "judge"}
      BY <2>2, Places
    <3>2. /\ Present(mod, Walk[i])
          /\ Walk[i] \in mod.completed \/ mod.slot[Walk[i]].stale
      BY <2>2 DEF Early
    <3>3. CASE Walk[i] = "spec"
      BY <1>8, <1>9, <1>10, <1>11, <1>12, <1>14, <3>1, <3>2, <3>3
    <3>4. CASE Walk[i] # "spec"
      BY <1>11, <2>1, <3>1, <3>2, <3>4
    <3> QED
      BY <3>3, <3>4
  <2>3. ASSUME NEW i \in DOMAIN Walk, RtlPlace <= i
        PROVE  Present(done, Walk[i])
    <3>1. Walk[i] \in Stage /\ (i <= Len(Walk) - 1 \/ Walk[i] = "judge")
      BY Places
    <3>2. Walk[i] \in mod.completed \/ Walk[i] = "judge"
      BY <2>3, <3>1 DEF Ran
    <3> QED
      BY <1>11, <3>1, <3>2 DEF Held
  <2>4. done.slot["judge"].stale
    BY <1>3, <2>1
  <2> QED
    BY <1>1, <2>2, <2>3, <2>4 DEF Done, Early
<1> QED
  BY <1>13, <1>14

----
\* The invariant of the walk: where a worker is, what it has passed has run.

WalkedSoFar(m) ==
  /\ pc[m] = "off" => at[m] = 1
  /\ Active(m) => Ran(mods[m], 1, at[m] - 1)
  /\ pc[m] = "ok" => Done(mods[m])

\* A module that runs again has been done, and stays so.
RerunSoFar(m) ==
  /\ Done(mods[m])
  /\ Active(m) => at[m] >= RtlPlace /\ Ran(mods[m], RtlPlace, at[m] - 1)

WalkInv ==
  /\ \A m \in Imported : /\ mods[m].completed = Stage /\ ckpt[1][m].completed = Stage
                         /\ pc[m] \in {"off", "ok"}
  /\ phase = "walk" => \A m \in Module : WalkedSoFar(m)
  /\ phase = "reflow" => RerunSoFar(target)
  /\ phase \in {"integrate", "decide", "reflow", "closing", "done"} =>
       \A m \in Module : Done(mods[m])

\* An imported module has nothing to run.
LEMMA ImportedIsComplete ==
  ASSUME IsFiniteSet(Stage), NEW m \in Imported, mods[m].completed = Stage
  PROVE  Entered(m) = "ok"
<1> DEFINE S == Stage \ {"elicit"}
<1>1. "elicit" \in Stage
  BY KnownStages
<1>2. IsFiniteSet(S) /\ Cardinality(S) = Cardinality(Stage) - 1
  BY <1>1, FS_RemoveElement
<1>3. Cardinality(Stage) \in Nat /\ Cardinality(S) \in Nat
  BY <1>2, FS_CardinalityType
<1> HIDE DEF S
<1>4. Walk \in [1..Len(Walk) -> S] /\ Len(Walk) \in Nat
  BY Places, WalkIsThePipeline DEF S
<1>5. Walk \in Injection(1..Len(Walk), S)
  BY <1>4, WalkIsThePipeline DEF Injection, IsInjective
<1>6. Cardinality(1..Len(Walk)) <= Cardinality(S)
  BY <1>2, <1>5, FS_Injection
<1>7. Cardinality(1..Len(Walk)) = Len(Walk)
  <2>1. Cardinality(1..Len(Walk)) = IF 1 > Len(Walk) THEN 0 ELSE Len(Walk) - 1 + 1
    BY SMTT(30), <1>4, FS_Interval
  <2> QED
    BY <1>4, <2>1
<1>8. Cardinality(Stage) >= 1 + Len(Walk)
  BY <1>2, <1>3, <1>4, <1>6, <1>7
<1> QED
  BY <1>8 DEF Entered, ImportedAndComplete

LEMMA EnteredOkIsImported ==
  ASSUME NEW m \in Module, Entered(m) = "ok"
  PROVE  m \in Imported
  BY DEF Entered, ImportedAndComplete

LEMMA ImportedIsDone ==
  ASSUME TypeOK, DataInv, WalkInv, NEW m \in Imported
  PROVE  Done(mods[m])
<1>1. m \in Module /\ mods[m] \in ModuleState /\ Held(mods[m]) /\ mods[m].completed = Stage
  BY ModesAndModules DEF TypeOK, DataInv, Backed, WalkInv
<1>2. Ran(mods[m], 1, Len(Walk))
  BY <1>1, Places DEF Ran
<1> QED
  BY <1>1, <1>2, RanIsDone

\* A worker's step: the others keep what they have, and it has run what it passed.
LEMMA WalkWorker ==
  ASSUME Control, WalkInv, NEW m \in Module, Active(m), UNCHANGED <<phase, target>>,
         \A n \in Module \ {m} : SameWork(mods'[n], mods[n]) /\ pc'[n] = pc[n] /\ at'[n] = at[n],
         ckpt' = ckpt \/ Save,
         phase = "walk" => WalkedSoFar(m)',
         phase = "reflow" /\ m = target => RerunSoFar(m)'
  PROVE  WalkInv'
<1>1. m \notin Imported
  BY DEF WalkInv, Active
<1>2. \A n \in Imported : /\ mods'[n].completed = Stage /\ ckpt'[1][n].completed = Stage
                          /\ pc'[n] \in {"off", "ok"}
  <2>1. ckpt'[1] = ckpt[1] \/ ckpt'[1] = mods'
    BY DEF Save, project
  <2>2. \A n \in Imported : n \in Module \ {m}
    BY <1>1, ModesAndModules
  <2> QED
    BY <2>1, <2>2 DEF WalkInv, SameWork
<1>3. phase \in {"walk", "reflow"}
  BY DEF Control, PhaseName, AllOk, Quiet, Active
<1>4. CASE phase = "walk"
  <2>1. ASSUME NEW n \in Module \ {m} PROVE WalkedSoFar(n)'
    <3>1. /\ \A i, j : Ran(mods'[n], i, j) <=> Ran(mods[n], i, j)
          /\ Done(mods'[n]) <=> Done(mods[n])
      BY SameWorkDone
    <3> QED
      BY <1>4, <3>1 DEF WalkInv, WalkedSoFar, Active
  <2>2. \A n \in Module : WalkedSoFar(n)'
    BY <1>4, <2>1
  <2> QED
    BY <1>2, <1>4, <2>2 DEF WalkInv
<1>5. CASE phase = "reflow"
  <2>1. m = target
    BY <1>5 DEF Control, ReflowShape, Active
  <2>2. \A n \in Module \ {m} : Done(mods'[n])
    BY <1>5, SameWorkDone DEF WalkInv
  <2>3. RerunSoFar(m)'
    BY <1>5, <2>1
  <2>4. RerunSoFar(target)' /\ \A n \in Module : Done(mods'[n])
    BY <2>1, <2>2, <2>3 DEF RerunSoFar
  <2> QED
    BY <1>2, <1>5, <2>4 DEF WalkInv
<1> QED
  BY <1>3, <1>4, <1>5

\* A worker that stays at its place, with what it had.
LEMMA WalkStays ==
  ASSUME StageTypes, Control, WalkInv, NEW m \in Module, Active(m),
         NEW x \in {"invoking", "failed"}, pc' = [pc EXCEPT ![m] = x], at' = at,
         UNCHANGED <<phase, target>>, ckpt' = ckpt \/ Save,
         \A n \in Module : SameWork(mods'[n], mods[n])
  PROVE  WalkInv'
<1>1. /\ pc'[m] = x
      /\ \A n \in Module \ {m} : pc'[n] = pc[n]
  BY DEF StageTypes
<1>2. /\ \A i, j : Ran(mods'[m], i, j) <=> Ran(mods[m], i, j)
      /\ Done(mods'[m]) <=> Done(mods[m])
  BY SameWorkDone
<1>3. phase = "walk" => WalkedSoFar(m)'
  BY <1>1, <1>2 DEF WalkInv, WalkedSoFar, Active
<1>4. phase = "reflow" /\ m = target => RerunSoFar(m)'
  BY <1>1, <1>2 DEF WalkInv, RerunSoFar, Active
<1> QED
  BY <1>1, <1>3, <1>4, WalkWorker

\* A worker that moves on has run the stage it leaves.
LEMMA WalkMoves ==
  ASSUME StageTypes, Control, WalkInv, NEW m \in Module, Active(m), AfterStage(m),
         UNCHANGED <<phase, target>>, ckpt' = ckpt \/ Save,
         mods'[m] \in ModuleState, Held(mods'[m]),
         \A n \in Module \ {m} : SameWork(mods'[n], mods[n]),
         \/ Ran(mods'[m], 1, at[m])
         \/ at[m] = Len(Walk) /\ Done(mods'[m])
         \/ phase = "reflow",
         phase = "reflow" =>
           /\ at[m] >= RtlPlace /\ Done(mods'[m])
           /\ at[m] # Len(Walk) => Ran(mods'[m], RtlPlace, at[m])
  PROVE  WalkInv'
<1>1. at[m] \in 1..Len(Walk) /\ Len(Walk) \in Nat /\ RtlPlace \in Nat
  BY Places DEF StageTypes
<1>2. \A n \in Module \ {m} : pc'[n] = pc[n] /\ at'[n] = at[n]
  BY DEF AfterStage, StageTypes
<1>3. CASE at[m] = Len(Walk)
  <2>1. pc'[m] = "ok"
    BY <1>3 DEF AfterStage, StageTypes
  <2>2. Done(mods'[m])
    BY <1>3, RanIsDone
  <2>3. WalkedSoFar(m)' /\ RerunSoFar(m)'
    BY <2>1, <2>2 DEF WalkedSoFar, RerunSoFar, Active
  <2> QED
    BY <1>2, <2>3, WalkWorker
<1>4. CASE at[m] # Len(Walk)
  <2>1. pc'[m] = "between" /\ at'[m] = at[m] + 1
    BY <1>4 DEF AfterStage, StageTypes
  <2>2. at'[m] - 1 = at[m]
    BY <1>1, <2>1
  <2>3. phase = "walk" => WalkedSoFar(m)'
    BY <1>4, <2>1, <2>2 DEF WalkedSoFar, Active
  <2>4. phase = "reflow" => RerunSoFar(m)'
    BY <1>1, <1>4, <2>1, <2>2 DEF RerunSoFar, Active
  <2> QED
    BY <1>2, <2>3, <2>4, WalkWorker
<1> QED
  BY <1>3, <1>4

\* One module's state replaced, or replaced and its hashes published.
LEMMA WorkReplaced ==
  ASSUME mods \in [Module -> ModuleState], NEW m \in Module, NEW r \in ModuleState,
         \/ mods' = [mods EXCEPT ![m] = r]
         \/ \E h : mods' = Publish([mods EXCEPT ![m] = r], m, h, seen[m])
  PROVE  /\ SameWork(mods'[m], r)
         /\ \A n \in Module \ {m} : SameWork(mods'[n], mods[n])
<1> DEFINE ms == [mods EXCEPT ![m] = r]
<1>1. /\ ms \in [Module -> ModuleState] /\ ms[m] = r
      /\ \A n \in Module \ {m} : ms[n] = mods[n]
  BY ExceptType
<1> HIDE DEF ms
<1>2. \A n \in Module : SameWork(mods'[n], ms[n])
  <2>1. CASE mods' = ms
    BY <2>1 DEF SameWork
  <2>2. CASE mods' # ms
    <3>1. PICK h : mods' = Publish(ms, m, h, seen[m])
      BY <2>2 DEF ms
    <3> QED
      BY <1>1, <3>1, PublishedSlots DEF SameWork
  <2> QED
    BY <2>1, <2>2
<1> QED
  BY <1>1, <1>2 DEF SameWork

\* A stage that changes no contract.
LEMMA WalkWorked ==
  ASSUME StageTypes, Control, WalkInv, NEW m \in Module, Active(m), AfterStage(m),
         UNCHANGED <<phase, target>>, ckpt' = ckpt \/ Save,
         mods'[m] \in ModuleState, Held(mods'[m]), StageOf(m) # "judge",
         NEW r, SameWork(mods'[m], r), Worked(mods[m], r, StageOf(m)),
         \A n \in Module \ {m} : SameWork(mods'[n], mods[n])
  PROVE  WalkInv'
<1> DEFINE new == mods'[m]
<1>1. /\ new.completed = mods[m].completed \union {StageOf(m)}
      /\ \A t \in Stage : Present(mods[m], t) => Present(new, t)
      /\ \A t \in Stage \ {StageOf(m)} : new.slot[t].stale = mods[m].slot[t].stale
  BY DEF SameWork, Worked, Present
<1>2. at[m] \in 1..Len(Walk) /\ mods[m] \in ModuleState /\ StageOf(m) = Walk[at[m]]
  BY DEF StageTypes, StageOf
<1>3. phase = "walk" \/ (phase = "reflow" /\ m = target)
  BY DEF Control, PhaseName, AllOk, Quiet, Active, ReflowShape
<1> HIDE DEF new
<1>4. ASSUME NEW first, Ran(mods[m], first, at[m] - 1)
      PROVE  Ran(new, first, at[m])
  <2> SUFFICES ASSUME NEW i \in DOMAIN Walk, first <= i, i <= at[m]
               PROVE  Walk[i] \in new.completed
    BY DEF Ran
  <2>1. i = at[m] \/ i <= at[m] - 1
    BY <1>2, Places
  <2> QED
    BY <1>1, <1>2, <1>4, <2>1 DEF Ran
<1>5. CASE phase = "walk"
  <2>1. Ran(new, 1, at[m])
    BY <1>4, <1>5 DEF WalkInv, WalkedSoFar
  <2> QED
    BY <1>5, <2>1, WalkMoves DEF new
<1>6. CASE phase = "reflow"
  <2>1. /\ Done(mods[m]) /\ at[m] >= RtlPlace
        /\ Ran(mods[m], RtlPlace, at[m] - 1)
    BY <1>3, <1>6 DEF WalkInv, RerunSoFar
  <2>2. Ran(new, RtlPlace, at[m])
    BY <1>4, <2>1
  <2>3. Done(new)
    BY <1>1, <1>2, <2>1, DoneKept
  <2> QED
    BY <1>6, <2>1, <2>2, <2>3, WalkMoves DEF new
<1> QED
  BY <1>3, <1>5, <1>6

\* The specification is the first stage, and no reflow comes to it.
LEMMA SpecIsFirst ==
  ASSUME StageTypes, Control, WalkInv, NEW m \in Module, Active(m), StageOf(m) = "spec"
  PROVE  at[m] = 1 /\ phase = "walk"
<1>1. at[m] = 1
  BY Places DEF StageTypes, StageOf
<1>2. phase = "walk" \/ (phase = "reflow" /\ m = target)
  BY DEF Control, PhaseName, AllOk, Quiet, Active, ReflowShape
<1>3. phase # "reflow"
  <2>1. ASSUME phase = "reflow" PROVE FALSE
    <3>1. at[m] >= RtlPlace /\ RtlPlace >= 2
      BY <1>2, <2>1, Places DEF WalkInv, RerunSoFar
    <3> QED
      BY <1>1, <3>1, Places
  <2> QED
    BY <2>1
<1> QED
  BY <1>1, <1>2, <1>3

LEMMA WalkSteps ==
  ASSUME StageTypes, StageTypes', Control, DataInv, DataInv', WalkInv,
         NEW m \in Module, StageStep(m)
  PROVE  WalkInv'
<1> DEFINE mod == mods[m]
           s == StageOf(m)
<1>1. /\ mods \in [Module -> ModuleState] /\ mod \in ModuleState /\ s \in Stage
      /\ Held(mod) /\ Contract(mod) \in Nat /\ Code(mod) \in Nat
  <2>1. mods \in [Module -> ModuleState] /\ mod \in ModuleState /\ Held(mod)
    BY DEF StageTypes, DataInv, Backed
  <2> QED
    BY <2>1, ContractType, StageOfType
<1>2. mods'[m] \in ModuleState /\ Held(mods'[m])
  BY DEF StageTypes, DataInv, Backed
<1>3. Active(m) /\ UNCHANGED <<phase, target>>
  BY StageStepMovesWorker DEF WorkerStep
<1>4. at[m] \in 1..Len(Walk) /\ s = Walk[at[m]]
  BY DEF StageTypes, StageOf
<1>5. CASE SkipStage(m)
  <2>1. /\ mods' = mods /\ ckpt' = ckpt /\ phase = "walk" /\ s \in mod.completed
        /\ AfterStage(m)
    BY <1>5 DEF SkipStage, Skippable, project
  <2>2. Ran(mod, 1, at[m])
    <3>1. Ran(mod, 1, at[m] - 1)
      BY <1>3, <2>1 DEF WalkInv, WalkedSoFar
    <3> SUFFICES ASSUME NEW i \in DOMAIN Walk, i <= at[m] PROVE Walk[i] \in mod.completed
      BY DEF Ran
    <3>2. i = at[m] \/ (1 <= i /\ i <= at[m] - 1)
      BY <1>4, Places
    <3> QED
      BY <1>4, <2>1, <3>1, <3>2 DEF Ran
  <2>3. \A n \in Module \ {m} : SameWork(mods'[n], mods[n])
    BY <2>1 DEF SameWork
  <2> QED
    BY <1>2, <1>3, <2>1, <2>2, <2>3, WalkMoves
<1>6. CASE BudgetStops(m) \/ BeginStage(m) \/ NodeFails(m)
  <2>1. PICK r \in ModuleState : SameWork(r, mod) /\ mods' = [mods EXCEPT ![m] = r]
    <3>1. /\ SameWork(StageErrorSet(mod, s), mod) /\ SameWork(StageErrorClear(mod, s), mod)
          /\ SameWork(mod, mod)
          /\ StageErrorSet(mod, s) \in ModuleState /\ StageErrorClear(mod, s) \in ModuleState
      BY <1>1, ErrorType DEF SameWork, StageErrorSet, StageErrorClear, ModuleState
    <3>2. mods = [mods EXCEPT ![m] = mod]
      BY <1>1
    <3>3. \/ mods' = mods
          \/ mods' = [mods EXCEPT ![m] = StageErrorSet(mod, s)]
          \/ mods' = [mods EXCEPT ![m] = StageErrorClear(mod, s)]
      BY <1>6 DEF BudgetStops, BeginStage, NodeFails
    <3> HIDE DEF mod, s
    <3> QED
      BY <1>1, <3>1, <3>2, <3>3
  <2>2. \A n \in Module : SameWork(mods'[n], mods[n])
    BY <1>1, <2>1 DEF SameWork
  <2>3. \E x \in {"invoking", "failed"} : pc' = [pc EXCEPT ![m] = x]
    BY <1>6 DEF BudgetStops, BeginStage, NodeFails
  <2>4. at' = at /\ (ckpt' = ckpt \/ Save)
    BY <1>6 DEF BudgetStops, BeginStage, NodeFails
  <2> QED
    BY <1>3, <2>2, <2>3, <2>4, WalkStays
<1>7. CASE SpecReturns(m) \/ SpecFailsReview(m)
  <2>1. at[m] = 1 /\ phase = "walk"
    BY <1>3, <1>7, SpecIsFirst DEF SpecReturns, SpecFailsReview
  <2>2. ASSUME NEW v \in NextVersions(m, Contract(mod)), NEW e \in Elicitations(mod, v)
        PROVE  /\ SpecDone(mod, v, e) \in ModuleState
               /\ SpecUnqualified(mod, v, e) \in ModuleState
               /\ "spec" \in SpecDone(mod, v, e).completed
    <3>1. v \in Nat \ {0} /\ e \in Nat
      BY <1>1, NextVersionType, ElicitationType
    <3>2. SpecArtifacts(mod, v, e) \in ModuleState
      BY <1>1, <3>1, BackedArtifacts DEF DataInv
    <3>3. "spec" \in SpecDone(mod, v, e).completed
      BY <3>2 DEF SpecDone, Completed, StageComplete, ModuleState
    <3> QED
      BY <1>1, <3>1, <3>3, SpecType
  <2>3. CASE SpecReturns(m)
    <3>0. PICK v \in NextVersions(m, Contract(mod)) : \E e \in Elicitations(mod, v) :
            mods' = Publish([mods EXCEPT ![m] = SpecDone(mods[m], v, e)], m,
                            HashAfter(mods[m], "spec", v), seen[m])
      BY <2>3 DEF SpecReturns
    <3>1. PICK e \in Elicitations(mod, v) :
            mods' = Publish([mods EXCEPT ![m] = SpecDone(mod, v, e)], m,
                            HashAfter(mod, "spec", v), seen[m])
      BY <3>0
    <3> HIDE DEF mod
    <3>2. /\ SameWork(mods'[m], SpecDone(mod, v, e))
          /\ \A n \in Module \ {m} : SameWork(mods'[n], mods[n])
      BY <1>1, <2>2, <3>1, WorkReplaced
    <3>3. Ran(mods'[m], 1, at[m])
      BY <2>1, <2>2, <3>2, Places DEF SameWork, Ran
    <3>4. AfterStage(m) /\ Save
      BY <2>3 DEF SpecReturns, StageReturns
    <3> QED
      BY <1>2, <1>3, <2>1, <3>2, <3>3, <3>4, WalkMoves
  <2>4. CASE SpecFailsReview(m)
    <3>0. PICK v \in NextVersions(m, Contract(mod)) : \E e \in Elicitations(mod, v) :
            mods' = [mods EXCEPT ![m] = SpecUnqualified(mods[m], v, e)]
      BY <2>4 DEF SpecFailsReview
    <3>1. PICK e \in Elicitations(mod, v) :
            mods' = [mods EXCEPT ![m] = SpecUnqualified(mod, v, e)]
      BY <3>0
    <3> HIDE DEF mod
    <3>2. \A n \in Module \ {m} : SameWork(mods'[n], mods[n])
      BY <1>1, <2>2, <3>1, WorkReplaced
    <3>3. pc' = [pc EXCEPT ![m] = "failed"] /\ at' = at /\ Save
      BY <2>4 DEF SpecFailsReview
    <3>4. pc'[m] = "failed" /\ \A n \in Module \ {m} : pc'[n] = pc[n]
      BY <3>3 DEF StageTypes
    <3>5. WalkedSoFar(m)'
      BY <3>4 DEF WalkedSoFar, Active
    <3> QED
      BY <1>3, <2>1, <3>2, <3>3, <3>4, <3>5, WalkWorker
  <2> QED
    BY <1>7, <2>3, <2>4
<1>8. CASE RtlReturns(m)
  <2>1. PICK k \in NextVersions(m, Code(mod)) :
          mods' = Publish([mods EXCEPT ![m] = RtlDone(mod, k)], m,
                          HashAfter(mod, "rtl_generate", k), seen[m])
    BY <1>8 DEF RtlReturns
  <2>2. s = "rtl_generate" /\ AfterStage(m) /\ Save
    BY <1>8 DEF RtlReturns, StageReturns
  <2> HIDE DEF mod
  <2>3. k \in Nat \ {0}
    BY <1>1, NextVersionType
  <2>4. RtlDone(mod, k) \in ModuleState /\ Worked(mod, RtlDone(mod, k), s)
    BY <1>1, <2>2, <2>3, RtlType, RtlWorks
  <2>5. /\ SameWork(mods'[m], RtlDone(mod, k))
        /\ \A n \in Module \ {m} : SameWork(mods'[n], mods[n])
    BY <1>1, <2>1, <2>4, WorkReplaced
  <2> QED
    BY <1>2, <1>3, <2>2, <2>4, <2>5, WalkWorked DEF mod
<1>9. CASE CheckReturns(m)
  <2>1. PICK k \in Shipped(m) : mods' = [mods EXCEPT ![m] = StageDone(mod, s, k)]
    BY <1>9 DEF CheckReturns
  <2>2. s \in Stage \ {"elicit", "spec", "rtl_generate"} /\ s # "judge"
    BY <1>4, <1>9, Places DEF CheckReturns
  <2>3. AfterStage(m) /\ Save
    BY <1>9 DEF CheckReturns, StageReturns
  <2>4. k \in Nat /\ (k # 0 \/ k = Code(mod))
    BY <1>1, ShippedType
  <2> HIDE DEF mod
  <2>5. StageDone(mod, s, k) \in ModuleState /\ Worked(mod, StageDone(mod, s, k), s)
    BY <1>1, <2>2, <2>4, StageDoneType, CheckWorks
  <2>6. /\ SameWork(mods'[m], StageDone(mod, s, k))
        /\ \A n \in Module \ {m} : SameWork(mods'[n], mods[n])
    BY <1>1, <2>1, <2>5, WorkReplaced
  <2> QED
    BY <1>2, <1>3, <2>2, <2>3, <2>5, <2>6, WalkWorked DEF mod
<1>10. CASE JudgeReturns(m)
  <2>1. PICK k \in NextVersions(m, Code(mod)), v \in NextVersions(m, Contract(mod)),
             reverify \in {"none", "estimate", "cli"} :
          mods' = [mods EXCEPT ![m] = JudgeDone(mod, k, v, reverify)]
    BY <1>10 DEF JudgeReturns
  <2>2. s = "judge" /\ AfterStage(m) /\ Save
    BY <1>10 DEF JudgeReturns, StageReturns
  <2>3. at[m] = Len(Walk)
    BY <1>4, <2>2, Places
  <2>4. Contract(mod) # 0
    BY <2>2, FirstStage
  <2>5. phase = "walk" \/ (phase = "reflow" /\ m = target)
    BY <1>3 DEF Control, PhaseName, AllOk, Quiet, Active, ReflowShape
  <2>6. /\ Early(mod) /\ Ran(mod, RtlPlace, Len(Walk) - 1)
        /\ phase = "reflow" => at[m] >= RtlPlace
    <3>1. CASE phase = "walk"
      <4>1. Ran(mod, 1, Len(Walk) - 1)
        BY <1>3, <2>3, <3>1 DEF WalkInv, WalkedSoFar
      <4>2. ASSUME NEW i \in DOMAIN Walk, i <= Len(Walk) - 1
            PROVE  Walk[i] \in mod.completed /\ Present(mod, Walk[i])
        BY <1>1, <4>1, <4>2, Places DEF Ran, Held
      <4> QED
        BY <3>1, <4>2, Places DEF Early, Ran
    <3>2. CASE phase = "reflow"
      BY <1>3, <2>3, <2>5, <3>2 DEF WalkInv, RerunSoFar, Done
    <3> QED
      BY <2>5, <3>1, <3>2
  <2> HIDE DEF mod
  <2>7. k \in Nat \ {0} /\ v \in Nat \ {0}
    BY <1>1, NextVersionType
  <2>8. /\ JudgeDone(mod, k, v, reverify) \in ModuleState
        /\ Done(JudgeDone(mod, k, v, reverify))
    BY <1>1, <2>4, <2>6, <2>7, JudgeType, JudgeIsDone
  <2>9. /\ SameWork(mods'[m], JudgeDone(mod, k, v, reverify))
        /\ \A n \in Module \ {m} : SameWork(mods'[n], mods[n])
    BY <1>1, <2>1, <2>8, WorkReplaced
  <2>10. Done(mods'[m])
    BY <2>8, <2>9, SameWorkDone
  <2> QED
    BY <1>2, <1>3, <2>2, <2>3, <2>6, <2>9, <2>10, WalkMoves
<1> QED
  BY StageStep(m), <1>5, <1>6, <1>7, <1>8, <1>9, <1>10 DEF StageStep

\* The module whose RTL integration repaired.
Reshipped(mod, k) ==
  StageDataSet(mod, "rtl_generate", [mod.slot["rtl_generate"] EXCEPT !.v = k, !.code = k])

LEMMA RepairSlots ==
  ASSUME NEW mod \in ModuleState, NEW k \in Nat \ {0}
  PROVE  /\ Reshipped(mod, k).completed = mod.completed
         /\ \A t \in Stage : Present(mod, t) => Present(Reshipped(mod, k), t)
         /\ \A t \in Stage : Reshipped(mod, k).slot[t].stale = mod.slot[t].stale
<1> DEFINE r == Reshipped(mod, k)
           s == "rtl_generate"
           data == [mod.slot[s] EXCEPT !.v = k, !.code = k]
<1>1. s \in Stage \ {"elicit", "spec"}
  BY KnownStages
<1>2. data \in Artifact /\ data.v = k /\ data.stale = mod.slot[s].stale
  BY <1>1 DEF ModuleState, Artifact
<1>3. r = StageDataSet(mod, s, data)
  BY DEF Reshipped
<1> HIDE DEF data, s, r
<1>4. /\ r.slot[s] = data /\ r.completed = mod.completed
      /\ \A t \in Stage \ {s} : r.slot[t] = mod.slot[t]
  BY <1>1, <1>2, <1>3, Patched
<1>5. ASSUME NEW t \in Stage
      PROVE  /\ Present(mod, t) => Present(r, t)
             /\ r.slot[t].stale = mod.slot[t].stale
  <2>1. CASE t = s
    BY <1>2, <1>4, <2>1 DEF Present
  <2>2. CASE t # s
    BY <1>4, <2>2 DEF Present
  <2> QED
    BY <2>1, <2>2
<1> QED
  BY <1>4, <1>5 DEF r

\* Integration repairs the top, which keeps its marks.
LEMMA WalkIntegration ==
  ASSUME StageTypes, Control, WalkInv, IntegrationSkips \/ IntegrationFails \/ IntegrationJudges
  PROVE  WalkInv'
<1> DEFINE mod == mods[Top]
<1>1. /\ mods \in [Module -> ModuleState] /\ Top \in Module /\ mod \in ModuleState
      /\ Code(mod) \in Nat /\ Imported \subseteq Module
  BY ModesAndModules, ContractType DEF StageTypes
<1>2. /\ phase = "integrate" /\ phase' = "decide" /\ UNCHANGED <<ckpt, pc>>
      /\ mods' = mods \/ \E k \in NextVersions(Top, Code(mod)) : mods' = Repaired(k)
  BY DEF IntegrationSkips, IntegrationFails, IntegrationJudges, project
<1>3. ASSUME NEW n \in Module
      PROVE  mods'[n].completed = mods[n].completed /\ Done(mods'[n])
  <2>0. Done(mods[n]) /\ mods[n] \in ModuleState
    BY <1>1, <1>2 DEF WalkInv
  <2>1. CASE mods'[n] = mods[n]
    BY <2>0, <2>1
  <2>2. CASE mods'[n] # mods[n]
    <3>1. PICK k \in NextVersions(Top, Code(mod)) : mods' = Repaired(k)
      BY <1>2, <2>2
    <3> DEFINE r == Reshipped(mod, k)
    <3>2. Repaired(k) = [mods EXCEPT ![Top] = IF k = Code(mod) THEN mod ELSE r]
      BY <1>1 DEF Repaired, Reshipped
    <3>3. k \in Nat \ {0}
      BY <1>1, NextVersionType
    <3>4. /\ r.completed = mod.completed
          /\ \A t \in Stage : Present(mod, t) => Present(r, t)
          /\ \A t \in Stage : r.slot[t].stale = mod.slot[t].stale
      BY <1>1, <3>3, RepairSlots
    <3> HIDE DEF r
    <3>5. n = Top /\ mods'[n] = r
      BY <1>1, <2>2, <3>1, <3>2
    <3>6. Done(r)
      BY <2>0, <3>4, <3>5, DoneKept
    <3> QED
      BY <3>4, <3>5, <3>6
  <2> QED
    BY <2>1, <2>2
<1> QED
  BY <1>1, <1>2, <1>3 DEF WalkInv

LEMMA WalkLaunch ==
  ASSUME IsFiniteSet(Stage), TypeOK, DataInv, WalkInv, LaunchWave
  PROVE  WalkInv'
<1>1. /\ phase = "walk" /\ UNCHANGED <<mods, ckpt, phase, at>>
      /\ pc' = [m \in Module |-> IF m \in InWave(wave) THEN Entered(m) ELSE pc[m]]
      /\ \A m \in InWave(wave) : pc[m] = "off"
  BY DEF LaunchWave, project
<1>2. ASSUME NEW m \in Module PROVE WalkedSoFar(m)'
  <2>1. CASE m \notin InWave(wave)
    BY <1>1, <2>1 DEF WalkInv, WalkedSoFar, Active
  <2>2. CASE m \in InWave(wave)
    <3>1. at[m] = 1 /\ pc'[m] = Entered(m)
      BY <1>1, <2>2 DEF WalkInv, WalkedSoFar
    <3>2. Ran(mods[m], 1, at[m] - 1)
      BY <3>1, Places DEF Ran
    <3>3. Entered(m) = "ok" => Done(mods[m])
      BY EnteredOkIsImported, ImportedIsDone
    <3> QED
      BY <1>1, <3>1, <3>2, <3>3 DEF WalkedSoFar
  <2> QED
    BY <2>1, <2>2
<1>3. \A m \in Imported : pc'[m] \in {"off", "ok"}
  BY <1>1, ImportedIsComplete, ModesAndModules DEF WalkInv
<1> QED
  BY <1>1, <1>2, <1>3 DEF WalkInv

LEMMA WalkReflow ==
  ASSUME IsFiniteSet(Stage), TypeOK, WalkInv, StartReflow
  PROVE  WalkInv'
<1>1. /\ phase = "decide" /\ phase' = "reflow" /\ UNCHANGED <<mods, ckpt, target>>
      /\ target \in Module
      /\ pc' = [pc EXCEPT ![target] = Entered(target)]
      /\ at' = [at EXCEPT ![target] = RtlPlace]
  BY DEF StartReflow, MayReflow, TypeOK, project
<1>2. at'[target] = RtlPlace
  BY <1>1 DEF TypeOK
<1>3. Ran(mods[target], RtlPlace, RtlPlace - 1)
  BY Places DEF Ran
<1>4. RerunSoFar(target)'
  BY <1>1, <1>2, <1>3, Places DEF WalkInv, RerunSoFar
<1>5. \A m \in Imported : pc'[m] \in {"off", "ok"}
  BY <1>1, ImportedIsComplete, ModesAndModules DEF WalkInv, TypeOK
<1> QED
  BY <1>1, <1>4, <1>5 DEF WalkInv

LEMMA WalkInit ==
  ASSUME Init
  PROVE  WalkInv
<1>1. /\ mods = [m \in Module |-> seededModule(m)] /\ ckpt[1] = mods
      /\ \A m \in Module : pc[m] = "off" /\ at[m] = 1
      /\ phase = "walk"
  BY DEF Init, project
<1>2. \A m \in Imported : seededModule(m).completed = Stage
  BY DEF seededModule, blankModule
<1> QED
  BY <1>1, <1>2, ModesAndModules DEF WalkInv, WalkedSoFar, Active

LEMMA WalkNext ==
  ASSUME IsFiniteSet(Stage), TypeOK, TypeOK', Control, Control', DataInv, DataInv',
         WalkInv, [Next]_vars
  PROVE  WalkInv'
<1>1. CASE LaunchWave
  BY <1>1, WalkLaunch
<1>2. CASE WaveSettles \/ Close
  <2>1. UNCHANGED <<mods, pc, at>> /\ (ckpt' = ckpt \/ ckpt' = project')
    BY <1>2, SavedOrNot DEF WaveSettles, Close, project
  <2>2. \A m \in Imported : mods'[m].completed = Stage /\ ckpt'[1][m].completed = Stage
    BY <2>1 DEF WalkInv, project
  <2>3. CASE WaveSettles
    <3>1. phase = "walk" /\ phase' \in {"walk", "integrate", "halted"}
      BY <2>3 DEF WaveSettles
    <3>2. phase' = "integrate" => \A m \in Module : pc[m] = "ok"
      BY <2>1 DEF Control, AllOk
    <3> QED
      BY <2>1, <2>2, <3>1, <3>2 DEF WalkInv, WalkedSoFar, Active
  <2>4. CASE Close
    <3>1. phase \in {"closing", "decide"} /\ phase' = "done"
      BY <2>4 DEF Close
    <3> QED
      BY <2>1, <2>2, <3>1 DEF WalkInv
  <2> QED
    BY <1>2, <2>3, <2>4
<1>3. ASSUME NEW m \in Module, StageStep(m)
      PROVE  WalkInv'
  <2>1. StageTypes /\ StageTypes'
    BY <1>3, TypeParts, StepType
  <2> QED
    BY <1>3, <2>1, WalkSteps
<1>4. CASE IntegrationSkips \/ IntegrationFails \/ IntegrationJudges
  BY <1>4, WalkIntegration, TypeParts
<1>5. CASE StartReflow
  BY <1>5, WalkReflow
<1>6. CASE ReflowSettles
  <2>1. /\ phase = "reflow" /\ phase' \in {"integrate", "closing"}
        /\ UNCHANGED <<mods, ckpt, pc>>
    BY <1>6 DEF ReflowSettles, project
  <2> QED
    BY <2>1 DEF WalkInv
<1>7. CASE Crash \/ Resume
  <2>1. /\ mods' = ckpt[1] /\ ckpt' = ckpt /\ phase' \in {"walk", "crashed"}
        /\ \A m \in Module : pc'[m] = "off" /\ at'[m] = 1
    BY <1>7 DEF Crash, Resume, Load
  <2> QED
    BY <2>1, ModesAndModules DEF WalkInv, WalkedSoFar, Active
<1>8. CASE UNCHANGED vars
  <2>1. UNCHANGED <<mods, ckpt, phase, pc, at, target>>
    BY <1>8 DEF vars, project, walk, integration
  <2> QED
    BY <2>1 DEF WalkInv, WalkedSoFar, RerunSoFar, Active
<1> QED
  BY <1>1, <1>2, <1>3, <1>4, <1>5, <1>6, <1>7, <1>8 DEF Next, Progress

\* When a project is declared done, every stage of every module has run, for any
\* finite pipeline: what is no longer completed lost it to a contract that judge
\* revised.  It holds in order and in waves, through resumes that skip what a lost
\* checkpoint still knew, reflows that fail half way, and imported modules.
THEOREM DoneIsWalked ==
  ASSUME IsFiniteSet(Stage)
  PROVE  Spec => []DoneMeansWalked
<1>1. Init => TypeOK /\ Control /\ DataInv /\ WalkInv
  BY TypeInit, ControlInit, DataInit, WalkInit
<1>2. TypeOK /\ Control /\ DataInv /\ WalkInv /\ [Next]_vars
        => (TypeOK /\ Control /\ DataInv /\ WalkInv)'
  BY TypeNext, ControlNext, DataNext, WalkNext
<1>3. WalkInv => DoneMeansWalked
  <2> SUFFICES ASSUME WalkInv, phase = "done", NEW m \in Module, NEW i \in DOMAIN Walk
               PROVE  /\ Present(mods[m], Walk[i])
                      /\ \/ Walk[i] \in mods[m].completed
                         \/ mods[m].slot["judge"].stale
                         \/ i < RtlPlace /\ mods[m].slot[Walk[i]].stale
    BY DEF DoneMeansWalked
  <2>1. Done(mods[m])
    BY DEF WalkInv
  <2>2. i < RtlPlace \/ RtlPlace <= i
    BY Places
  <2> QED
    BY <2>1, <2>2 DEF Done, Early
<1> QED
  BY <1>1, <1>2, <1>3, PTL DEF Spec

----
\* A first run that exits 0 ships what was judged.

\* The verdict is stale, or given for the RTL and the contract there are.
JudgeFits(mod) ==
  \/ mod.slot["judge"].stale
  \/ mod.slot["judge"].contract = Contract(mod) /\ mod.slot["judge"].code = Code(mod)

LEMMA JudgeFitsWhatItLeaves ==
  ASSUME NEW mod \in ModuleState, Contract(mod) # 0,
         NEW k \in Nat \ {0}, NEW v \in Nat \ {0}, NEW reverify
  PROVE  JudgeFits(JudgeDone(mod, k, v, reverify))
<1> DEFINE verify   == Made(1, v, k)
           data     == Made(k, v, k)
           set      == StageDataSet(mod, "judge", verify)
           judged   == Mirrored(set, k, v)
           verified == IF reverify = "none" THEN judged
                       ELSE StageDataMerge(judged, "verify", verify)
           revised  == StageDataMerge(verified, "spec", Made(v, v, 0))
           final    == IF reverify = "cli" THEN StageDataSet(revised, "verify", verify)
                       ELSE revised
           done     == StageComplete(final, "judge")
<1>1. JudgeDone(mod, k, v, reverify) = done
  BY DEF JudgeDone, Completed
<1>2. /\ verify \in Artifact /\ verify.v = 1 /\ verify.contract = v /\ verify.code = k
      /\ data \in Artifact /\ data.v = k
  BY DEF Made, Artifact
<1>3. /\ "judge" \in Stage \ {"elicit", "spec", "rtl_generate", "verify"}
      /\ "verify" \in Stage \ {"elicit", "spec"}
      /\ "rtl_generate" \in Stage \ {"elicit", "spec", "verify", "judge"}
      /\ "spec" \in Stage
  BY KnownStages
<1>4. judged = set \/ judged = StageDataMerge(set, "rtl_generate", data)
  BY DEF Mirrored
<1>5. \/ k = Code(set) /\ v = Contract(set)
      \/ judged = StageDataMerge(set, "rtl_generate", data)
  BY DEF Mirrored
<1> HIDE DEF verify, data
<1>6. /\ set \in ModuleState /\ set.slot["judge"] = verify
      /\ Contract(set) = Contract(mod)
  BY <1>2, <1>3, Patched
<1> HIDE DEF set
<1>7. /\ judged \in ModuleState /\ judged.slot["judge"] = verify
      /\ Contract(judged) = Contract(mod) /\ Code(judged) = k
  <2>1. CASE k = Code(set) /\ v = Contract(set)
    BY <1>6, <2>1 DEF judged, Mirrored
  <2>2. CASE judged = StageDataMerge(set, "rtl_generate", data)
    <3> HIDE DEF judged
    <3>1. /\ judged \in ModuleState /\ judged.slot["rtl_generate"].v = data.v
          /\ \A t \in Stage \ {"rtl_generate"} : judged.slot[t] = set.slot[t]
          /\ Contract(judged) = Contract(set)
      BY <1>2, <1>3, <1>6, <2>2, Patched
    <3> QED
      BY <1>2, <1>3, <1>6, <3>1 DEF Code
  <2> QED
    BY <1>5, <2>1, <2>2
<1> HIDE DEF judged
<1>8. /\ verified \in ModuleState /\ verified.slot["judge"] = verify
      /\ Contract(verified) = Contract(mod) /\ Code(verified) = k
  <2>1. CASE reverify = "none"
    BY <1>7, <2>1
  <2>2. CASE reverify # "none"
    <3> DEFINE r == StageDataMerge(judged, "verify", verify)
    <3>1. /\ r \in ModuleState /\ Contract(r) = Contract(judged)
          /\ \A t \in Stage \ {"verify"} : r.slot[t] = judged.slot[t]
      BY <1>2, <1>3, <1>7, Patched
    <3>2. verified = r
      BY <2>2
    <3> HIDE DEF r, verified
    <3> QED
      BY <1>3, <1>7, <3>1, <3>2 DEF Code
  <2> QED
    BY <2>1, <2>2
<1> HIDE DEF verified
<1>9. /\ revised \in ModuleState
      /\ v = Contract(mod) =>
           \A t \in Stage \ {"spec"} : revised.slot[t] = verified.slot[t]
      /\ v # Contract(mod) => revised.slot["judge"].stale
      /\ Contract(revised) = v
  <2>1. Present(verified, "judge")
    BY <1>2, <1>8 DEF Present
  <2>2. Contract(revised) = v
    <3> DEFINE spec == Made(v, v, 0)
               x == [spec EXCEPT !.stale = verified.slot["spec"].stale]
               patched == [verified EXCEPT !.slot["spec"] = x]
               S == {t \in After("spec") : Present(patched, t)}
    <3>1. spec \in Artifact /\ spec.v = v
      BY DEF Made, Artifact
    <3>2. revised = invalidateContractDependents(verified, "spec", x, patched)
      BY DEF revised, StageDataMerge
    <3> HIDE DEF spec
    <3>3. x \in Artifact /\ x.v = v
      BY <1>3, <1>8, <3>1, MergedData
    <3> HIDE DEF x
    <3>4. patched \in ModuleState /\ patched.slot["spec"] = x
      BY <1>3, <1>8, <3>3, SlotType, PutSlot
    <3> HIDE DEF patched
    <3>5. S \in SUBSET Stage
      BY DEF After
    <3>6. revised = patched \/ revised = MarkStale(patched, S)
      BY <3>2 DEF invalidateContractDependents
    <3> HIDE DEF S
    <3>7. MarkStale(patched, S).slot["spec"].v = patched.slot["spec"].v
      BY <1>3, <3>4, <3>5, MarkedSlots
    <3> QED
      BY <3>3, <3>4, <3>6, <3>7 DEF Contract
  <2> QED
    BY <1>3, <1>8, <2>1, <2>2, RevisedSlots
<1> HIDE DEF revised
<1>10. /\ final \in ModuleState
       /\ \A t \in Stage \ {"verify"} : final.slot[t] = revised.slot[t]
  <2>1. CASE reverify = "cli"
    <3> DEFINE r == StageDataSet(revised, "verify", verify)
    <3>1. r \in ModuleState /\ \A t \in Stage \ {"verify"} : r.slot[t] = revised.slot[t]
      BY <1>2, <1>3, <1>9, Patched
    <3>2. final = r
      BY <2>1
    <3> HIDE DEF r, final
    <3> QED
      BY <3>1, <3>2
  <2>2. CASE reverify # "cli"
    BY <1>9, <2>2
  <2> QED
    BY <2>1, <2>2
<1> HIDE DEF final
<1>11. done.slot = final.slot
  BY <1>10 DEF StageComplete, ModuleState
<1> HIDE DEF done
<1>12. CASE v = Contract(mod)
  <2>1. /\ done.slot["judge"] = verify
        /\ Contract(done) = v /\ Code(done) = k
    BY <1>3, <1>8, <1>9, <1>10, <1>11, <1>12 DEF Contract, Code
  <2> QED
    BY <1>1, <1>2, <2>1 DEF JudgeFits
<1>13. CASE v # Contract(mod)
  BY <1>1, <1>3, <1>9, <1>10, <1>11, <1>13 DEF JudgeFits
<1> QED
  BY <1>12, <1>13

\* No slot that is set or merged completes anything.
LEMMA DataCompletesNothing ==
  ASSUME NEW mod \in ModuleState, NEW s \in Stage, NEW data \in Artifact
  PROVE  /\ StageDataSet(mod, s, data).completed \subseteq mod.completed
         /\ StageDataMerge(mod, s, data).completed \subseteq mod.completed
<1>1. ASSUME NEW r, NEW x, r = [mod EXCEPT !.slot[s] = x]
      PROVE  /\ r.completed = mod.completed
             /\ \A S : MarkStale(r, S).completed \subseteq mod.completed
  BY <1>1 DEF MarkStale, ModuleState
<1> QED
  BY <1>1 DEF StageDataSet, StageDataMerge, invalidateContractDependents

LEMMA SpecCompletes ==
  ASSUME NEW mod \in ModuleState, NEW v \in Nat, NEW e \in Nat
  PROVE  SpecDone(mod, v, e).completed \subseteq mod.completed \union {"elicit", "spec"}
<1> DEFINE set == StageDataSet(mod, "spec", Made(v, v, 0))
           merged == StageDataMerge(set, "elicit", Made(e, 0, 0))
           r == SpecArtifacts(mod, v, e)
<1>1. "spec" \in Stage /\ "elicit" \in Stage
  BY KnownStages
<1>2. Made(v, v, 0) \in Artifact /\ Made(e, 0, 0) \in Artifact
  BY MadeType
<1>3. set \in ModuleState /\ set.completed \subseteq mod.completed
  BY <1>1, <1>2, DataType, DataCompletesNothing
<1>4. r = set \/ r = StageComplete(merged, "elicit")
  BY DEF SpecArtifacts
<1> HIDE DEF set
<1>5. merged \in ModuleState /\ merged.completed \subseteq set.completed
  BY <1>1, <1>2, <1>3, DataType, DataCompletesNothing
<1> HIDE DEF merged
<1>6. SpecDone(mod, v, e) = StageComplete(r, "spec")
  BY DEF SpecDone, Completed
<1> HIDE DEF r
<1>7. /\ StageComplete(merged, "elicit") \in ModuleState
      /\ StageComplete(merged, "elicit").completed = merged.completed \union {"elicit"}
  BY ZenonT(30), <1>1, <1>5, CompletedType DEF StageComplete, ModuleState
<1>8. r \in ModuleState /\ r.completed \subseteq mod.completed \union {"elicit"}
  BY <1>3, <1>4, <1>5, <1>7
<1>9. StageComplete(r, "spec").completed = r.completed \union {"spec"}
  BY <1>8 DEF StageComplete, ModuleState
<1> QED
  BY <1>6, <1>8, <1>9

\* The verdict of the system stands: nothing has changed since integration gave it.
Passed ==
  /\ phase \in {"decide", "done"}
  /\ AllOk
  /\ intResult = "ok" /\ measured = "PASS"
  /\ \A m \in Module : ~ mods[m].slot["judge"].stale

\* In a first run nothing is completed before it has run, so every verdict is of it.
Fresh ==
  /\ \A m \in Imported \ {Top} : JudgeFits(mods[m])
  /\ \A m \in Module \ Imported :
       phase = "walk" /\ pc[m] \in {"off", "between", "invoking"} =>
         "judge" \notin mods[m].completed
  /\ \A m \in Module \ {Top} : pc[m] = "ok" => JudgeFits(mods[m])
  /\ phase \in {"reflow", "closing"} => intResult = "fail"
  /\ intJudge = "PASS" \/ exit = "0" => Passed

FreshInv ==
  /\ runs = 1 /\ phase # "crashed" => Fresh
  /\ runs = 1 /\ phase = "crashed" => exit # "0"

LEMMA SameWorkFits ==
  ASSUME NEW r, NEW mod, SameWork(r, mod)
  PROVE  JudgeFits(r) <=> JudgeFits(mod)
  BY DEF SameWork, JudgeFits, Contract, Code

\* What a worker leaves alone.
Aside ==
  UNCHANGED <<phase, target, intJudge, intResult, measured, exit, runs>>

LEMMA FreshWorker ==
  ASSUME Control, WalkInv, FreshInv, NEW m \in Module, Active(m), Aside,
         \A n \in Module \ {m} : SameWork(mods'[n], mods[n]) /\ pc'[n] = pc[n],
         runs = 1 /\ phase = "walk" /\ pc'[m] \in {"off", "between", "invoking"} =>
           "judge" \notin mods'[m].completed,
         pc'[m] = "ok" => JudgeFits(mods'[m])
  PROVE  FreshInv'
<1>1. m \notin Imported /\ phase \in {"walk", "reflow"}
  BY DEF WalkInv, Control, PhaseName, AllOk, Quiet, Active
<1>2. ~ AllOk
  BY DEF AllOk, Active
<1> SUFFICES ASSUME runs = 1, Fresh PROVE Fresh'
  BY <1>1 DEF FreshInv, Aside
<1>3. intJudge # "PASS" /\ exit # "0"
  BY <1>2 DEF Fresh, Passed
<1>4. \A n \in Module \ {m} : /\ mods'[n].completed = mods[n].completed
                              /\ JudgeFits(mods'[n]) <=> JudgeFits(mods[n])
  BY SameWorkFits DEF SameWork
<1>5. \A n \in Imported \ {Top} : JudgeFits(mods'[n])
  BY <1>1, <1>4, ModesAndModules DEF Fresh
<1>6. \A n \in Module \ Imported :
        phase' = "walk" /\ pc'[n] \in {"off", "between", "invoking"} =>
          "judge" \notin mods'[n].completed
  BY <1>4 DEF Fresh, Aside
<1>7. \A n \in Module \ {Top} : pc'[n] = "ok" => JudgeFits(mods'[n])
  BY <1>4 DEF Fresh
<1> QED
  BY <1>3, <1>5, <1>6, <1>7 DEF Fresh, Aside

\* A stage that is not the verdict and does not complete it.
LEMMA FreshStage ==
  ASSUME StageTypes, Control, WalkInv, FreshInv, NEW m \in Module, Active(m), Aside,
         StageOf(m) # "judge",
         \A n \in Module \ {m} : SameWork(mods'[n], mods[n]),
         "judge" \in mods'[m].completed => "judge" \in mods[m].completed,
         AfterStage(m) \/ \E x \in {"invoking", "failed"} : pc' = [pc EXCEPT ![m] = x]
  PROVE  FreshInv'
<1>1. at[m] # Len(Walk)
  BY Places DEF StageOf
<1>2. PICK x \in {"between", "invoking", "failed"} : pc' = [pc EXCEPT ![m] = x]
  BY <1>1 DEF AfterStage
<1>3. pc'[m] = x /\ \A n \in Module \ {m} : pc'[n] = pc[n]
  BY <1>2 DEF StageTypes
<1>4. m \notin Imported
  BY DEF WalkInv, Active
<1>5. runs = 1 /\ phase = "walk" => "judge" \notin mods'[m].completed
  BY <1>4 DEF FreshInv, Fresh, Active
<1> QED
  BY <1>3, <1>5, FreshWorker

LEMMA FreshSteps ==
  ASSUME StageTypes, Control, DataInv, WalkInv, FreshInv, NEW m \in Module, StageStep(m)
  PROVE  FreshInv'
<1> DEFINE mod == mods[m]
           s == StageOf(m)
<1>1. /\ mods \in [Module -> ModuleState] /\ mod \in ModuleState /\ s \in Stage
      /\ Contract(mod) \in Nat /\ Code(mod) \in Nat /\ Backed(mod)
  <2>1. mods \in [Module -> ModuleState] /\ mod \in ModuleState /\ Backed(mod)
    BY DEF StageTypes, DataInv
  <2> QED
    BY <2>1, ContractType, StageOfType
<1>2. Active(m)
  BY StageStepMovesWorker DEF WorkerStep
<1>3. Aside
  BY DEF Aside, StageStep, SkipStage, BudgetStops, BeginStage, NodeFails, SpecReturns,
         SpecFailsReview, RtlReturns, CheckReturns, JudgeReturns, StageReturns,
         integration, project
<1>4. at[m] \in 1..Len(Walk) /\ s = Walk[at[m]]
  BY DEF StageTypes, StageOf
<1>5. CASE SkipStage(m)
  <2>1. /\ mods' = mods /\ phase = "walk" /\ s \in mod.completed /\ AfterStage(m)
        /\ pc[m] = "between"
    BY <1>5 DEF SkipStage, Skippable, project
  <2>2. \A n \in Module \ {m} : SameWork(mods'[n], mods[n])
    BY <2>1 DEF SameWork
  <2>3. CASE s # "judge"
    BY <1>2, <1>3, <2>1, <2>2, <2>3, FreshStage
  <2>4. CASE s = "judge"
    <3>1. m \notin Imported
      BY <1>2 DEF WalkInv, Active
    <3>2. runs # 1
      BY <2>1, <2>4, <3>1 DEF FreshInv, Fresh
    <3> QED
      BY <1>3, <3>2 DEF FreshInv, Aside
  <2> QED
    BY <2>3, <2>4
<1>6. CASE BudgetStops(m) \/ BeginStage(m) \/ NodeFails(m)
  <2>1. PICK r \in ModuleState : SameWork(r, mod) /\ mods' = [mods EXCEPT ![m] = r]
    <3>1. /\ SameWork(StageErrorSet(mod, s), mod) /\ SameWork(StageErrorClear(mod, s), mod)
          /\ SameWork(mod, mod)
          /\ StageErrorSet(mod, s) \in ModuleState /\ StageErrorClear(mod, s) \in ModuleState
      BY <1>1, ErrorType DEF SameWork, StageErrorSet, StageErrorClear, ModuleState
    <3>2. mods = [mods EXCEPT ![m] = mod]
      BY <1>1
    <3>3. \/ mods' = mods
          \/ mods' = [mods EXCEPT ![m] = StageErrorSet(mod, s)]
          \/ mods' = [mods EXCEPT ![m] = StageErrorClear(mod, s)]
      BY <1>6 DEF BudgetStops, BeginStage, NodeFails
    <3> HIDE DEF mod, s
    <3> QED
      BY <1>1, <3>1, <3>2, <3>3
  <2>2. \A n \in Module : SameWork(mods'[n], mods[n])
    BY <1>1, <2>1 DEF SameWork
  <2>3. PICK x \in {"invoking", "failed"} : pc' = [pc EXCEPT ![m] = x]
    BY <1>6 DEF BudgetStops, BeginStage, NodeFails
  <2>4. pc'[m] = x /\ \A n \in Module \ {m} : pc'[n] = pc[n]
    BY <2>3 DEF StageTypes
  <2>5. m \notin Imported
    BY <1>2 DEF WalkInv, Active
  <2>6. runs = 1 /\ phase = "walk" => "judge" \notin mods'[m].completed
    BY <1>2, <2>2, <2>5 DEF FreshInv, Fresh, Active, SameWork
  <2> QED
    BY <1>2, <1>3, <2>2, <2>4, <2>6, FreshWorker
<1>7. CASE SpecReturns(m) \/ SpecFailsReview(m)
  <2>1. s # "judge"
    BY <1>7 DEF SpecReturns, SpecFailsReview
  <2>2. ASSUME NEW v \in NextVersions(m, Contract(mod)), NEW e \in Elicitations(mod, v)
        PROVE  /\ SpecDone(mod, v, e) \in ModuleState
               /\ SpecUnqualified(mod, v, e) \in ModuleState
               /\ SpecDone(mod, v, e).completed \subseteq mod.completed \union {"elicit", "spec"}
    <3>1. v \in Nat \ {0} /\ e \in Nat
      BY <1>1, NextVersionType, ElicitationType
    <3> QED
      BY <1>1, <3>1, SpecType, SpecCompletes
  <2>3. CASE SpecReturns(m)
    <3>0. PICK v \in NextVersions(m, Contract(mod)) : \E e \in Elicitations(mod, v) :
            mods' = Publish([mods EXCEPT ![m] = SpecDone(mods[m], v, e)], m,
                            HashAfter(mods[m], "spec", v), seen[m])
      BY <2>3 DEF SpecReturns
    <3>1. PICK e \in Elicitations(mod, v) :
            mods' = Publish([mods EXCEPT ![m] = SpecDone(mod, v, e)], m,
                            HashAfter(mod, "spec", v), seen[m])
      BY <3>0
    <3> HIDE DEF mod
    <3>2. /\ SameWork(mods'[m], SpecDone(mod, v, e))
          /\ \A n \in Module \ {m} : SameWork(mods'[n], mods[n])
      BY <1>1, <2>2, <3>1, WorkReplaced
    <3>3. "judge" \in mods'[m].completed => "judge" \in mods[m].completed
      BY <2>2, <3>2 DEF SameWork, mod
    <3>4. AfterStage(m)
      BY <2>3 DEF SpecReturns, StageReturns
    <3> QED
      BY <1>2, <1>3, <2>1, <3>2, <3>3, <3>4, FreshStage
  <2>4. CASE SpecFailsReview(m)
    <3>0. PICK v \in NextVersions(m, Contract(mod)) : \E e \in Elicitations(mod, v) :
            mods' = [mods EXCEPT ![m] = SpecUnqualified(mods[m], v, e)]
      BY <2>4 DEF SpecFailsReview
    <3>1. PICK e \in Elicitations(mod, v) :
            mods' = [mods EXCEPT ![m] = SpecUnqualified(mod, v, e)]
      BY <3>0
    <3> HIDE DEF mod
    <3>2. \A n \in Module \ {m} : SameWork(mods'[n], mods[n])
      BY <1>1, <2>2, <3>1, WorkReplaced
    <3>3. pc'[m] = "failed" /\ \A n \in Module \ {m} : pc'[n] = pc[n]
      BY <2>4 DEF SpecFailsReview, StageTypes
    <3> QED
      BY <1>2, <1>3, <3>2, <3>3, FreshWorker
  <2> QED
    BY <1>7, <2>3, <2>4
<1>8. CASE RtlReturns(m)
  <2>1. PICK k \in NextVersions(m, Code(mod)) :
          mods' = Publish([mods EXCEPT ![m] = RtlDone(mod, k)], m,
                          HashAfter(mod, "rtl_generate", k), seen[m])
    BY <1>8 DEF RtlReturns
  <2>2. s = "rtl_generate" /\ AfterStage(m)
    BY <1>8 DEF RtlReturns, StageReturns
  <2> HIDE DEF mod
  <2>3. k \in Nat \ {0}
    BY <1>1, NextVersionType
  <2>4. RtlDone(mod, k) \in ModuleState /\ Worked(mod, RtlDone(mod, k), s)
    BY <1>1, <2>2, <2>3, RtlType, RtlWorks
  <2>5. /\ SameWork(mods'[m], RtlDone(mod, k))
        /\ \A n \in Module \ {m} : SameWork(mods'[n], mods[n])
    BY <1>1, <2>1, <2>4, WorkReplaced
  <2>6. "judge" \in mods'[m].completed => "judge" \in mods[m].completed
    BY <2>2, <2>4, <2>5 DEF SameWork, Worked, mod
  <2> QED
    BY <1>2, <1>3, <2>2, <2>5, <2>6, FreshStage
<1>9. CASE CheckReturns(m)
  <2>1. PICK k \in Shipped(m) : mods' = [mods EXCEPT ![m] = StageDone(mod, s, k)]
    BY <1>9 DEF CheckReturns
  <2>2. s \in Stage \ {"elicit", "spec", "rtl_generate"} /\ s # "judge" /\ AfterStage(m)
    BY <1>4, <1>9, Places DEF CheckReturns, StageReturns
  <2>3. k \in Nat /\ (k # 0 \/ k = Code(mod))
    BY <1>1, ShippedType
  <2> HIDE DEF mod
  <2>4. StageDone(mod, s, k) \in ModuleState /\ Worked(mod, StageDone(mod, s, k), s)
    BY <1>1, <2>2, <2>3, StageDoneType, CheckWorks
  <2>5. /\ SameWork(mods'[m], StageDone(mod, s, k))
        /\ \A n \in Module \ {m} : SameWork(mods'[n], mods[n])
    BY <1>1, <2>1, <2>4, WorkReplaced
  <2>6. "judge" \in mods'[m].completed => "judge" \in mods[m].completed
    BY <2>2, <2>4, <2>5 DEF SameWork, Worked, mod
  <2> QED
    BY <1>2, <1>3, <2>2, <2>5, <2>6, FreshStage
<1>10. CASE JudgeReturns(m)
  <2>1. PICK k \in NextVersions(m, Code(mod)), v \in NextVersions(m, Contract(mod)),
             reverify \in {"none", "estimate", "cli"} :
          mods' = [mods EXCEPT ![m] = JudgeDone(mod, k, v, reverify)]
    BY <1>10 DEF JudgeReturns
  <2>2. s = "judge" /\ AfterStage(m)
    BY <1>10 DEF JudgeReturns, StageReturns
  <2>3. pc'[m] = "ok" /\ \A n \in Module \ {m} : pc'[n] = pc[n]
    <3>1. at[m] = Len(Walk)
      BY <1>4, <2>2, Places
    <3> QED
      BY <2>2, <3>1 DEF AfterStage, StageTypes
  <2>4. Contract(mod) # 0
    BY <2>2, FirstStage
  <2> HIDE DEF mod
  <2>5. k \in Nat \ {0} /\ v \in Nat \ {0}
    BY <1>1, NextVersionType
  <2>6. /\ JudgeDone(mod, k, v, reverify) \in ModuleState
        /\ JudgeFits(JudgeDone(mod, k, v, reverify))
    BY <1>1, <2>4, <2>5, JudgeType, JudgeFitsWhatItLeaves
  <2>7. /\ SameWork(mods'[m], JudgeDone(mod, k, v, reverify))
        /\ \A n \in Module \ {m} : SameWork(mods'[n], mods[n])
    BY <1>1, <2>1, <2>6, WorkReplaced
  <2>8. JudgeFits(mods'[m])
    BY <2>6, <2>7, SameWorkFits
  <2> QED
    BY <1>2, <1>3, <2>3, <2>7, <2>8, FreshWorker
<1> QED
  BY StageStep(m), <1>5, <1>6, <1>7, <1>8, <1>9, <1>10 DEF StageStep

\* What integration leaves of the modules.
LEMMA RepairLeaves ==
  ASSUME StageTypes, IntegrationSkips \/ IntegrationFails \/ IntegrationJudges
  PROVE  /\ \A n \in Module \ {Top} : mods'[n] = mods[n]
         /\ \A n \in Module : mods'[n].slot["judge"].stale = mods[n].slot["judge"].stale
<1> DEFINE mod == mods[Top]
<1>1. /\ mods \in [Module -> ModuleState] /\ Top \in Module /\ mod \in ModuleState
      /\ Code(mod) \in Nat /\ "judge" \in Stage
  BY ModesAndModules, ContractType, KnownStages DEF StageTypes
<1>2. mods' = mods \/ \E k \in NextVersions(Top, Code(mod)) : mods' = Repaired(k)
  BY DEF IntegrationSkips, IntegrationFails, IntegrationJudges, project
<1>3. CASE mods' = mods
  BY <1>3
<1>4. CASE mods' # mods
  <2>1. PICK k \in NextVersions(Top, Code(mod)) : mods' = Repaired(k)
    BY <1>2, <1>4
  <2> DEFINE r == Reshipped(mod, k)
  <2>2. Repaired(k) = [mods EXCEPT ![Top] = IF k = Code(mod) THEN mod ELSE r]
    BY <1>1 DEF Repaired, Reshipped
  <2>3. k \in Nat \ {0}
    BY <1>1, NextVersionType
  <2>4. r.slot["judge"].stale = mod.slot["judge"].stale
    BY <1>1, <2>3, RepairSlots
  <2> HIDE DEF r
  <2> QED
    BY <1>1, <2>1, <2>2, <2>4
<1> QED
  BY <1>3, <1>4

\* Integration gives the verdict.
LEMMA FreshIntegration ==
  ASSUME StageTypes, Control, WalkInv, FreshInv,
         IntegrationSkips \/ IntegrationFails \/ IntegrationJudges
  PROVE  FreshInv'
<1>1. /\ phase = "integrate" /\ phase' = "decide" /\ UNCHANGED <<pc, exit, runs>>
      /\ AllOk /\ AllOk'
  BY DEF IntegrationSkips, IntegrationFails, IntegrationJudges, Control, AllOk
<1> SUFFICES ASSUME runs = 1, Fresh PROVE Fresh'
  BY <1>1 DEF FreshInv
<1>2. intJudge # "PASS" /\ exit # "0"
  BY <1>1 DEF Fresh, Passed
<1>3. \A n \in Module \ {Top} : JudgeFits(mods'[n]) <=> JudgeFits(mods[n])
  BY RepairLeaves
<1>4. intJudge' = "PASS" => Passed'
  <2> SUFFICES ASSUME intJudge' = "PASS" PROVE Passed'
    OBVIOUS
  <2>1. IntegrationJudges
    BY <1>2 DEF IntegrationSkips, IntegrationFails, project
  <2>2. AllJudgedPass /\ intResult' = "ok" /\ measured' = "PASS"
    BY <2>1 DEF IntegrationJudges
  <2>3. \A m \in Module : ~ mods'[m].slot["judge"].stale
    BY <2>2, RepairLeaves DEF AllJudgedPass
  <2> QED
    BY <1>1, <2>2, <2>3 DEF Passed
<1> QED
  BY <1>1, <1>2, <1>3, <1>4, ModesAndModules DEF Fresh

\* A module that is entered and ok was imported.
LEMMA FreshLaunch ==
  ASSUME TypeOK, Control, FreshInv, LaunchWave
  PROVE  FreshInv'
<1>1. /\ phase = "walk"
      /\ UNCHANGED <<mods, phase, intJudge, intResult, measured, exit, runs>>
      /\ pc' = [m \in Module |-> IF m \in InWave(wave) THEN Entered(m) ELSE pc[m]]
      /\ \A m \in InWave(wave) : pc[m] = "off"
  BY DEF LaunchWave, project, integration
<1> SUFFICES ASSUME runs = 1, Fresh PROVE Fresh'
  BY <1>1 DEF FreshInv
<1>2. intJudge # "PASS" /\ exit # "0"
  BY <1>1 DEF Fresh, Passed
<1>3. \A n \in Module \ Imported :
        pc'[n] \in {"off", "between", "invoking"} => "judge" \notin mods'[n].completed
  BY <1>1 DEF Fresh
<1>4. ASSUME NEW n \in Module \ {Top}, pc'[n] = "ok" PROVE JudgeFits(mods'[n])
  <2>1. CASE n \in InWave(wave)
    BY <1>1, <1>4, <2>1, EnteredOkIsImported DEF Fresh
  <2>2. CASE n \notin InWave(wave)
    BY <1>1, <1>4, <2>2 DEF Fresh
  <2> QED
    BY <2>1, <2>2
<1> QED
  BY <1>1, <1>2, <1>3, <1>4 DEF Fresh

LEMMA FreshReflow ==
  ASSUME TypeOK, Control, FreshInv, StartReflow
  PROVE  FreshInv'
<1>1. /\ phase = "decide" /\ phase' = "reflow" /\ intResult = "fail"
      /\ UNCHANGED <<mods, intJudge, intResult, exit, runs>>
      /\ target \in Module /\ pc' = [pc EXCEPT ![target] = Entered(target)]
  BY DEF StartReflow, MayReflow, TypeOK, project
<1> SUFFICES ASSUME runs = 1, Fresh PROVE Fresh'
  BY <1>1 DEF FreshInv
<1>2. intJudge # "PASS" /\ exit # "0"
  BY <1>1 DEF Fresh, Passed
<1>3. ASSUME NEW n \in Module \ {Top}, pc'[n] = "ok" PROVE JudgeFits(mods'[n])
  <2>1. CASE n = target
    BY <1>1, <1>3, <2>1, EnteredOkIsImported DEF Fresh, TypeOK
  <2>2. CASE n # target
    BY <1>1, <1>3, <2>2 DEF Fresh, TypeOK
  <2> QED
    BY <2>1, <2>2
<1> QED
  BY <1>1, <1>2, <1>3 DEF Fresh

\* The end of a wave, of a reflow and of the run.
LEMMA FreshEnds ==
  ASSUME Control, FreshInv, WaveSettles \/ ReflowSettles \/ Close
  PROVE  FreshInv'
<1>1. UNCHANGED <<mods, intJudge, intResult, measured, pc, runs>>
  BY DEF WaveSettles, ReflowSettles, Close, project, integration
<1>2. phase' # "crashed" /\ phase \in {"walk", "reflow", "closing", "decide"}
  BY DEF WaveSettles, ReflowSettles, Close
<1> SUFFICES ASSUME runs = 1, Fresh PROVE Fresh'
  BY <1>1, <1>2 DEF FreshInv
<1>3. CASE WaveSettles
  <2>1. /\ phase = "walk" /\ phase' \in {"walk", "integrate", "halted"}
        /\ exit' = exit \/ exit' = "1"
    BY <1>3 DEF WaveSettles
  <2>2. intJudge # "PASS" /\ exit # "0"
    BY <2>1 DEF Fresh, Passed
  <2> QED
    BY <1>1, <2>1, <2>2 DEF Fresh
<1>4. CASE ReflowSettles
  <2>1. phase = "reflow" /\ phase' \in {"integrate", "closing"} /\ exit' = exit
    BY <1>4 DEF ReflowSettles
  <2>2. intJudge # "PASS" /\ exit # "0" /\ intResult = "fail"
    BY <2>1 DEF Fresh, Passed
  <2> QED
    BY <1>1, <2>1, <2>2 DEF Fresh
<1>5. CASE Close
  <2>1. /\ phase \in {"closing", "decide"} /\ phase' = "done"
        /\ exit' = IF intResult # "fail" /\ intJudge = "PASS" THEN "0" ELSE "1"
    BY <1>5 DEF Close
  <2>2. intJudge = "PASS" => Passed /\ Passed'
    BY <1>1, <2>1 DEF Fresh, Passed, AllOk
  <2> QED
    BY <1>1, <2>1, <2>2 DEF Fresh
<1> QED
  BY <1>3, <1>4, <1>5

LEMMA FreshInit ==
  ASSUME Init
  PROVE  FreshInv
<1>1. /\ mods = [m \in Module |-> seededModule(m)] /\ phase = "walk"
      /\ \A m \in Module : pc[m] = "off"
      /\ intJudge = "none" /\ exit = "running"
  BY DEF Init
<1>2. ASSUME NEW m \in Imported \ {Top} PROVE JudgeFits(mods[m])
  <2>1. mods[m].slot = [s \in Stage |-> Made(1, 1, 1)]
    BY <1>1, ModesAndModules DEF seededModule, blankModule
  <2> QED
    BY <2>1, KnownStages DEF JudgeFits, Contract, Code, Made
<1>3. \A m \in Module \ Imported : mods[m].completed = {}
  BY <1>1 DEF seededModule, blankModule
<1> QED
  BY <1>1, <1>2, <1>3 DEF FreshInv, Fresh

LEMMA FreshNext ==
  ASSUME TypeOK, Control, DataInv, WalkInv, FreshInv, [Next]_vars
  PROVE  FreshInv'
<1>1. CASE LaunchWave
  BY <1>1, FreshLaunch
<1>2. CASE WaveSettles \/ ReflowSettles \/ Close
  BY <1>2, FreshEnds
<1>3. ASSUME NEW m \in Module, StageStep(m)
      PROVE  FreshInv'
  BY <1>3, FreshSteps, TypeParts
<1>4. CASE IntegrationSkips \/ IntegrationFails \/ IntegrationJudges
  BY <1>4, FreshIntegration, TypeParts
<1>5. CASE StartReflow
  BY <1>5, FreshReflow
<1>6. CASE Crash
  BY <1>6 DEF Crash, FreshInv
<1>7. CASE Resume
  <2>1. runs' = runs + 1 /\ runs \in Nat \ {0}
    BY <1>7, Bounds DEF Resume, TypeOK
  <2>2. runs' # 1
    BY <2>1
  <2> QED
    BY <2>2 DEF FreshInv
<1>8. CASE UNCHANGED vars
  <2>1. UNCHANGED <<mods, phase, pc, intJudge, intResult, measured, exit, runs>>
    BY <1>8 DEF vars, project, walk, integration
  <2> QED
    BY <2>1 DEF FreshInv, Fresh, Passed, AllOk
<1> QED
  BY <1>1, <1>2, <1>3, <1>4, <1>5, <1>6, <1>7, <1>8 DEF Next, Progress

\* A first run that exits 0 measured PASS and ships, of every module but the top, the
\* RTL and the contract its own verdict was given for, for any finite pipeline and any
\* modules: no repair by a stage, revision by judge, reflow or failed checkpoint comes
\* between a verdict and the exit code without marking the verdict stale.
THEOREM FirstRunShipsWhatWasJudged ==
  ASSUME IsFiniteSet(Stage)
  PROVE  Spec => []FreshExitZero
<1>1. Init => TypeOK /\ Control /\ DataInv /\ WalkInv /\ FreshInv
  BY TypeInit, ControlInit, DataInit, WalkInit, FreshInit
<1>2. TypeOK /\ Control /\ DataInv /\ WalkInv /\ FreshInv /\ [Next]_vars
        => (TypeOK /\ Control /\ DataInv /\ WalkInv /\ FreshInv)'
  BY TypeNext, ControlNext, DataNext, WalkNext, FreshNext
<1>3. FreshInv => FreshExitZero
  BY DEF FreshInv, Fresh, Passed, AllOk, JudgeFits, FreshExitZero
<1> QED
  BY <1>1, <1>2, <1>3, PTL DEF Spec
====
