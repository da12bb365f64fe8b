---- MODULE ModuleGraph ----
\* The pure functions that tell a run what to do in which order: the order and the
\* depth of modules (src/projectState/dependencyGraph.js), the levels of the waves
\* (src/projectState/runAllPipelines.js), the pipeline of a configuration and the
\* tail that a repair runs again (src/constants/stages.js), which of it runs (src/pipeline/
\* reflowPlanner.js), and the next stage of a module (src/projectState/stageFrontier.js).
\*
\* `modules` is the sequence of the ids and `instances` that of the pairs <<parent,
\* child>>, in the order of the keys of the two registries.
EXTENDS Integers, FiniteSetsExt, SequencesExt

----
\* One edge for all instances of a child in a parent; no edge of a module to itself
\* or to one that is not registered.
IsEdge(modules, e) == e[1] # e[2] /\ {e[1], e[2]} \subseteq ToSet(modules)

EdgesOf(modules, instances) ==
  LET AddNew(found, e) ==
        IF IsEdge(modules, e) /\ ~ Contains(found, e) THEN Append(found, e) ELSE found
  IN FoldLeft(AddNew, <<>>, instances)

\* A round of Kahn's loop on the edges E: its head ordered, the parents wait for one less,
\* and those that wait for nothing else are queued.
Waits(E, st) ==
  [m \in DOMAIN st.inDeg |-> st.inDeg[m] - IF <<m, Head(st.queue)>> \in E THEN 1 ELSE 0]

Popped(E, st, freed) ==
  [inDeg |-> Waits(E, st),
   order |-> Append(st.order, Head(st.queue)),
   queue |-> Tail(st.queue) \o freed]

\* The parents are freed in the order of the edges.
Ordered(edges, st) ==
  LET E == ToSet(edges)
      freed == SelectSeq(edges, LAMBDA e : e[2] = Head(st.queue) /\ Waits(E, st)[e[1]] = 0)
  IN Popped(E, st, [i \in DOMAIN freed |-> freed[i][1]])

\* What a round may do whatever the order of the edges: the parents that are freed come
\* in any order.
Enumerations(S) == {f \in [1..Cardinality(S) -> S] : \A m \in S : \E i \in DOMAIN f : f[i] = m}

FreedBy(E, st) ==
  {m \in DOMAIN st.inDeg : <<m, Head(st.queue)>> \in E /\ Waits(E, st)[m] = 0}

IsRound(E, st, nxt) ==
  st.queue # <<>> /\ \E freed \in Enumerations(FreedBy(E, st)) : nxt = Popped(E, st, freed)

\* The modules with the number of those that each one uses, and the leaves first.
InDegrees(M, E) == [m \in M |-> Cardinality({e \in E : e[1] = m})]

Started(M, E, leaves) == [inDeg |-> InDegrees(M, E), order |-> <<>>, queue |-> leaves]

Leaves(M, E) == {m \in M : InDegrees(M, E)[m] = 0}

\* getModuleOrder: short of a module when there is a cycle, on which the code throws.
OrderAfter(modules, instances, rounds) ==
  LET edges == EdgesOf(modules, instances)
      M == ToSet(modules)
      E == ToSet(edges)
      Round(st, m) == IF st.queue = <<>> THEN st ELSE Ordered(edges, st)
  IN FoldLeft(Round, Started(M, E, SelectSeq(modules, LAMBDA m : m \in Leaves(M, E))), rounds)

ModuleOrder(modules, instances) ==
  IF Len(modules) <= 1 THEN modules ELSE OrderAfter(modules, instances, modules).order

\* The levels of the waves, along the order: one above the highest module used.
PutLevel(level, m, uses) ==
  [level EXCEPT ![m] = Max({0} \union
     {1 + IF e[2] \in DOMAIN level THEN level[e[2]] ELSE 0 : e \in {x \in uses : x[1] = m}})]

LevelOf(order, instances) ==
  FoldLeft(LAMBDA level, m : PutLevel(level, m, ToSet(instances)),
           [m \in ToSet(order) |-> 0], order)

\* A round of computeEffectiveLevels' search.  `found` is `levels` without the 999s.
Visited(modules, instances, st) ==
  LET cur  == Head(st.queue)
      kids == SelectSeq(instances, LAMBDA e : e[1] = cur /\ Contains(modules, e[2]))
      deeper == [m \in (DOMAIN st.found) \union {e[2] : e \in ToSet(kids)} |->
                   IF m \in DOMAIN st.found
                   THEN IF m \in {e[2] : e \in ToSet(kids)}
                        THEN Min({st.found[m], st.found[cur] + 1}) ELSE st.found[m]
                   ELSE st.found[cur] + 1]
      unseen == SelectSeq(kids, LAMBDA e : e[2] \notin st.visited \union {cur})
  IN IF cur \in st.visited THEN [st EXCEPT !.queue = Tail(@)]
     ELSE [found |-> deeper, visited |-> st.visited \union {cur},
           queue |-> Tail(st.queue) \o [i \in DOMAIN unseen |-> unseen[i][2]]]

\* computeEffectiveLevels: a module the top does not reach keeps its stored level.
EffectiveLevels(modules, instances, top, stored) ==
  LET start == [found |-> (top :> 0), visited |-> {}, queue |-> <<top>>]
      Round(st, x) == IF st.queue = <<>> THEN st ELSE Visited(modules, instances, st)
      found == FoldLeft(Round, start, <<top>> \o instances).found
  IN [m \in ToSet(modules) |-> IF m \in DOMAIN found THEN found[m] ELSE stored[m]]

\* Properties of an order and of levels, for modules M with edges E between them.

\* No set of modules in which each one instantiates another of the set.
Acyclic(M, E) ==
  \A S \in (SUBSET M) \ {{}} : \E p \in S : \A c \in S : <<p, c>> \notin E

\* Children first, every module once: what SystemRun assumes (OrderIsTopological).
InOrder(M, E, order) ==
  /\ order \in Seq(M)
  /\ \A m \in M : \E i \in DOMAIN order : order[i] = m
  /\ \A i, j \in DOMAIN order : order[i] = order[j] => i = j
  /\ \A i, j \in DOMAIN order : <<order[i], order[j]>> \in E => i > j

\* getModuleOrder orders every system without a cycle, and throws on the others.
OrdersOrThrows(M, E, order) ==
  IF Acyclic(M, E) THEN InOrder(M, E, order) /\ Len(order) = Cardinality(M)
                   ELSE Len(order) < Cardinality(M)

\* "If A instantiates B (directly or transitively), level(A) > level(B)": the comment
\* on the waves, and what SystemRun assumes (LevelsFollowInst).
LevelsAbove(M, E, level) ==
  /\ level \in [M -> Nat]
  /\ \A e \in E : level[e[1]] > level[e[2]]
  /\ \E h \in M : \A m \in M : level[m] <= level[h]

\* "Modules are layered by LONGEST path from the leaves": no higher than it must be.
LevelsAreTight(M, E, level) ==
  \A m \in M : level[m] = 0 \/ \E e \in E : e[1] = m /\ level[m] = level[e[2]] + 1

----
\* The registry of stages: id, key, place in the pipeline, whether it is optional.
StageRow(id, key, order, optional) ==
  [id |-> id, key |-> key, order |-> order, optional |-> optional]

ALL_STAGES ==
  << StageRow(1, "elicit", 10, FALSE),        StageRow(2, "spec", 20, FALSE),
     StageRow(3, "architect", 30, FALSE),     StageRow(4, "rtl_generate", 40, FALSE),
     StageRow(10, "rtl_review", 45, TRUE),    StageRow(6, "lint", 60, TRUE),
     StageRow(5, "formal_props", 65, TRUE),   StageRow(13, "formal_verify", 67, TRUE),
     StageRow(7, "test_generate", 70, FALSE), StageRow(11, "test_review", 75, TRUE),
     StageRow(12, "lint_test", 78, TRUE),     StageRow(8, "verify", 80, FALSE),
     StageRow(9, "judge", 90, FALSE) >>

OptionalKeys == {s.key : s \in {x \in ToSet(ALL_STAGES) : x.optional}}

\* getActiveStages, for a configuration that enables the optional stages of a set.
ActiveStages(enabled) ==
  SortSeq(SelectSeq(ALL_STAGES, LAMBDA s : ~ s.optional \/ s.key \in enabled),
          LAMBDA s, u : s.order < u.order)

KeysOf(stages) == [i \in DOMAIN stages |-> stages[i].key]

\* The stages of a full-auto walk, and those of a reflow after integration.
WalkOf(enabled) == SelectSeq(KeysOf(ActiveStages(enabled)), LAMBDA k : k # "elicit")

StagesFrom(keys, k) ==
  LET from == SelectInSeq(keys, LAMBDA x : x = k) IN
  IF from = 0 THEN <<>> ELSE SubSeq(keys, from, Len(keys))

ReflowOf(enabled) == StagesFrom(KeysOf(ActiveStages(enabled)), "rtl_generate")

\* getReflowTail: from the start of the owner's scope to the owner itself.
ScopeStart(owner) ==
  CASE owner \in {"lint", "rtl_review", "verify"} -> "rtl_generate"
    [] owner \in {"lint_test", "test_review"} -> "test_generate"

ReflowTail(owner, enabled) ==
  LET keys == KeysOf(ActiveStages(enabled)) IN
  SubSeq(keys, SelectInSeq(keys, LAMBDA k : k = ScopeStart(owner)),
               SelectInSeq(keys, LAMBDA k : k = owner))

\* _buildChain: why each stage of a tail runs again, or that it is skipped.  passing:
\* the stages whose result, about the code held, is a pass.
ChainReasons(tail, trigger, always, passing, mode) ==
  LET from == SelectInSeq(tail, LAMBDA k : k = trigger) IN
  [i \in DOMAIN tail |->
     IF i = from THEN "triage"
     ELSE IF tail[i] \in always THEN "always"
     ELSE IF mode = "smart" /\ (from = 0 \/ i < from) /\ tail[i] \in passing
     THEN "skipped" ELSE "downstream"]

\* planReflow, judge's chain to the end of the pipeline; planStageReflow.
planReflow(target, enabled, passing, mode) ==
  ChainReasons(StagesFrom(KeysOf(ActiveStages(enabled)), target), target,
               {"verify", "judge"}, passing, mode)

planStageReflow(owner, trigger, enabled, passing, mode) ==
  ChainReasons(ReflowTail(owner, enabled), trigger, {owner}, passing, mode)

\* computeStageFrontier: after the greatest completed id, which is not the place in
\* the pipeline.
Frontier(completed, enabled) ==
  LET active  == ActiveStages(enabled)
      ids     == [i \in DOMAIN active |-> active[i].id]
      highest == Max({0} \union (completed \intersect ToSet(ids)))
      next    == SelectInSeq(ids, LAMBDA i : i = highest) + 1
  IN IF highest >= Last(ids) THEN Last(ids) ELSE ids[next]
====
