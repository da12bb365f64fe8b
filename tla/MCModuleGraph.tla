---- MODULE MCModuleGraph ----
\* The functions of ModuleGraph against what they are for, on every small hierarchy
\* and on every configuration.  SystemRun assumes it of Order, Level and Walk.
EXTENDS ModuleGraph

\* Registries: all graphs on four modules, and all sequences of up to three instances
\* on three modules, with repetitions, a module in itself and one not registered.
Four == <<"a", "b", "c", "d">>
Pairs4 == [i \in 1..16 |-> <<Four[1 + ((i - 1) \div 4)], Four[1 + ((i - 1) % 4)]>>]
Graphs4 == {SelectSeq(Pairs4, LAMBDA e : e \in E) :
              E \in SUBSET {e \in ToSet(Pairs4) : e[1] # e[2]}}
Three == <<"a", "b", "c">>
Lists3 == BoundedSeq({"a", "b", "c", "ghost"} \X {"a", "b", "c", "ghost"}, 3)

Systems == {<<Four, g>> : g \in Graphs4} \union {<<Three, l>> : l \in Lists3}

\* The modules and the edges between them.
Graph(sys) == <<ToSet(sys[1]), {e \in ToSet(sys[2]) : IsEdge(sys[1], e)}>>

\* getModuleOrder orders every system without a cycle, and throws on the others.
ASSUME OrdersEverySystem ==
  \A sys \in Systems :
    OrdersOrThrows(Graph(sys)[1], Graph(sys)[2], ModuleOrder(sys[1], sys[2]))

\* Kahn's loop starts with the leaves in some order, and each of its rounds frees parents
\* in some order: it is one of the loops that are proved about.
ASSUME RoundsAreRounds ==
  \A sys \in Systems :
    LET M == Graph(sys)[1]
        E == Graph(sys)[2]
        After(n) == OrderAfter(sys[1], sys[2], SubSeq(sys[1], 1, n))
    IN /\ \E leaves \in Enumerations(Leaves(M, E)) : After(0) = Started(M, E, leaves)
       /\ \A n \in 1..Len(sys[1]) :
            IF After(n - 1).queue = <<>> THEN After(n) = After(n - 1)
                                         ELSE IsRound(E, After(n - 1), After(n))
       /\ After(Len(sys[1])).queue = <<>>

\* The levels follow the instances, and are the longest paths.
ASSUME LevelsAreLongestPaths ==
  \A g \in Graphs4 : Acyclic(ToSet(Four), ToSet(g)) =>
    LET level == LevelOf(ModuleOrder(Four, g), g) IN
    LevelsAbove(ToSet(Four), ToSet(g), level) /\ LevelsAreTight(ToSet(Four), ToSet(g), level)

\* computeEffectiveLevels: the shortest path from the top.
ASSUME EffectiveLevelsAreShortestPaths ==
  \A g \in Graphs4 :
    LET level == EffectiveLevels(Four, g, "a", [m \in ToSet(Four) |-> 9])
        above(m) == {level[e[1]] : e \in {x \in ToSet(g) : x[2] = m}}
    IN \A m \in ToSet(Four) :
         IF m = "a" THEN level[m] = 0 ELSE level[m] = Min({9} \union {l + 1 : l \in above(m) \ {9}})

\* The comment on the waves: by the shortest path a parent and its child may share one.
ASSUME ShortestPathsAreUnsafe ==
  \E g \in Graphs4 : Acyclic(ToSet(Four), ToSet(g)) /\
    LET level == EffectiveLevels(Four, g, "a", [m \in ToSet(Four) |-> 9]) IN
    \E e \in ToSet(g) : level[e[1]] = level[e[2]] /\ level[e[1]] # 9

\* Each configuration's walk is one SystemRun assumes (WalkIsThePipeline), and a
\* reflow is the rest of it from rtl_generate on.
ASSUME EveryWalkIsAPipeline ==
  \A enabled \in SUBSET OptionalKeys :
    LET walk == WalkOf(enabled)
        place(k) == SelectInSeq(walk, LAMBDA x : x = k)
    IN /\ IsInjective(walk) /\ walk[1] = "spec" /\ Last(walk) = "judge"
       /\ 0 < place("rtl_generate") /\ place("rtl_generate") < place("verify")
       /\ ReflowOf(enabled) = SubSeq(walk, place("rtl_generate"), Len(walk))

\* The tail of a stage starts with what the stage may have repaired and ends with it.
ASSUME TailsEndWithTheirOwner ==
  \A enabled \in SUBSET OptionalKeys :
    \A owner \in {"lint", "lint_test", "rtl_review", "test_review", "verify"} :
      owner \in ToSet(WalkOf(enabled)) =>
        LET tail == ReflowTail(owner, enabled) IN
        tail[1] = ScopeStart(owner) /\ Last(tail) = owner /\ Len(tail) > 1

\* Smart and strict chains differ only in verify's to the testbench: a chain that starts
\* with its trigger skips nothing, whatever passes.  All of judge's do, and those of
\* the other stages.
ASSUME OnlyTestbenchChainsSkip ==
  \A enabled \in SUBSET OptionalKeys :
    \A passing \in {{}, ToSet(WalkOf(enabled))} :
      /\ \A k \in ToSet(WalkOf(enabled)) :
           planReflow(k, enabled, passing, "smart") = planReflow(k, enabled, passing, "strict")
      /\ \A owner \in {"lint", "lint_test", "rtl_review", "test_review", "verify"} :
           owner \in ToSet(WalkOf(enabled)) =>
             planStageReflow(owner, ScopeStart(owner), enabled, passing, "smart")
               = planStageReflow(owner, ScopeStart(owner), enabled, passing, "strict")

\* What verify's chain to the testbench leaves out passes and comes before the trigger;
\* what it runs from there on is everything.
ASSUME SkippedStagesPass ==
  \A enabled \in SUBSET OptionalKeys : \A passing \in SUBSET ToSet(WalkOf(enabled)) :
    LET tail   == ReflowTail("verify", enabled)
        chain  == planStageReflow("verify", "test_generate", enabled, passing, "smart")
        from   == SelectInSeq(tail, LAMBDA k : k = "test_generate")
    IN \A i \in DOMAIN chain : chain[i] = "skipped" <=> i < from /\ tail[i] \in passing

\* The header of reflowPlanner.js, "once ANY upstream stage in the chain runs, the current
\* stage runs too, because its inputs changed", does not hold there: a lint that runs
\* again (and repairs the RTL, with nestedLintIters above its default of 1) leaves the
\* properties derived from the RTL skipped.
ASSUME SkippedAfterRerun ==
  \E enabled \in SUBSET OptionalKeys : \E passing \in SUBSET ToSet(WalkOf(enabled)) :
    LET chain == planStageReflow("verify", "test_generate", enabled, passing, "smart")
        tail  == ReflowTail("verify", enabled)
    IN \E i, j \in DOMAIN chain :
         i < j /\ tail[i] = "lint" /\ chain[i] = "downstream"
               /\ tail[j] = "formal_props" /\ chain[j] = "skipped"

\* The doc of computeStageFrontier, "the first active stage id that has not been
\* completed yet", holds along a pipeline exactly if of the optional stages only lint or
\* only formal_props is enabled: the other ids do not follow the pipeline's order.
ASSUME FrontierIsFirstOfOrderedIds ==
  \A enabled \in SUBSET OptionalKeys :
    LET ids == [i \in DOMAIN ActiveStages(enabled) |-> ActiveStages(enabled)[i].id] IN
    enabled \in {{}, {"lint"}, {"formal_props"}} <=>
      \A n \in 0..(Len(ids) - 1) : Frontier({ids[i] : i \in 1..n}, enabled) = ids[n + 1]
====
