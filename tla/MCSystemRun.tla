---- MODULE MCSystemRun ----
\* Values of the constants of SystemRun for TLC.  The orders and the levels are what
\* ModuleGraph computes of the instances.
EXTENDS SystemRun, MCModuleGraph

CONSTANTS a, b, c, d, t

\* A top module over one leaf.
PairInst == {<<t, a>>}
PairOrder == <<a, t>>

\* A top module over two leaves.
TreeInst == {<<t, a>>, <<t, b>>}
TreeOrder == <<a, b, t>>

\* A top module over two leaves, over a module that holds the first one, and over
\* an imported leaf.
DiamondInst == {<<t, a>>, <<t, c>>, <<c, a>>, <<t, b>>, <<t, d>>}
DiamondOrder == <<a, b, d, c, t>>

PairLevel == [m \in Module |-> IF m = t THEN 1 ELSE 0]
TreeLevel == PairLevel
DiamondLevel == [m \in Module |-> IF m = t THEN 2 ELSE IF m = c THEN 1 ELSE 0]

Computed(order, level, modules, instances) ==
  /\ order = ModuleOrder(modules, instances)
  /\ level = LevelOf(order, instances)

ASSUME OrdersAreComputed ==
  LET pair == [m \in {a, t} |-> IF m = t THEN 1 ELSE 0]
      tree == [m \in {a, b, t} |-> IF m = t THEN 1 ELSE 0]
      diamond == [m \in {a, b, c, d, t} |-> IF m = t THEN 2 ELSE IF m = c THEN 1 ELSE 0]
  IN /\ Computed(PairOrder, pair, <<t, a>>, <<<<t, a>>>>)
     /\ Computed(TreeOrder, tree, <<t, a, b>>, <<<<t, a>>, <<t, b>>>>)
     /\ Computed(DiamondOrder, diamond, <<t, a, b, c, d>>,
                 <<<<t, a>>, <<t, c>>, <<c, a>>, <<t, b>>, <<t, d>>>>)

\* The stages that decide control, and with the one between spec and rtl_generate.
FullWalk == <<"spec", "rtl_generate", "verify", "judge">>
Stages == {"elicit", "spec", "rtl_generate", "verify", "judge"}
LongWalk == <<"spec", "architect", "rtl_generate", "verify", "judge">>
LongStages == Stages \union {"architect"}

\* How often a module is revised: once each, or one leaf twice.
OnceEach == [m \in Module |-> 1]
LeafRevised == [m \in Module |-> IF m = a THEN 2 ELSE 1]
====
