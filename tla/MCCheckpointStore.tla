---- MODULE MCCheckpointStore ----
\* Values of the constants of CheckpointStore for TLC.
EXTENDS CheckpointStore, TLC

\* Projects are alike.
Symmetry == Permutations(Project)
====
