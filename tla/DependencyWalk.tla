---- MODULE DependencyWalk ----
\* What a walk over the modules of a system promises, whatever its schedule: a
\* module runs after all it instantiates have finished, nothing starts once
\* something has failed, and a finished module runs again only when all are idle.
CONSTANTS Module,
          Inst  \* the instance tree: <<parent module, child module>>

VARIABLE state

Children(m) == {c \in Module : <<m, c>> \in Inst}

Running == {m \in Module : state[m] = "running"}

Init == state = [m \in Module |-> "waiting"]

Entering == {"running", "finished", "failed"}

\* Some modules start together; one may finish (nothing to do) or fail at once.
Start ==
  \E S \in SUBSET {m \in Module : state[m] = "waiting"} :
    /\ \A m \in Module : state[m] \in {"waiting", "finished"}
    /\ \A m \in S : \A c \in Children(m) : state[c] = "finished"
    /\ \E e \in [S -> Entering] :
         state' = [m \in Module |-> IF m \in S THEN e[m] ELSE state[m]]

Finish ==
  \E m \in Running : \E e \in {"finished", "failed"} :
    state' = [state EXCEPT ![m] = e]

Rerun ==
  /\ \A m \in Module : state[m] = "finished"
  /\ \E m \in Module : \E e \in Entering : state' = [state EXCEPT ![m] = e]

\* The process is replaced by another one.
Restart == state' = [m \in Module |-> "waiting"]

Next == Start \/ Finish \/ Rerun \/ Restart

Spec == Init /\ [][Next]_state
====
