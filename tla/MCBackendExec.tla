---- MODULE MCBackendExec ----
\* Values of the constants of BackendExec for TLC, and the assumptions about LLMCall
\* and FormalVerify.
EXTENDS BackendExec, MCLLMCall, MCFormalVerify

OneCommand == [i \in Id |-> 1]

\* A bundle of two commands has a boundary where an abort may be lost.
MixedCommands == [i \in Id |-> IF i = CHOOSE j \in Id : TRUE THEN 2 ELSE 1]
====
