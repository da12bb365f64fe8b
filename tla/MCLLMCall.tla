----------------------------- MODULE MCLLMCall -----------------------------
(* LLMCall on every sequence of answers, for small limits: the states of a   *)
(* call are collected answer by answer.                                      *)
EXTENDS LLMCall, Sequences
LOCAL INSTANCE SequencesExt

\* With and without a schema, a limit on requests, and room to escalate.
FewSettings ==
    {[parseRetries |-> 1, truncationRetries |-> 2, maxRetries |-> 1,
      maxTokens |-> m, ceiling |-> 6, schema |-> s, maxCalls |-> n] :
        m \in {2, 8}, s \in BOOLEAN, n \in {0, 3}}

\* The states of a call after so many answers, whatever they are.
StatesAfter(n, cfg) ==
    LET Grow(states, i) == states \cup {Asked(st, a, cfg) : st \in states, a \in Answer}
    IN  FoldLeft(Grow, {Fresh(cfg)}, [i \in 1 .. n |-> i])

CallStates(cfg) == StatesAfter(2 * Reservations(cfg) + 1, cfg)

\* What holds of every state of a call, and that there are no others.
ASSUME EveryCallEnds ==
    \A cfg \in FewSettings :
        /\ \A st \in CallStates(cfg) :
             /\ CallIsBounded(st, cfg)
             /\ CapsNeverShrink(st, cfg)
             /\ RealSpendIsLedgered(st)
             /\ RequestsAreReserved(st, cfg)
        /\ CallStates(cfg) = StatesAfter(2 * Reservations(cfg), cfg)

\* When a later request throws or the budget refuses it, the tokens of the answers
\* before it are lost: those of the ladder with callLLM's locals, and those of the
\* earlier asks with callLLMJson's, which attaches them to a parse error only.
ASSUME SpendIsLostWithTheCall ==
    \A end \in {"threw", "budget"} :
        \E cfg \in FewSettings : \E st \in CallStates(cfg) :
            st.end = end /\ st.ledgered < st.used

\* With a schema a request is repeated that was not reserved.
ASSUME RepetitionsAreNotReserved ==
    \A cfg \in FewSettings :
        cfg.schema => \E st \in CallStates(cfg) : st.sent > st.reserved
=============================================================================
