------------------------------ MODULE RunBudget ------------------------------
(* The token ceiling of a project, maxRunTokens: createBudgetGuard            *)
(* (src/pipeline/budget.js), the gate of a stage and what it appends to the   *)
(* ledger (src/projectState/runStage.js), the gates of the fix loops, the     *)
(* integration (runIntegrationPipeline.js), which has none, and the loop   *)
(* over stages of the train command (src/pipeline/runStages.js).              *)
(*                                                                            *)
(* Workers run stages beside each other; each event is an operator.           *)
EXTENDS Naturals, FiniteSets

\* A worker: in no stage, at work in one, or stopped by a gate or an error.  base:
\* the ledger as the stage found it; own: the tokens of its calls; last: those of
\* its last call; over: the loop's gate has said no.
NewWorker == [at |-> "idle", base |-> 0, own |-> 0, last |-> 0, over |-> FALSE]

\* ledger: tokens it accounts for; spent: those used.
NewProject(workers) == [ledger |-> 0, spent |-> 0, w |-> [i \in workers |-> NewWorker]]

\* evaluate: the spend known to the guard, against a ceiling (0: none).
Exceeds(tokens, max) == max > 0 /\ tokens >= max

overWith(p, i, max) == Exceeds(p.w[i].base + p.w[i].own, max)

\* The guard of a stage reads the ledger once; the gate refuses to start.
\* ledgered is FALSE for the train command's loop, whose state has no ledger.
StartStage(p, i, max, ledgered) ==
    LET known == IF ledgered THEN p.ledger ELSE 0
    IN  IF Exceeds(known, max) THEN [p EXCEPT !.w[i].at = "stopped"]
        ELSE [p EXCEPT !.w[i] = [NewWorker EXCEPT !.at = "stage", !.base = known]]

\* The calls of the node up to its next gate, and what the last of them costs; the
\* entry check of callLLM knows the base only, which the stage's gate has passed.
Calls(p, i, tokens, last) ==
    [p EXCEPT !.spent = @ + tokens, !.w[i].own = @ + tokens, !.w[i].last = last]

\* The gate at the boundary of an iteration of a fix loop.
LoopGate(p, i, max) == [p EXCEPT !.w[i].over = overWith(p, i, max)]

\* The node's answer: its _llm, the last of its calls, is appended to the ledger.
EndStage(p, i, ledgered) ==
    [p EXCEPT !.ledger = IF ledgered THEN @ + p.w[i].last ELSE @,
              !.w[i] = NewWorker]

\* A node that throws is not accounted for.
FailStage(p, i) == [p EXCEPT !.w[i].at = "stopped"]

\* A call of the integration: appended, whatever was spent before.
IntegrationCall(p, tokens) == [p EXCEPT !.ledger = @ + tokens, !.spent = @ + tokens]

-----------------------------------------------------------------------------
(* Properties of a project whose calls between two gates use at most `gate`   *)
(* tokens.                                                                    *)

\* The ledger never claims more than was spent, and a stage stops at the gate
\* after it crossed the ceiling.
StagesStop(p, max, gate) ==
    /\ p.ledger <= p.spent
    /\ \A i \in DOMAIN p.w :
         p.w[i].at = "stage" => p.w[i].base + p.w[i].own < max + gate

\* The project exceeds its ceiling by less than a call of each worker: of one, when
\* its modules run one after the other.
CeilingHolds(p, max, gate) == p.spent < max + Cardinality(DOMAIN p.w) * gate
=============================================================================
