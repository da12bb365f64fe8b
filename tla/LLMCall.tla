------------------------------ MODULE LLMCall ------------------------------
(* A question to the language model until it is answered or given up:        *)
(* callLLMJson (src/llm/callLLMJson.js) asks again for what does not parse,  *)
(* callLLM (src/llm/callLLM.js) escalates what was cut or only thought,      *)
(* callWithTransientRetry repeats what failed in transit, callLLMOnce sends  *)
(* a request, and once more without the schema a provider rejects.  The      *)
(* budget guard (src/pipeline/budget.js) counts requests before they leave.  *)
(*                                                                           *)
(* A call is folded over the answers of the provider, one to a request.      *)
(* Each answer with text costs a token.                                      *)
EXTENDS Integers, FiniteSetsExt

\* What a request may come back with: text that parses, that does not, the
\* model's thinking alone, text cut at the cap; status 400 to a schema; a failure
\* worth a retry; any other failure.
Answer == {"json", "prose", "thinking", "cut", "400", "transient", "failure"}

\* The settings of a call.  maxCalls: what is left of the stage's requests, 0 for
\* no limit.
Settings == [parseRetries: Nat, truncationRetries: Nat, maxRetries: Nat,
             maxTokens: Nat, ceiling: Nat, schema: BOOLEAN, maxCalls: Nat]

\* The next request: re-ask, ladder attempt and retry it belongs to, its cap,
\* whether the schema is stripped, thinking is off, and whether it repeats a
\* request without the schema it was rejected for.  reserved: requests the budget
\* counted; sent: requests made; used: tokens; kept: tokens of the discarded
\* attempts of the ladder; ledgered: tokens of the answers callLLM returned.
Fresh(cfg) ==
    [end |-> "none", asked |-> 0, attempt |-> 0, try |-> 0, cap |-> cfg.maxTokens,
     strip |-> FALSE, noThink |-> FALSE, bare |-> FALSE,
     reserved |-> 0, sent |-> 0, used |-> 0, kept |-> 0, ledgered |-> 0]

BudgetOver(st, cfg) == cfg.maxCalls > 0 /\ st.reserved >= cfg.maxCalls

SchemaSent(st, cfg) == cfg.schema /\ ~st.strip /\ ~st.bare

\* callLLMOnce: the budget is asked for a request, not for its repetition.
Sent(st) ==
    [st EXCEPT !.sent = @ + 1, !.reserved = IF st.bare THEN @ ELSE @ + 1]

\* The ladder goes on with what it has.
Escalated(st, cap, noThink) ==
    [st EXCEPT !.attempt = @ + 1, !.try = 0, !.bare = FALSE, !.kept = @ + 1,
               !.strip = st.strip \/ st.bare, !.cap = cap, !.noThink = noThink]

NextCap(st, cfg) == Max({st.cap, Min({cfg.ceiling, 2 * st.cap})})

\* callLLM returns: its text parses, or callLLMJson asks anew, or gives up.
Returned(st, a, cfg) ==
    LET paid == [st EXCEPT !.ledgered = @ + st.kept + 1] IN
    IF a = "json" THEN [paid EXCEPT !.end = "answered"]
    ELSE IF st.asked < cfg.parseRetries
    THEN [paid EXCEPT !.asked = @ + 1, !.attempt = 0, !.try = 0, !.kept = 0,
                      !.cap = cfg.maxTokens, !.strip = FALSE, !.noThink = FALSE,
                      !.bare = FALSE]
    ELSE [paid EXCEPT !.end = "unparsed"]

\* An answer with text.
Read(st, a, cfg) ==
    LET more == st.attempt < cfg.truncationRetries
        paid == [st EXCEPT !.used = @ + 1]
    IN  IF a = "thinking" /\ ~st.noThink /\ more
        THEN Escalated(paid, st.cap, TRUE)
        ELSE IF a = "cut" /\ more /\ st.cap < cfg.ceiling
        THEN Escalated(paid, NextCap(st, cfg), st.noThink)
        ELSE Returned(paid, a, cfg)

\* A request and its answer, in a call that has not ended.
Asked(st, a, cfg) ==
    IF st.end # "none" THEN st
    ELSE IF ~st.bare /\ BudgetOver(st, cfg) THEN [st EXCEPT !.end = "budget"]
    ELSE IF a = "400" /\ SchemaSent(st, cfg) THEN [Sent(st) EXCEPT !.bare = TRUE]
    ELSE IF a = "transient" /\ st.try < cfg.maxRetries
    THEN [Sent(st) EXCEPT !.try = @ + 1, !.bare = FALSE]
    ELSE IF a \in {"400", "transient", "failure"}
    THEN [Sent(st) EXCEPT !.end = "threw"]
    ELSE Read(Sent(st), a, cfg)

-----------------------------------------------------------------------------
(* Properties of a state of a call. *)

\* At most so many requests are reserved.
Reservations(cfg) ==
    (cfg.parseRetries + 1) * (cfg.truncationRetries + 1) * (cfg.maxRetries + 1)

\* A call ends, whatever the provider does: three nested loops and the repetition
\* of a request without its schema make at most twice the product of their limits.
CallIsBounded(st, cfg) ==
    st.reserved <= Reservations(cfg) /\ st.sent <= 2 * st.reserved

\* Escalation never goes backwards, also above the ceiling, and stops there; thinking
\* is turned off once in a call of the ladder.
CapsNeverShrink(st, cfg) ==
    /\ st.cap >= cfg.maxTokens
    /\ st.cap > cfg.maxTokens => st.cap <= cfg.ceiling
    /\ st.end = "none" => st.attempt <= cfg.truncationRetries

\* The comment of callLLM, "the ledger and the run-budget guard must see real spend":
\* all tokens are ledgered when the model has the last word.
RealSpendIsLedgered(st) ==
    st.end \in {"answered", "unparsed"} => st.ledgered = st.used

\* The doc of beforeCall, "Reserve one actual provider request, including retries":
\* the limit holds of what is reserved, and that is what is sent without a schema.
RequestsAreReserved(st, cfg) ==
    /\ cfg.maxCalls > 0 => st.reserved <= cfg.maxCalls
    /\ ~cfg.schema => st.sent = st.reserved
=============================================================================
