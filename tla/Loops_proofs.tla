---- MODULE Loops_proofs ----
\* Theorems about the parts that are described by operators: their loops, for every setting
\* and every order of events, and the choices between versions, for all data.
EXTENDS Loops, FiniteSetTheorems, WellFoundedInduction, TLAPS

----
\* A non-empty set of natural numbers has a least one.
LEMMA LeastNat ==
  ASSUME NEW T, T \subseteq Nat, T # {}
  PROVE  \E x \in T : \A y \in T : x <= y
<1> DEFINE Less == {ss \in Nat \X Nat : ss[1] < ss[2]}
<1>1. IsWellFoundedOn(Less, Nat)
  BY NatLessThanWellFounded DEF OpToRel
<1>2. \E x \in T : \A y \in T : ~ (<<y, x>> \in Less)
  <2> HIDE DEF Less
  <2> QED BY <1>1, WFMin
<1>3. PICK x \in T : \A y \in T : ~ (<<y, x>> \in Less)
  BY <1>2
<1>4. ASSUME NEW y \in T  PROVE x <= y
  <2>1. ~ (y < x)
    BY <1>3
  <2> QED BY <2>1
<1> QED BY <1>4

\* The places of a list, and the size of what is in one of two sets.
LEMMA SequenceParts ==
  ASSUME NEW Finding, NEW s \in Seq(Finding)
  PROVE  /\ Len(s) \in Nat /\ DOMAIN s = 1 .. Len(s)
         /\ IsFiniteSet(DOMAIN s) /\ Cardinality(DOMAIN s) = Len(s)
         /\ \A S \in SUBSET DOMAIN s : IsFiniteSet(S) /\ Cardinality(S) \in 0 .. Len(s)
<1>1. Len(s) \in Nat /\ DOMAIN s = 1 .. Len(s)
  OBVIOUS
<1>2. IsFiniteSet(DOMAIN s) /\ Cardinality(DOMAIN s) = Len(s)
  <2>1. IsFiniteSet(1 .. Len(s)) /\ Cardinality(1 .. Len(s)) = Len(s)
    BY <1>1, FS_Interval, SMTT(30)
  <2> QED BY <1>1, <2>1
<1>3. ASSUME NEW S \in SUBSET DOMAIN s
      PROVE  IsFiniteSet(S) /\ Cardinality(S) \in 0 .. Len(s)
  <2>1. IsFiniteSet(S) /\ Cardinality(S) <= Cardinality(DOMAIN s)
    BY <1>2, FS_Subset
  <2>2. Cardinality(S) \in Nat
    BY <2>1, FS_CardinalityType
  <2> QED BY <1>1, <1>2, <2>1, <2>2
<1> QED BY <1>1, <1>2, <1>3

LEMMA Disjoint ==
  ASSUME NEW S, NEW T, IsFiniteSet(S), IsFiniteSet(T), S \intersect T = {}
  PROVE  /\ IsFiniteSet(S \union T)
         /\ Cardinality(S \union T) = Cardinality(S) + Cardinality(T)
<1>1. /\ IsFiniteSet(S \union T) /\ IsFiniteSet(S \intersect T)
      /\ Cardinality(S \union T) = Cardinality(S) + Cardinality(T) - Cardinality(S \intersect T)
  BY FS_Union, FS_Intersection
<1>2. Cardinality(S \intersect T) = 0
  BY FS_EmptySet
<1>3. Cardinality(S) \in Nat /\ Cardinality(T) \in Nat
  BY FS_CardinalityType
<1> QED BY <1>1, <1>2, <1>3

----
\* A question to the language model (LLMCall).

LEMMA MaxOfTwo ==
  ASSUME NEW a \in Nat, NEW b \in Nat
  PROVE  Max({a, b}) = IF a >= b THEN a ELSE b
<1> DEFINE m == IF a >= b THEN a ELSE b
<1>1. m \in {a, b} /\ \A y \in {a, b} : m >= y
  OBVIOUS
<1>2. \A x \in {a, b} : (\A y \in {a, b} : x >= y) => x = m
  OBVIOUS
<1>3. Max({a, b}) \in {a, b} /\ \A y \in {a, b} : Max({a, b}) >= y
  <2> HIDE DEF m
  <2> QED BY <1>1 DEF Max
<1> QED BY <1>2, <1>3

LEMMA MinOfTwo ==
  ASSUME NEW a \in Nat, NEW b \in Nat
  PROVE  Min({a, b}) = IF a <= b THEN a ELSE b
<1> DEFINE m == IF a <= b THEN a ELSE b
<1>1. m \in {a, b} /\ \A y \in {a, b} : m <= y
  OBVIOUS
<1>2. \A x \in {a, b} : (\A y \in {a, b} : x <= y) => x = m
  OBVIOUS
<1>3. Min({a, b}) \in {a, b} /\ \A y \in {a, b} : Min({a, b}) <= y
  <2> HIDE DEF m
  <2> QED BY <1>1 DEF Min
<1> QED BY <1>2, <1>3

End == {"none", "answered", "unparsed", "budget", "threw"}

CallState ==
  [end: End, asked: Nat, attempt: Nat, try: Nat, cap: Nat, strip: BOOLEAN,
   noThink: BOOLEAN, bare: BOOLEAN, reserved: Nat, sent: Nat, used: Nat, kept: Nat,
   ledgered: Nat]

\* The requests of one ask, and those of one attempt of its ladder.
PerAttempt(cfg) == cfg.maxRetries + 1
PerAsk(cfg) == (cfg.truncationRetries + 1) * PerAttempt(cfg)

\* What the loops have gone through, and the request that is under way or ended them.
Turns(st, cfg) == st.asked * PerAsk(cfg) + st.attempt * PerAttempt(cfg) + st.try
Pending(st) == IF st.end = "none" /\ ~ st.bare THEN 0 ELSE 1
Repetition(st) == IF st.end = "none" /\ st.bare THEN 1 ELSE 0

\* Together with the type: the limits of the loops, what they have reserved and sent,
\* and whose tokens the ledger still lacks.
WithinLimits(st, cfg) ==
  /\ st.asked <= cfg.parseRetries
  /\ st.attempt <= cfg.truncationRetries
  /\ st.try <= cfg.maxRetries
  /\ st.cap >= cfg.maxTokens
  /\ st.cap > cfg.maxTokens => st.cap <= cfg.ceiling

RequestsCounted(st, cfg) ==
  /\ st.reserved <= Turns(st, cfg) + Pending(st)
  /\ st.sent + Repetition(st) <= 2 * st.reserved
  /\ cfg.maxCalls > 0 => st.reserved <= cfg.maxCalls
  /\ ~ cfg.schema => ~ st.bare /\ st.sent = st.reserved

TokensCounted(st) ==
  /\ st.end = "none" => st.ledgered + st.kept = st.used
  /\ RealSpendIsLedgered(st)

CallInv(st, cfg) ==
  /\ st \in CallState
  /\ WithinLimits(st, cfg)
  /\ RequestsCounted(st, cfg)
  /\ TokensCounted(st)

LEMMA TimesGrows ==
  ASSUME NEW m \in Nat, NEW n \in Nat, NEW k \in Nat, m <= n
  PROVE  m * k \in Nat /\ m * k <= n * k /\ (m + 1) * k = m * k + k
<1>1. PICK d \in Nat : n = m + d
  <2>1. n - m \in Nat /\ n = m + (n - m)
    OBVIOUS
  <2> QED BY <2>1
<1>2. (m + d) * k = m * k + d * k /\ d * k \in Nat
  OBVIOUS
<1> QED BY <1>1, <1>2

\* One request more stays within the next attempt, the next ask and the whole call.
LEMMA TurnsGrow ==
  ASSUME NEW cfg \in Settings, NEW st \in CallState, WithinLimits(st, cfg)
  PROVE  /\ Turns(st, cfg) \in Nat
         /\ Turns(st, cfg) + 1 <= st.asked * PerAsk(cfg) + (st.attempt + 1) * PerAttempt(cfg)
         /\ Turns(st, cfg) + 1 <= (st.asked + 1) * PerAsk(cfg)
         /\ Turns(st, cfg) + 1 <= Reservations(cfg)
<1> DEFINE R == PerAttempt(cfg)
           A == PerAsk(cfg)
           T == cfg.truncationRetries
           P == cfg.parseRetries
<1>1. /\ T \in Nat /\ P \in Nat /\ cfg.maxRetries \in Nat
      /\ R = cfg.maxRetries + 1 /\ R \in Nat /\ A = (T + 1) * R
      /\ Reservations(cfg) = (P + 1) * (T + 1) * R
  BY DEF Settings, PerAttempt, PerAsk, Reservations
<1>2. /\ st.asked \in Nat /\ st.attempt \in Nat /\ st.try \in Nat
      /\ st.asked <= P /\ st.attempt <= T /\ st.try + 1 <= R
  BY <1>1 DEF CallState, WithinLimits
<1>3. Turns(st, cfg) = st.asked * A + st.attempt * R + st.try
  BY DEF Turns
<1> HIDE DEF R, A, T, P
<1>4. /\ st.attempt * R \in Nat /\ st.attempt * R <= T * R
      /\ (st.attempt + 1) * R = st.attempt * R + R /\ (T + 1) * R = T * R + R
      /\ T * R \in Nat
  BY <1>1, <1>2, TimesGrows
<1>5. A \in Nat
  BY <1>1, <1>4
<1>6. /\ st.asked * A \in Nat /\ st.asked * A <= P * A
      /\ (st.asked + 1) * A = st.asked * A + A /\ (P + 1) * A = P * A + A
      /\ P * A \in Nat
  BY <1>1, <1>2, <1>5, TimesGrows
<1>7. Reservations(cfg) = (P + 1) * A
  BY <1>1
<1> QED BY <1>1, <1>2, <1>3, <1>4, <1>5, <1>6, <1>7 DEF R, A

\* A request that the budget let through is counted, wherever it leaves the call.
LEMMA RequestIsCounted ==
  ASSUME NEW cfg \in Settings, NEW st \in CallState, NEW o \in CallState,
         RequestsCounted(st, cfg), st.end = "none", st.bare \/ ~ BudgetOver(st, cfg),
         o.sent = st.sent + 1,
         o.reserved = IF st.bare THEN st.reserved ELSE st.reserved + 1,
         Turns(st, cfg) \in Nat, Turns(o, cfg) \in Nat,
         Turns(st, cfg) + 1 <= Turns(o, cfg) + Pending(o),
         o.bare /\ o.end = "none" => ~ st.bare,
         o.bare => cfg.schema \/ st.bare
  PROVE  RequestsCounted(o, cfg)
<1>1. /\ st.reserved \in Nat /\ st.sent \in Nat /\ cfg.maxCalls \in Nat
      /\ st.bare \in BOOLEAN /\ o.bare \in BOOLEAN /\ cfg.schema \in BOOLEAN
  BY DEF CallState, Settings
<1>2. o.reserved <= Turns(o, cfg) + Pending(o)
  BY <1>1 DEF RequestsCounted, Pending
<1>3. o.sent + Repetition(o) <= 2 * o.reserved
  BY <1>1 DEF RequestsCounted, Repetition
<1>4. cfg.maxCalls > 0 => o.reserved <= cfg.maxCalls
  BY <1>1 DEF RequestsCounted, BudgetOver
<1>5. ~ cfg.schema => ~ o.bare /\ o.sent = o.reserved
  BY <1>1 DEF RequestsCounted
<1> QED BY <1>2, <1>3, <1>4, <1>5 DEF RequestsCounted

\* What an answer with text costs.
Paid(st) == [Sent(st) EXCEPT !.used = @ + 1]

LEMMA PaidFields ==
  ASSUME NEW st \in CallState
  PROVE  /\ Paid(st) \in CallState
         /\ Paid(st).end = st.end /\ Paid(st).asked = st.asked
         /\ Paid(st).attempt = st.attempt /\ Paid(st).try = st.try
         /\ Paid(st).cap = st.cap /\ Paid(st).bare = st.bare
         /\ Paid(st).noThink = st.noThink
         /\ Paid(st).reserved = (IF st.bare THEN st.reserved ELSE st.reserved + 1)
         /\ Paid(st).sent = st.sent + 1 /\ Paid(st).used = st.used + 1
         /\ Paid(st).kept = st.kept /\ Paid(st).ledgered = st.ledgered
<1> DEFINE sent == st.sent + 1
           reserved == IF st.bare THEN st.reserved ELSE st.reserved + 1
           used == st.used + 1
           p == Paid(st)
<1>1. sent \in Nat /\ reserved \in Nat /\ used \in Nat
  BY DEF CallState
<1>2. p = [st EXCEPT !.sent = sent, !.reserved = reserved, !.used = used]
  BY DEF Paid, Sent, CallState
<1> HIDE DEF p, sent, reserved, used
<1>3. p \in CallState
  BY <1>1, <1>2 DEF CallState
<1>4. /\ p.end = st.end /\ p.asked = st.asked
      /\ p.attempt = st.attempt /\ p.try = st.try
      /\ p.cap = st.cap /\ p.bare = st.bare
      /\ p.noThink = st.noThink /\ p.reserved = reserved
      /\ p.sent = sent /\ p.used = used
      /\ p.kept = st.kept /\ p.ledgered = st.ledgered
  BY <1>1, <1>2 DEF CallState
<1> QED BY <1>3, <1>4 DEF p, sent, reserved, used

\* The answer with text: the call escalates, asks anew or ends.
LEMMA EscalationKeeps ==
  ASSUME NEW cfg \in Settings, NEW st, CallInv(st, cfg), st.end = "none",
         st.bare \/ ~ BudgetOver(st, cfg), st.attempt < cfg.truncationRetries,
         NEW cap \in Nat, cap >= cfg.maxTokens, cap > cfg.maxTokens => cap <= cfg.ceiling,
         NEW noThink \in BOOLEAN
  PROVE  LET o == Escalated(Paid(st), cap, noThink)
         IN  CallInv(o, cfg) /\ o.sent = st.sent + 1
<1> DEFINE o == Escalated(Paid(st), cap, noThink)
<1>0. st \in CallState /\ WithinLimits(st, cfg) /\ RequestsCounted(st, cfg)
  BY DEF CallInv
<1>1. /\ o \in CallState
      /\ o.end = "none" /\ o.asked = st.asked /\ o.attempt = st.attempt + 1
      /\ o.try = 0 /\ o.cap = cap /\ o.bare = FALSE
      /\ o.reserved = (IF st.bare THEN st.reserved ELSE st.reserved + 1)
      /\ o.sent = st.sent + 1 /\ o.used = st.used + 1 /\ o.kept = st.kept + 1
      /\ o.ledgered = st.ledgered
  <2> DEFINE p == Paid(st)
  <2>1. /\ p \in CallState /\ p.end = "none" /\ p.asked = st.asked
        /\ p.attempt = st.attempt /\ p.kept = st.kept /\ p.ledgered = st.ledgered
        /\ p.reserved = (IF st.bare THEN st.reserved ELSE st.reserved + 1)
        /\ p.sent = st.sent + 1 /\ p.used = st.used + 1
    BY <1>0, PaidFields
  <2>2. o = Escalated(p, cap, noThink)
    OBVIOUS
  <2> HIDE DEF p, o
  <2>3. o = [p EXCEPT !.attempt = p.attempt + 1, !.try = 0, !.bare = FALSE,
                      !.kept = p.kept + 1, !.strip = p.strip \/ p.bare,
                      !.cap = cap, !.noThink = noThink]
    BY <2>1, <2>2 DEF Escalated, CallState
  <2> DEFINE attempt == p.attempt + 1
             kept == p.kept + 1
             strip == p.strip \/ p.bare
  <2>4. attempt \in Nat /\ kept \in Nat /\ strip \in BOOLEAN
    BY <2>1 DEF CallState
  <2>5. o = [p EXCEPT !.attempt = attempt, !.try = 0, !.bare = FALSE, !.kept = kept,
                      !.strip = strip, !.cap = cap, !.noThink = noThink]
    BY <2>3
  <2> HIDE DEF attempt, kept, strip
  <2>6. o \in CallState
    BY <2>1, <2>4, <2>5 DEF CallState
  <2>7. /\ o.end = p.end /\ o.asked = p.asked /\ o.attempt = attempt
        /\ o.try = 0 /\ o.cap = cap /\ o.bare = FALSE
        /\ o.reserved = p.reserved /\ o.sent = p.sent /\ o.used = p.used
        /\ o.kept = kept /\ o.ledgered = p.ledgered
    BY <2>1, <2>4, <2>5 DEF CallState
  <2> QED BY <2>1, <2>6, <2>7 DEF attempt, kept
<1> HIDE DEF o
<1>2. WithinLimits(o, cfg)
  BY <1>0, <1>1 DEF WithinLimits, CallState, Settings
<1>3. TokensCounted(o)
  BY <1>0, <1>1 DEF CallInv, TokensCounted, RealSpendIsLedgered, CallState
<1>4. Turns(st, cfg) \in Nat /\ Turns(o, cfg) \in Nat /\ Turns(st, cfg) + 1 <= Turns(o, cfg)
  <2>1. /\ Turns(st, cfg) + 1 <= st.asked * PerAsk(cfg) + (st.attempt + 1) * PerAttempt(cfg)
        /\ Turns(st, cfg) \in Nat /\ Turns(o, cfg) \in Nat
    BY <1>0, <1>1, <1>2, TurnsGrow
  <2>2. Turns(o, cfg) = st.asked * PerAsk(cfg) + (st.attempt + 1) * PerAttempt(cfg) + 0
    BY <1>1 DEF Turns
  <2> DEFINE u == st.asked * PerAsk(cfg) + (st.attempt + 1) * PerAttempt(cfg)
  <2>3. u \in Int
    BY <1>0 DEF PerAsk, PerAttempt, Settings, CallState
  <2> HIDE DEF u
  <2> QED BY <2>1, <2>2, <2>3 DEF u
<1>5. RequestsCounted(o, cfg)
  <2>1. Pending(o) \in Nat
    BY DEF Pending
  <2> QED BY <1>0, <1>1, <1>4, <2>1, RequestIsCounted
<1> QED BY <1>1, <1>2, <1>3, <1>5 DEF CallInv, o

LEMMA ReturnKeeps ==
  ASSUME NEW cfg \in Settings, NEW st, CallInv(st, cfg), st.end = "none",
         st.bare \/ ~ BudgetOver(st, cfg), NEW a \in Answer
  PROVE  LET o == Returned(Paid(st), a, cfg)
         IN  CallInv(o, cfg) /\ o.sent = st.sent + 1
<1> DEFINE o == Returned(Paid(st), a, cfg)
<1>0. st \in CallState /\ WithinLimits(st, cfg) /\ RequestsCounted(st, cfg)
  BY DEF CallInv
<1>c. cfg.maxTokens \in Nat /\ cfg.parseRetries \in Nat
  BY DEF Settings
<1>1. /\ o \in CallState
      /\ o.reserved = (IF st.bare THEN st.reserved ELSE st.reserved + 1)
      /\ o.sent = st.sent + 1 /\ o.used = st.used + 1
      /\ o.ledgered = st.ledgered + (st.kept + 1)
      /\ \/ /\ o.end \in {"answered", "unparsed"} /\ o.asked = st.asked
            /\ o.attempt = st.attempt /\ o.try = st.try /\ o.cap = st.cap
            /\ o.bare = st.bare
         \/ /\ st.asked < cfg.parseRetries
            /\ o.end = "none" /\ o.asked = st.asked + 1 /\ o.attempt = 0 /\ o.try = 0
            /\ o.cap = cfg.maxTokens /\ o.bare = FALSE /\ o.kept = 0
  <2> DEFINE p == Paid(st)
  <2>0. /\ p \in CallState /\ p.end = "none" /\ p.asked = st.asked
        /\ p.attempt = st.attempt /\ p.try = st.try /\ p.cap = st.cap
        /\ p.bare = st.bare /\ p.kept = st.kept /\ p.ledgered = st.ledgered
        /\ p.reserved = (IF st.bare THEN st.reserved ELSE st.reserved + 1)
        /\ p.sent = st.sent + 1 /\ p.used = st.used + 1
    BY <1>0, PaidFields
  <2>o. o = Returned(p, a, cfg)
    OBVIOUS
  <2> HIDE DEF p, o
  <2> DEFINE q == [p EXCEPT !.ledgered = p.ledgered + (p.kept + 1)]
  <2>q. /\ q \in CallState /\ q.end = "none" /\ q.asked = st.asked
        /\ q.attempt = st.attempt /\ q.try = st.try /\ q.cap = st.cap
        /\ q.bare = st.bare /\ q.ledgered = st.ledgered + (st.kept + 1)
        /\ q.reserved = (IF st.bare THEN st.reserved ELSE st.reserved + 1)
        /\ q.sent = st.sent + 1 /\ q.used = st.used + 1
    BY <2>0 DEF CallState
  <2>r. o = IF a = "json" THEN [q EXCEPT !.end = "answered"]
            ELSE IF p.asked < cfg.parseRetries
            THEN [q EXCEPT !.asked = q.asked + 1, !.attempt = 0, !.try = 0, !.kept = 0,
                           !.cap = cfg.maxTokens, !.strip = FALSE, !.noThink = FALSE,
                           !.bare = FALSE]
            ELSE [q EXCEPT !.end = "unparsed"]
    <3>1. p.ledgered + p.kept + 1 = p.ledgered + (p.kept + 1)
      BY <2>0 DEF CallState
    <3> QED BY <2>o, <2>0, <3>1 DEF Returned, CallState
  <2> HIDE DEF q
  <2>1. CASE a = "json"
    BY <2>q, <2>r, <2>1 DEF CallState, End
  <2>2. CASE a # "json" /\ st.asked < cfg.parseRetries
    <3> DEFINE asked == q.asked + 1
    <3>1. asked \in Nat /\ asked = st.asked + 1
      BY <2>q DEF CallState
    <3>2. o = [q EXCEPT !.asked = asked, !.attempt = 0, !.try = 0, !.kept = 0,
                        !.cap = cfg.maxTokens, !.strip = FALSE, !.noThink = FALSE,
                        !.bare = FALSE]
      BY <2>0, <2>r, <2>2
    <3> HIDE DEF asked
    <3>3. o \in CallState
      BY ZenonT(30), <1>c, <2>q, <3>1, <3>2 DEF CallState
    <3>4. /\ o.end = q.end /\ o.asked = asked /\ o.attempt = 0 /\ o.try = 0
          /\ o.cap = cfg.maxTokens /\ o.bare = FALSE /\ o.kept = 0
          /\ o.reserved = q.reserved /\ o.sent = q.sent /\ o.used = q.used
          /\ o.ledgered = q.ledgered
      BY <2>q, <3>2 DEF CallState
    <3> QED BY <2>q, <2>2, <3>1, <3>3, <3>4
  <2>3. CASE a # "json" /\ ~ st.asked < cfg.parseRetries
    BY <2>0, <2>q, <2>r, <2>3 DEF CallState, End
  <2> QED BY <2>1, <2>2, <2>3
<1> HIDE DEF o
<1>2. WithinLimits(o, cfg)
  BY <1>0, <1>1 DEF WithinLimits, CallState, Settings
<1>3. TokensCounted(o)
  BY <1>0, <1>1 DEF CallInv, TokensCounted, RealSpendIsLedgered, CallState
<1>4. /\ Turns(st, cfg) \in Nat /\ Turns(o, cfg) \in Nat
      /\ Turns(st, cfg) + 1 <= Turns(o, cfg) + Pending(o)
  <2>1. /\ Turns(st, cfg) + 1 <= (st.asked + 1) * PerAsk(cfg)
        /\ Turns(st, cfg) \in Nat /\ Turns(o, cfg) \in Nat
    BY <1>0, <1>1, <1>2, TurnsGrow
  <2>2. CASE o.end # "none"
    <3>1. Turns(o, cfg) = Turns(st, cfg) /\ Pending(o) = 1
      BY <1>1, <2>2 DEF Turns, Pending
    <3> QED BY <2>1, <3>1
  <2>3. CASE o.end = "none"
    <3>1. Turns(o, cfg) = (st.asked + 1) * PerAsk(cfg) + 0 * PerAttempt(cfg) + 0
      BY <1>1, <2>3 DEF Turns
    <3>2. PerAsk(cfg) \in Int /\ PerAttempt(cfg) \in Int /\ st.asked \in Nat
      BY <1>0 DEF PerAsk, PerAttempt, Settings, CallState
    <3> DEFINE u == (st.asked + 1) * PerAsk(cfg)
    <3>3. u \in Int /\ 0 * PerAttempt(cfg) = 0
      BY <3>2
    <3> HIDE DEF u
    <3>4. Turns(o, cfg) = u
      BY <3>1, <3>3 DEF u
    <3>5. Pending(o) \in Nat
      BY DEF Pending
    <3> QED BY <2>1, <3>3, <3>4, <3>5 DEF u
  <2> QED BY <2>2, <2>3
<1>5. RequestsCounted(o, cfg)
  BY <1>0, <1>1, <1>4, RequestIsCounted
<1> QED BY <1>1, <1>2, <1>3, <1>5 DEF CallInv, o

\* A request without text in its answer: o differs from Sent(st) as the branch says.
LEMMA SentFields ==
  ASSUME NEW st \in CallState
  PROVE  /\ Sent(st) \in CallState
         /\ Sent(st).end = st.end /\ Sent(st).asked = st.asked
         /\ Sent(st).attempt = st.attempt /\ Sent(st).try = st.try
         /\ Sent(st).cap = st.cap /\ Sent(st).bare = st.bare
         /\ Sent(st).reserved = (IF st.bare THEN st.reserved ELSE st.reserved + 1)
         /\ Sent(st).sent = st.sent + 1 /\ Sent(st).used = st.used
         /\ Sent(st).kept = st.kept /\ Sent(st).ledgered = st.ledgered
<1> DEFINE sent == st.sent + 1
           reserved == IF st.bare THEN st.reserved ELSE st.reserved + 1
           p == Sent(st)
<1>1. sent \in Nat /\ reserved \in Nat
  BY DEF CallState
<1>2. p = [st EXCEPT !.sent = sent, !.reserved = reserved]
  BY DEF Sent, CallState
<1> HIDE DEF p, sent, reserved
<1>3. p \in CallState
  BY <1>1, <1>2 DEF CallState
<1>4. /\ p.end = st.end /\ p.asked = st.asked
      /\ p.attempt = st.attempt /\ p.try = st.try
      /\ p.cap = st.cap /\ p.bare = st.bare
      /\ p.reserved = reserved /\ p.sent = sent /\ p.used = st.used
      /\ p.kept = st.kept /\ p.ledgered = st.ledgered
  BY <1>1, <1>2 DEF CallState
<1> QED BY <1>3, <1>4 DEF p, sent, reserved

\* A request that comes back without text keeps the invariant if it is pending, is
\* the next try of its attempt, or ends the call.
LEMMA TextlessKeeps ==
  ASSUME NEW cfg \in Settings, NEW st, CallInv(st, cfg), st.end = "none",
         st.bare \/ ~ BudgetOver(st, cfg), NEW o \in CallState,
         o.asked = st.asked, o.attempt = st.attempt, o.cap = st.cap,
         o.reserved = IF st.bare THEN st.reserved ELSE st.reserved + 1,
         o.sent = st.sent + 1, o.used = st.used, o.kept = st.kept,
         o.ledgered = st.ledgered,
         \/ o.end = "none" /\ o.try = st.try /\ o.bare /\ ~ st.bare /\ cfg.schema
         \/ o.end = "none" /\ o.try = st.try + 1 /\ o.try <= cfg.maxRetries /\ ~ o.bare
         \/ o.end = "threw" /\ o.try = st.try /\ o.bare = st.bare
  PROVE  CallInv(o, cfg)
<1>0. st \in CallState /\ WithinLimits(st, cfg) /\ RequestsCounted(st, cfg)
  BY DEF CallInv
<1>1. WithinLimits(o, cfg)
  BY <1>0 DEF WithinLimits, CallState, Settings
<1>2. TokensCounted(o)
  BY <1>0 DEF CallInv, TokensCounted, RealSpendIsLedgered
<1>3. Turns(st, cfg) \in Nat /\ Turns(o, cfg) \in Nat
  BY <1>0, <1>1, TurnsGrow
<1>4. Turns(st, cfg) + 1 <= Turns(o, cfg) + Pending(o)
  <2> DEFINE b == st.asked * PerAsk(cfg) + st.attempt * PerAttempt(cfg)
  <2>1. Turns(st, cfg) = b + st.try /\ Turns(o, cfg) = b + o.try
    BY DEF Turns
  <2>2. b \in Int /\ st.try \in Nat /\ o.try \in Nat
    BY <1>0 DEF PerAsk, PerAttempt, Settings, CallState
  <2> HIDE DEF b
  <2> QED BY <2>1, <2>2 DEF Pending
<1>5. RequestsCounted(o, cfg)
  BY <1>0, <1>3, <1>4, RequestIsCounted
<1> QED BY <1>1, <1>2, <1>5 DEF CallInv

\* The cap that NextCap gives does not fall and exceeds the ceiling only if it did.
LEMMA NextCapFits ==
  ASSUME NEW cfg \in Settings, NEW st \in CallState, WithinLimits(st, cfg),
         st.cap < cfg.ceiling
  PROVE  /\ NextCap(st, cfg) \in Nat
         /\ NextCap(st, cfg) >= cfg.maxTokens
         /\ NextCap(st, cfg) <= cfg.ceiling
<1>1. st.cap \in Nat /\ 2 * st.cap \in Nat /\ cfg.ceiling \in Nat /\ cfg.maxTokens \in Nat
  BY DEF CallState, Settings
<1> DEFINE m == Min({cfg.ceiling, 2 * st.cap})
<1>2. m \in Nat /\ m <= cfg.ceiling
  BY <1>1, MinOfTwo
<1> HIDE DEF m
<1>3. NextCap(st, cfg) = IF st.cap >= m THEN st.cap ELSE m
  BY <1>1, <1>2, MaxOfTwo DEF NextCap, m
<1> QED BY <1>1, <1>2, <1>3 DEF WithinLimits

LEMMA CallStep ==
  ASSUME NEW cfg \in Settings, NEW st, CallInv(st, cfg), NEW a \in Answer
  PROVE  /\ CallInv(Asked(st, a, cfg), cfg)
         /\ \/ Asked(st, a, cfg) = st
            \/ Asked(st, a, cfg).end # "none"
            \/ Asked(st, a, cfg).sent = st.sent + 1
<1> DEFINE o == Asked(st, a, cfg)
           Goal == CallInv(o, cfg) /\ (o = st \/ o.end # "none" \/ o.sent = st.sent + 1)
<1>0. st \in CallState /\ WithinLimits(st, cfg) /\ RequestsCounted(st, cfg)
  BY DEF CallInv
<1>b. st.bare \in BOOLEAN /\ st.try \in Nat /\ cfg.maxRetries \in Nat
  BY <1>0 DEF CallState, Settings
<1>1. CASE st.end # "none"
  <2>1. o = st
    BY <1>1 DEF Asked
  <2> QED BY <2>1
<1>2. CASE st.end = "none" /\ ~ st.bare /\ BudgetOver(st, cfg)
  <2>1. o = [st EXCEPT !.end = "budget"]
    BY <1>2 DEF Asked
  <2> HIDE DEF o
  <2>2. o \in CallState
    BY <1>0, <2>1 DEF CallState, End
  <2>3. /\ o.end = "budget" /\ o.asked = st.asked /\ o.attempt = st.attempt
        /\ o.try = st.try /\ o.cap = st.cap /\ o.bare = st.bare
        /\ o.reserved = st.reserved /\ o.sent = st.sent
    BY <1>0, <2>1 DEF CallState
  <2>4. WithinLimits(o, cfg) /\ TokensCounted(o)
    BY <1>0, <2>3 DEF WithinLimits, TokensCounted, RealSpendIsLedgered
  <2>5. RequestsCounted(o, cfg)
    <3>1. Turns(o, cfg) = Turns(st, cfg) /\ Turns(st, cfg) \in Nat
      BY <1>0, <2>3, TurnsGrow DEF Turns
    <3>2. st.reserved \in Nat /\ st.sent \in Nat
      BY <1>0 DEF CallState
    <3> QED BY <1>0, <1>2, <2>3, <3>1, <3>2 DEF RequestsCounted, Pending, Repetition
  <2> QED BY <2>2, <2>3, <2>4, <2>5 DEF CallInv, o
<1> DEFINE Goes == st.end = "none" /\ (st.bare \/ ~ BudgetOver(st, cfg))
<1>3. CASE Goes /\ a = "400" /\ SchemaSent(st, cfg)
  <2> DEFINE s == Sent(st)
  <2>1. o = [s EXCEPT !.bare = TRUE]
    BY <1>3 DEF Asked
  <2>2. ~ st.bare /\ cfg.schema
    BY <1>3 DEF SchemaSent
  <2>3. /\ s \in CallState
        /\ s.end = st.end /\ s.asked = st.asked /\ s.attempt = st.attempt
        /\ s.try = st.try /\ s.cap = st.cap
        /\ s.reserved = (IF st.bare THEN st.reserved ELSE st.reserved + 1)
        /\ s.sent = st.sent + 1 /\ s.used = st.used
        /\ s.kept = st.kept /\ s.ledgered = st.ledgered
    BY <1>0, SentFields
  <2> HIDE DEF s, o
  <2>4. o \in CallState
    BY <2>1, <2>3 DEF CallState
  <2>5. /\ o.end = s.end /\ o.asked = s.asked /\ o.attempt = s.attempt
        /\ o.try = s.try /\ o.cap = s.cap /\ o.bare = TRUE
        /\ o.reserved = s.reserved /\ o.sent = s.sent /\ o.used = s.used
        /\ o.kept = s.kept /\ o.ledgered = s.ledgered
    BY <2>1, <2>3 DEF CallState
  <2>6. CallInv(o, cfg)
    BY <1>3, <2>2, <2>3, <2>4, <2>5, TextlessKeeps
  <2> QED BY <2>3, <2>5, <2>6 DEF o
<1>4. CASE Goes /\ a = "transient" /\ st.try < cfg.maxRetries
  <2> DEFINE s == Sent(st)
             try == s.try + 1
  <2>1. o = [s EXCEPT !.try = try, !.bare = FALSE]
    BY <1>4 DEF Asked
  <2>3. /\ s \in CallState
        /\ s.end = st.end /\ s.asked = st.asked /\ s.attempt = st.attempt
        /\ s.try = st.try /\ s.cap = st.cap
        /\ s.reserved = (IF st.bare THEN st.reserved ELSE st.reserved + 1)
        /\ s.sent = st.sent + 1 /\ s.used = st.used
        /\ s.kept = st.kept /\ s.ledgered = st.ledgered
    BY <1>0, SentFields
  <2>t. try \in Nat /\ try = st.try + 1 /\ try <= cfg.maxRetries
    BY <1>b, <1>4, <2>3
  <2> HIDE DEF s, o, try
  <2>4. o \in CallState
    BY <2>1, <2>3, <2>t DEF CallState
  <2>5. /\ o.end = s.end /\ o.asked = s.asked /\ o.attempt = s.attempt
        /\ o.try = try /\ o.cap = s.cap /\ o.bare = FALSE
        /\ o.reserved = s.reserved /\ o.sent = s.sent /\ o.used = s.used
        /\ o.kept = s.kept /\ o.ledgered = s.ledgered
    BY <2>1, <2>3, <2>t DEF CallState
  <2>6. CallInv(o, cfg)
    BY <1>4, <2>3, <2>4, <2>5, <2>t, TextlessKeeps
  <2> QED BY <2>3, <2>5, <2>6 DEF o
<1>5. CASE /\ Goes /\ a \in {"400", "transient", "failure"}
           /\ ~ (a = "400" /\ SchemaSent(st, cfg))
           /\ ~ (a = "transient" /\ st.try < cfg.maxRetries)
  <2> DEFINE s == Sent(st)
  <2>1. o = [s EXCEPT !.end = "threw"]
    BY <1>5 DEF Asked
  <2>3. /\ s \in CallState
        /\ s.end = st.end /\ s.asked = st.asked /\ s.attempt = st.attempt
        /\ s.try = st.try /\ s.cap = st.cap /\ s.bare = st.bare
        /\ s.reserved = (IF st.bare THEN st.reserved ELSE st.reserved + 1)
        /\ s.sent = st.sent + 1 /\ s.used = st.used
        /\ s.kept = st.kept /\ s.ledgered = st.ledgered
    BY <1>0, SentFields
  <2> HIDE DEF s, o
  <2>4. o \in CallState
    BY <2>1, <2>3 DEF CallState, End
  <2>5. /\ o.end = "threw" /\ o.asked = s.asked /\ o.attempt = s.attempt
        /\ o.try = s.try /\ o.cap = s.cap /\ o.bare = s.bare
        /\ o.reserved = s.reserved /\ o.sent = s.sent /\ o.used = s.used
        /\ o.kept = s.kept /\ o.ledgered = s.ledgered
    BY <2>1, <2>3 DEF CallState
  <2>6. CallInv(o, cfg)
    BY <1>5, <2>3, <2>4, <2>5, TextlessKeeps
  <2> QED BY <2>5, <2>6 DEF o
<1>6. CASE Goes /\ a \notin {"400", "transient", "failure"}
  <2>1. o = Read(Sent(st), a, cfg)
    BY <1>6 DEF Asked
  <2>2. /\ Sent(st).attempt = st.attempt /\ Sent(st).cap = st.cap
        /\ Sent(st).noThink \in BOOLEAN
    BY <1>0, SentFields DEF CallState
  <2>3. /\ st.cap \in Nat /\ st.cap >= cfg.maxTokens
        /\ st.cap > cfg.maxTokens => st.cap <= cfg.ceiling
    BY <1>0 DEF CallState, WithinLimits
  <2> DEFINE more == st.attempt < cfg.truncationRetries
  <2>4. CASE more /\ o = Escalated(Paid(st), st.cap, TRUE)
    <3>1. CallInv(o, cfg) /\ o.sent = st.sent + 1
      BY <1>6, <2>3, <2>4, EscalationKeeps
    <3> QED BY <3>1
  <2>5. CASE /\ more /\ st.cap < cfg.ceiling
             /\ o = Escalated(Paid(st), NextCap(st, cfg), Sent(st).noThink)
    <3>1. CallInv(o, cfg) /\ o.sent = st.sent + 1
      BY <1>0, <1>6, <2>2, <2>5, NextCapFits, EscalationKeeps
    <3> QED BY <3>1
  <2>6. CASE o = Returned(Paid(st), a, cfg)
    <3>1. CallInv(o, cfg) /\ o.sent = st.sent + 1
      BY <1>6, <2>6, ReturnKeeps
    <3> QED BY <3>1
  <2>7. NextCap(Sent(st), cfg) = NextCap(st, cfg)
    BY <2>2 DEF NextCap
  <2> QED BY <2>1, <2>2, <2>4, <2>5, <2>6, <2>7 DEF Read, Paid
<1>7. a \in {"400", "transient", "failure"} \/ a \notin {"400", "transient", "failure"}
  OBVIOUS
<1> QED BY <1>b, <1>1, <1>2, <1>3, <1>4, <1>5, <1>6

LEMMA CallInvariant ==
  ASSUME NEW cfg \in Settings
  PROVE  CallSpec(cfg) => []CallInv(call, cfg)
<1>1. CallInit(cfg) => CallInv(call, cfg)
  <2> SUFFICES ASSUME call = Fresh(cfg)  PROVE CallInv(call, cfg)
    BY DEF CallInit
  <2>1. cfg.maxTokens \in Nat /\ cfg.maxCalls \in Nat /\ cfg.parseRetries \in Nat
        /\ cfg.truncationRetries \in Nat /\ cfg.maxRetries \in Nat
    BY DEF Settings
  <2>2. call \in CallState
    BY <2>1 DEF Fresh, CallState, End
  <2>3. WithinLimits(call, cfg) /\ TokensCounted(call)
    BY <2>1 DEF Fresh, WithinLimits, TokensCounted, RealSpendIsLedgered
  <2>4. RequestsCounted(call, cfg)
    <3>1. Turns(call, cfg) \in Nat
      BY <2>2, <2>3, TurnsGrow
    <3> QED BY <2>1, <3>1 DEF Fresh, RequestsCounted, Pending, Repetition
  <2> QED BY <2>2, <2>3, <2>4 DEF CallInv
<1>2. CallInv(call, cfg) /\ [CallNext(cfg)]_call => CallInv(call, cfg)'
  <2> SUFFICES ASSUME CallInv(call, cfg), [CallNext(cfg)]_call
               PROVE  CallInv(call', cfg)
    OBVIOUS
  <2>1. CASE call' = call
    BY <2>1
  <2>2. CASE CallNext(cfg)
    BY <2>2, CallStep DEF CallNext
  <2> QED BY <2>1, <2>2
<1> QED BY <1>1, <1>2, PTL DEF CallSpec

\* A question to the model ends, whatever the provider answers: its three nested loops
\* and the repetitions without a schema send at most twice the product of their limits,
\* the caps of its ladder stay in their range, and no request but such a repetition
\* leaves unreserved (callLLMJson.js, callLLM.js, budget.js); for any limits.
THEOREM CallsAreBounded ==
  ASSUME NEW cfg \in Settings
  PROVE  CallSpec(cfg) => [](/\ CallIsBounded(call, cfg)
                             /\ CapsNeverShrink(call, cfg)
                             /\ RequestsAreReserved(call, cfg))
<1>1. CallInv(call, cfg) => /\ CallIsBounded(call, cfg)
                            /\ CapsNeverShrink(call, cfg)
                            /\ RequestsAreReserved(call, cfg)
  <2> SUFFICES ASSUME CallInv(call, cfg)
               PROVE  /\ CallIsBounded(call, cfg)
                      /\ CapsNeverShrink(call, cfg)
                      /\ RequestsAreReserved(call, cfg)
    OBVIOUS
  <2>1. call \in CallState /\ WithinLimits(call, cfg) /\ RequestsCounted(call, cfg)
    BY DEF CallInv
  <2>2. call.reserved \in Nat /\ call.sent \in Nat
    BY <2>1 DEF CallState
  <2>3. Turns(call, cfg) \in Nat /\ Turns(call, cfg) + 1 <= Reservations(cfg)
    BY <2>1, TurnsGrow
  <2>4. Reservations(cfg) \in Int
    BY DEF Settings, Reservations
  <2> QED BY <2>1, <2>2, <2>3, <2>4
          DEF WithinLimits, RequestsCounted, Pending, Repetition, CallIsBounded,
              CapsNeverShrink, RequestsAreReserved
<1> QED BY <1>1, CallInvariant, PTL

\* A call that goes on has sent a request: with the bound, it ends.
THEOREM CallsGoOnBySending ==
  ASSUME NEW cfg \in Settings
  PROVE  CallSpec(cfg) => EveryStepSends
<1>1. CallInv(call, cfg) /\ [CallNext(cfg)]_call =>
        [call'.end = "none" => call'.sent = call.sent + 1]_call
  BY CallStep DEF CallNext
<1> QED BY <1>1, CallInvariant, PTL DEF CallSpec, EveryStepSends

\* "The ledger and the run-budget guard must see real spend" (callLLM.js): when the
\* model has the last word, every token of the question is ledgered, through
\* discarded attempts and re-asks.
THEOREM LedgerSeesSpend ==
  ASSUME NEW cfg \in Settings
  PROVE  CallSpec(cfg) => []RealSpendIsLedgered(call)
<1>1. CallInv(call, cfg) => RealSpendIsLedgered(call)
  BY DEF CallInv, TokensCounted
<1> QED BY <1>1, CallInvariant, PTL

----
\* A job of the solver (FormalRunner).

Settled == {"PASS", "FAIL", "TIMEOUT", "UNKNOWN", "TOOL_ERROR"}

JobState ==
  [group: {"alive", "gone", "unborn"}, out: SbyOutput, errored: BOOLEAN, stop: BOOLEAN,
   closed: BOOLEAN, hard: BOOLEAN, settled: Settled \union {"none"},
   killTimer: BOOLEAN, hardTimer: BOOLEAN, heard: BOOLEAN]

\* A job that waits: for its first timer, or, when it was asked to stop, for the end of its
\* child and the hard kill, one of which is still to come.
Waiting(j) ==
  /\ j.heard
  /\ ~ j.stop => j.killTimer /\ ~ j.hardTimer /\ ~ j.hard /\ ~ j.closed /\ ~ j.errored
  /\ j.stop => ~ j.killTimer /\ (j.hardTimer <=> ~ j.hard) /\ ~ (j.closed /\ j.hard)

\* What has happened to the child, as the flags tell it.
ChildFollows(j) ==
  /\ j.closed => j.group = "gone" \/ j.errored
  /\ j.errored => j.group = "unborn"
  /\ j.hard => j.group # "alive"

JobInv(j, mode) ==
  /\ j \in JobState
  /\ j.settled = "none" => Waiting(j)
  /\ ChildFollows(j)
  /\ LeavesNothing(j)
  /\ PassIsEvidence(j, mode)

LEMMA ParsedOutput ==
  ASSUME NEW out \in SbyOutput, NEW mode
  PROVE  /\ parseSbyOutput(out, mode) \in Settled
         /\ parseSbyOutput(out, mode) = "PASS" => out = [done |-> <<"PASS">>, zero |-> TRUE]
         /\ parseSbyOutput(out, mode) = "UNKNOWN" => mode = "prove"
<1>1. out.zero \in BOOLEAN /\ out = [done |-> out.done, zero |-> out.zero]
  BY DEF SbyOutput
<1>2. CASE out.done = <<"FAIL">>
  BY <1>2 DEF parseSbyOutput, Settled
<1>3. CASE out.done = <<"TIMEOUT">>
  BY <1>3 DEF parseSbyOutput, Settled
<1>4. CASE out.done \notin {<<"FAIL">>, <<"TIMEOUT">>}
  BY <1>1, <1>4 DEF parseSbyOutput, Settled
<1> QED BY <1>2, <1>3, <1>4

LEMMA JobStarts ==
  ASSUME NEW mode, NEW group \in {"alive", "unborn"}
  PROVE  JobInv(SpawnedJob(group), mode)
<1>1. [done |-> <<>>, zero |-> FALSE] \in SbyOutput
  <2>1. <<>> \in [1..0 -> Marker]
    OBVIOUS
  <2>2. 0 \in 0..2
    OBVIOUS
  <2> QED BY <2>1, <2>2 DEF SbyOutput
<1> QED BY <1>1 DEF SpawnedJob, JobInv, JobState, Waiting, ChildFollows, LeavesNothing,
                    PassIsEvidence

\* A job resolves once: nothing happens to it after that but the report of its end.
LEMMA JobStep ==
  ASSUME NEW mode, NEW j, JobInv(j, mode), NEW k \in Due(j, mode) \union Possible(j)
  PROVE  /\ JobInv(k, mode)
         /\ j.settled # "none" =>
              k.settled = j.settled /\ ~ k.killTimer /\ ~ k.hardTimer /\ ~ k.heard
<1> USE DEF JobState, Waiting, ChildFollows, LeavesNothing, PassIsEvidence
<1>1. CASE ClosePending(j) /\ k = OnClose(j, mode)
  <2>1. /\ parseSbyOutput(j.out, mode) \in Settled
        /\ parseSbyOutput(j.out, mode) = "PASS" => j.out = [done |-> <<"PASS">>, zero |-> TRUE]
        /\ parseSbyOutput(j.out, mode) = "UNKNOWN" => mode = "prove"
    BY ParsedOutput DEF JobInv
  <2> DEFINE s == parseSbyOutput(j.out, mode)
  <2> HIDE DEF s
  <2>2. CASE j.stop
    BY ZenonT(30), <1>1, <2>2 DEF JobInv, ClosePending, OnClose, finishStopped, finish, Settled
  <2>3. CASE ~ j.stop
    <3>1. k = finish([j EXCEPT !.closed = TRUE], s)
      BY <1>1, <2>3 DEF OnClose, s
    <3>2. /\ s \in Settled
          /\ s = "PASS" => j.out = [done |-> <<"PASS">>, zero |-> TRUE]
          /\ s = "UNKNOWN" => mode = "prove"
      BY <2>1 DEF s
    <3>3. CASE j.settled = "none"
      <4>1. k = [j EXCEPT !.closed = TRUE, !.settled = s, !.killTimer = FALSE,
                          !.hardTimer = FALSE, !.heard = FALSE]
        BY <2>3, <3>1, <3>3 DEF finish, JobInv
      <4> QED BY ZenonT(30), <1>1, <2>3, <3>2, <3>3, <4>1 DEF JobInv, ClosePending, Settled
    <3>4. CASE j.settled # "none"
      <4>1. k = [j EXCEPT !.closed = TRUE]
        BY <3>1, <3>4 DEF finish, JobInv
      <4> QED BY ZenonT(30), <1>1, <3>4, <4>1 DEF JobInv, ClosePending
    <3> QED BY <3>3, <3>4
  <2> QED BY <2>2, <2>3 DEF JobInv
<1>2. CASE j.group = "unborn" /\ ~ j.errored /\ k = OnError(j)
  BY <1>2 DEF JobInv, OnError, finish, Settled
<1>3. CASE j.killTimer /\ k = requestStop(j)
  BY <1>3 DEF JobInv, requestStop
<1>4. CASE j.hardTimer /\ k = OnHardKill(j)
  BY <1>4 DEF JobInv, OnHardKill, finishStopped, finish, Settled
<1>5. CASE j.heard /\ k = requestStop(j)
  BY <1>5 DEF JobInv, requestStop
<1>6. CASE j.group = "alive" /\ \E o \in SbyOutput : k = [j EXCEPT !.group = "gone", !.out = o]
  BY <1>6 DEF JobInv
<1>7. \/ ClosePending(j) /\ k = OnClose(j, mode)
      \/ j.group = "unborn" /\ ~ j.errored /\ k = OnError(j)
      \/ j.killTimer /\ k = requestStop(j)
      \/ j.hardTimer /\ k = OnHardKill(j)
      \/ j.heard /\ k = requestStop(j)
      \/ j.group = "alive" /\ \E o \in SbyOutput : k = [j EXCEPT !.group = "gone", !.out = o]
  BY DEF Due, Possible, When
<1> QED BY <1>1, <1>2, <1>3, <1>4, <1>5, <1>6, <1>7

LEMMA JobInvariant ==
  ASSUME NEW CONSTANT mode
  PROVE  JobSpec(mode) => []JobInv(job, mode)
<1>1. JobInit => JobInv(job, mode)
  BY JobStarts DEF JobInit
<1>2. JobInv(job, mode) /\ [JobNext(mode)]_job => JobInv(job, mode)'
  <2> SUFFICES ASSUME JobInv(job, mode), [JobNext(mode)]_job
               PROVE  JobInv(job', mode)
    OBVIOUS
  <2> QED BY JobStep DEF JobNext
<1> QED BY <1>1, <1>2, PTL DEF JobSpec

\* A job that has not resolved is never stuck.
LEMMA JobHasAnEvent ==
  ASSUME NEW mode, NEW j, JobInv(j, mode)
  PROVE  HasAnEventToCome(j, mode)
<1> SUFFICES ASSUME j.settled = "none"  PROVE \E k \in Due(j, mode) : k # j
  BY DEF HasAnEventToCome
<1>1. j \in JobState /\ Waiting(j) /\ ChildFollows(j)
  BY DEF JobInv
<1>2. CASE ~ j.stop
  <2>1. requestStop(j) \in Due(j, mode)
    BY <1>1, <1>2 DEF Due, When, Waiting
  <2>2. requestStop(j).stop
    BY <1>1, <1>2 DEF requestStop, JobState
  <2> QED BY <1>2, <2>1, <2>2
<1>3. CASE j.stop /\ ~ j.hard
  <2>1. OnHardKill(j) \in Due(j, mode)
    BY <1>1, <1>3 DEF Due, When, Waiting
  <2>2. OnHardKill(j).hard
    BY <1>1, <1>3 DEF OnHardKill, finishStopped, finish, JobState
  <2> QED BY <1>3, <2>1, <2>2
<1>4. CASE j.stop /\ j.hard
  <2>1. ~ j.closed /\ j.group \in {"gone", "unborn"}
    BY <1>1, <1>4 DEF Waiting, ChildFollows, JobState
  <2>2. CASE j.group = "unborn" /\ ~ j.errored
    <3>1. OnError(j) \in Due(j, mode)
      BY <2>2 DEF Due, When
    <3>2. OnError(j).errored
      BY <1>1 DEF OnError, finish, JobState
    <3> QED BY <2>2, <3>1, <3>2
  <2>3. CASE ~ (j.group = "unborn" /\ ~ j.errored)
    <3>1. OnClose(j, mode) \in Due(j, mode)
      BY <2>1, <2>3 DEF Due, When, ClosePending
    <3>2. OnClose(j, mode).closed
      BY <1>1 DEF OnClose, finishStopped, finish, JobState
    <3> QED BY <2>1, <3>1, <3>2
  <2> QED BY <2>2, <2>3
<1>5. j.stop \in BOOLEAN /\ j.hard \in BOOLEAN
  BY <1>1 DEF JobState
<1> QED BY <1>2, <1>3, <1>4, <1>5

\* runBmc: in whatever order the exit, an error, the timers, an abort and a signal come, a job
\* that has not resolved has an event to come, one that has resolved leaves no timer, no
\* listener and no process, and a stopped or unmarked solver makes no PASS.
THEOREM JobsResolve ==
  ASSUME NEW CONSTANT mode
  PROVE  JobSpec(mode) => [](/\ LeavesNothing(job)
                             /\ HasAnEventToCome(job, mode)
                             /\ PassIsEvidence(job, mode))
<1>1. JobInv(job, mode) =>
        LeavesNothing(job) /\ HasAnEventToCome(job, mode) /\ PassIsEvidence(job, mode)
  BY JobHasAnEvent DEF JobInv
<1> QED BY <1>1, JobInvariant, PTL

\* finish() runs once: a job keeps the status it resolved with, against the events that come
\* late.
THEOREM JobsResolveOnce ==
  ASSUME NEW CONSTANT mode
  PROVE  JobSpec(mode) => ResolvesOnce
<1>1. JobInv(job, mode) /\ [JobNext(mode)]_job =>
        [job.settled # "none" =>
           job'.settled = job.settled /\ ~ job'.killTimer /\ ~ job'.hardTimer /\ ~ job'.heard]_job
  BY JobStep DEF JobNext
<1> QED BY <1>1, JobInvariant, PTL DEF JobSpec, ResolvesOnce

----
\* A run of the formal_verify stage (FormalVerify).

StageState(max) ==
  [end: {"none", "skipped", "done", "threw"}, iter: 0..max, rtl: 0..max,
   fixIterations: 0..max, jobs: Nat, asked: 0..max, refuted: SUBSET (0..max),
   violated: (0..max) \union {"none"}, status: BmcStatus \union {"none"},
   checked: 0..max, proveStatus: ProveStatus \union {"none"}]

\* Each repair has used up an iteration; a run that goes on has a counterexample of each
\* job, and what it repairs was refuted.
RepairsCounted(st, max) ==
  /\ st.rtl <= st.iter /\ st.fixIterations = st.iter
  /\ st.end = "none" => /\ st.asked = st.iter /\ st.jobs = st.iter
                        /\ st.status \in {"none", "FAIL"}
  /\ st.jobs <= max + 1 + (IF st.proveStatus = "none" THEN 0 ELSE 1)
  /\ st.iter > 0 => 0 \in st.refuted

\* A PASS is of the text as it is, which no job refuted; only then a proof is tried.
PassIsOfTheText(st) ==
  /\ st.status = "PASS" =>
       st.end = "done" /\ st.checked = st.rtl /\ st.rtl \notin st.refuted
  /\ st.proveStatus # "none" => st.status = "PASS"

StageInv(st, max) ==
  /\ st \in StageState(max)
  /\ SkipIsFree(st)
  /\ RepairsCounted(st, max)
  /\ PassIsOfTheText(st)

\* A run with the fields set that a job, a repair and the attempt of a proof set.
WithJob(st, jobs, status, refuted, violated, end) ==
  [st EXCEPT !.jobs = jobs, !.status = status, !.checked = st.rtl, !.refuted = refuted,
             !.violated = violated, !.end = end]

WithRepair(st, asked, rtl, iter, end) ==
  [st EXCEPT !.asked = asked, !.rtl = rtl, !.iter = iter, !.fixIterations = iter, !.end = end]

WithProof(st, status, jobs) == [st EXCEPT !.proveStatus = status, !.jobs = jobs]

LEMMA JobType ==
  ASSUME NEW max \in Nat, NEW st \in StageState(max), NEW jobs \in Nat,
         NEW status \in BmcStatus, NEW refuted \in SUBSET (0..max),
         NEW violated \in (0..max) \union {"none"}, NEW end \in {"none", "done"}
  PROVE  WithJob(st, jobs, status, refuted, violated, end) \in StageState(max)
BY DEF StageState, WithJob

LEMMA RepairType ==
  ASSUME NEW max \in Nat, NEW st \in StageState(max), NEW asked \in 0..max, NEW rtl \in 0..max,
         NEW iter \in 0..max, NEW end \in {"none", "done", "threw"}
  PROVE  WithRepair(st, asked, rtl, iter, end) \in StageState(max)
BY DEF StageState, WithRepair

LEMMA ProofType ==
  ASSUME NEW max \in Nat, NEW st \in StageState(max), NEW jobs \in Nat,
         NEW status \in ProveStatus
  PROVE  WithProof(st, status, jobs) \in StageState(max)
BY DEF StageState, WithProof

LEMMA StageEnters ==
  ASSUME NEW max \in Nat, NEW met
  PROVE  StageInv(Entered(met), max)
<1> DEFINE st == Entered(met)
<1>1. /\ st.end \in {"none", "skipped"} /\ st.iter = 0 /\ st.rtl = 0 /\ st.fixIterations = 0
      /\ st.jobs = 0 /\ st.asked = 0 /\ st.refuted = {} /\ st.status = "none"
      /\ st.proveStatus = "none"
      /\ st \in StageState(max)
  BY DEF Entered, StageState
<1> HIDE DEF st
<1>2. StageInv(st, max)
  BY <1>1 DEF StageInv, SkipIsFree, RepairsCounted, PassIsOfTheText
<1> QED BY <1>2 DEF st

\* A turn of the loop: a job, then perhaps a repair.
LEMMA TurnKeeps ==
  ASSUME NEW max \in Nat, NEW st, StageInv(st, max), NEW status \in BmcStatus,
         NEW repair \in Repair, status = "PASS" => st.rtl \notin st.refuted
  PROVE  StageInv(Turn(st, status, repair, max), max)
<1>1. /\ st \in StageState(max) /\ SkipIsFree(st) /\ RepairsCounted(st, max)
      /\ PassIsOfTheText(st)
  BY DEF StageInv
<1>2. CASE st.end # "none"
  BY <1>2 DEF Turn
<1>3. CASE st.end = "none"
  <2>1. /\ st.end = "none" /\ st.iter \in 0..max /\ st.rtl \in 0..max /\ st.fixIterations = st.iter
        /\ st.jobs = st.iter /\ st.asked = st.iter /\ st.refuted \subseteq 0..max
        /\ st.status \in {"none", "FAIL"} /\ st.proveStatus = "none" /\ st.rtl <= st.iter
        /\ st.iter > 0 => 0 \in st.refuted
    BY <1>1, <1>3 DEF StageState, RepairsCounted, PassIsOfTheText
  <2> DEFINE c == Checked(st, status, max)
             d == Turn(st, status, repair, max)
  <2>2. d = IF c.end = "none" THEN Repaired(c, repair) ELSE c
    BY <1>3 DEF Turn
  <2>3. CASE status # "FAIL"
    <3>1. c = WithJob(st, st.jobs + 1, status, st.refuted, st.violated, "done")
      BY <1>1, <2>3 DEF Checked, StageState, WithJob
    <3> HIDE DEF c
    <3>2. /\ st.jobs + 1 \in Nat /\ st.violated \in (0..max) \union {"none"}
          /\ st.refuted \in SUBSET (0..max) /\ "done" \in {"none", "done"}
      BY <1>1, <2>1 DEF StageState
    <3>3. /\ c \in StageState(max)
          /\ c.end = "done" /\ c.iter = st.iter /\ c.rtl = st.rtl /\ c.jobs = st.jobs + 1
          /\ c.fixIterations = st.fixIterations /\ c.asked = st.asked /\ c.refuted = st.refuted
          /\ c.status = status /\ c.checked = st.rtl /\ c.proveStatus = st.proveStatus
      <4>1. WithJob(st, st.jobs + 1, status, st.refuted, st.violated, "done") \in StageState(max)
        BY <1>1, <3>2, JobType
      <4> QED BY <1>1, <3>1, <4>1 DEF WithJob, StageState
    <3>4. StageInv(c, max)
      BY <2>1, <2>3, <3>3 DEF StageInv, SkipIsFree, RepairsCounted, PassIsOfTheText
    <3> QED BY <2>2, <3>3, <3>4
  <2>4. CASE status = "FAIL"
    <3> DEFINE end == IF st.iter >= max THEN "done" ELSE "none"
               bad == st.refuted \union {st.rtl}
    <3>1. c = WithJob(st, st.jobs + 1, status, bad, st.rtl, end)
      BY <1>1, <2>1, <2>4 DEF Checked, StageState, WithJob
    <3>2. /\ st.jobs + 1 \in Nat /\ end \in {"none", "done"} /\ bad \in SUBSET (0..max)
          /\ end = "none" <=> st.iter < max
      BY <2>1
    <3>3. st.rtl \in (0..max) \union {"none"}
      BY <2>1
    <3>4. 0 \in bad
      BY <2>1
    <3> HIDE DEF c, d, end, bad
    <3>5. /\ c \in StageState(max)
          /\ c.end = end /\ c.iter = st.iter /\ c.rtl = st.rtl /\ c.jobs = st.jobs + 1
          /\ c.fixIterations = st.fixIterations /\ c.asked = st.asked /\ c.refuted = bad
          /\ c.status = status /\ c.checked = st.rtl /\ c.proveStatus = st.proveStatus
      <4>1. WithJob(st, st.jobs + 1, status, bad, st.rtl, end) \in StageState(max)
        BY <1>1, <3>2, <3>3, JobType
      <4> QED BY <1>1, <3>1, <4>1 DEF WithJob, StageState
    <3>6. CASE st.iter >= max
      <4>1. d = c /\ c.end = "done"
        BY <2>1, <2>2, <3>2, <3>5, <3>6
      <4>2. StageInv(c, max)
        BY <2>1, <2>4, <3>4, <3>5, <4>1
           DEF StageInv, SkipIsFree, RepairsCounted, PassIsOfTheText
      <4> QED BY <4>1, <4>2 DEF d
    <3>7. CASE st.iter < max
      <4>1. /\ c.end = "none" /\ d = Repaired(c, repair)
            /\ st.iter + 1 \in 0..max /\ st.rtl + 1 \in 0..max
        BY <2>1, <2>2, <3>2, <3>5, <3>7
      <4>2. PICK rtl \in 0..max, iter \in 0..max, stop \in {"none", "done", "threw"} :
              /\ d = WithRepair(c, st.iter + 1, rtl, iter, stop)
              /\ rtl <= iter /\ iter >= st.iter /\ (stop = "none" => iter = st.iter + 1)
        <5>1. c.asked = st.iter /\ c.rtl = st.rtl /\ c.iter = st.iter
              /\ c.fixIterations = st.iter
          BY <2>1, <3>5
        <5>2. CASE repair = "adopted"
          <6>1. d = WithRepair(c, st.iter + 1, st.rtl + 1, st.iter + 1, "none")
            BY <3>5, <4>1, <5>1, <5>2 DEF Repaired, StageState, WithRepair
          <6> QED BY <2>1, <4>1, <6>1
        <5>3. CASE repair = "misuse"
          <6>1. d = WithRepair(c, st.iter + 1, st.rtl, st.iter + 1, "none")
            BY <3>5, <4>1, <5>1, <5>3 DEF Repaired, StageState, WithRepair
          <6> QED BY <2>1, <4>1, <6>1
        <5>4. CASE repair = "threw"
          <6>1. d = WithRepair(c, st.iter + 1, st.rtl, st.iter, "threw")
            BY <3>5, <4>1, <5>1, <5>4 DEF Repaired, StageState, WithRepair
          <6> QED BY <2>1, <6>1
        <5>5. CASE repair \notin {"adopted", "misuse", "threw"}
          <6>1. d = WithRepair(c, st.iter + 1, st.rtl, st.iter, "done")
            BY <3>5, <4>1, <5>1, <5>5 DEF Repaired, StageState, WithRepair
          <6> QED BY <2>1, <6>1
        <5> QED BY <5>2, <5>3, <5>4, <5>5
      <4>3. /\ d \in StageState(max)
            /\ d.end = stop /\ d.iter = iter /\ d.rtl = rtl /\ d.jobs = c.jobs
            /\ d.fixIterations = iter /\ d.asked = st.iter + 1 /\ d.refuted = c.refuted
            /\ d.status = c.status /\ d.checked = c.checked /\ d.proveStatus = c.proveStatus
        <5>1. WithRepair(c, st.iter + 1, rtl, iter, stop) \in StageState(max)
          BY <3>5, <4>1, RepairType
        <5> QED BY <3>5, <4>2, <5>1 DEF WithRepair, StageState
      <4>4. StageInv(d, max)
        BY <2>1, <2>4, <3>4, <3>5, <4>1, <4>2, <4>3
           DEF StageInv, SkipIsFree, RepairsCounted, PassIsOfTheText
      <4> QED BY <4>4 DEF d
    <3> QED BY <2>1, <3>6, <3>7
  <2> QED BY <2>3, <2>4
<1> QED BY <1>2, <1>3

LEMMA ProofKeeps ==
  ASSUME NEW max \in Nat, NEW st, StageInv(st, max), NEW status \in ProveStatus,
         NEW formalProve \in BOOLEAN, st.proveStatus = "none"
  PROVE  StageInv(Proved(st, status, formalProve), max)
<1> DEFINE d == Proved(st, status, formalProve)
<1>1. /\ st \in StageState(max) /\ SkipIsFree(st) /\ RepairsCounted(st, max)
      /\ PassIsOfTheText(st)
  BY DEF StageInv
<1>2. CASE st.end = "done" /\ st.status = "PASS" /\ formalProve
  <2>1. d = WithProof(st, status, st.jobs + 1)
    BY <1>1, <1>2 DEF Proved, StageState, WithProof
  <2>2. st.jobs \in Nat /\ st.jobs + 1 \in Nat /\ status # "none"
    BY <1>1 DEF StageState, ProveStatus, BmcStatus
  <2> HIDE DEF d
  <2>3. /\ d \in StageState(max)
        /\ d.end = st.end /\ d.iter = st.iter /\ d.rtl = st.rtl /\ d.jobs = st.jobs + 1
        /\ d.fixIterations = st.fixIterations /\ d.asked = st.asked /\ d.refuted = st.refuted
        /\ d.status = st.status /\ d.checked = st.checked /\ d.proveStatus = status
    <3>1. WithProof(st, status, st.jobs + 1) \in StageState(max)
      BY <1>1, <2>2, ProofType
    <3> QED BY <1>1, <2>1, <3>1 DEF WithProof, StageState
  <2>4. StageInv(d, max)
    BY <1>1, <1>2, <2>2, <2>3 DEF StageInv, SkipIsFree, RepairsCounted, PassIsOfTheText
  <2> QED BY <2>4 DEF d
<1>3. CASE ~ (st.end = "done" /\ st.status = "PASS" /\ formalProve)
  BY <1>3 DEF Proved
<1> QED BY <1>2, <1>3

LEMMA StageInvariant ==
  ASSUME NEW CONSTANT max \in Nat
  PROVE  StageSpec(max) => []StageInv(stage, max)
<1>1. StageInit => StageInv(stage, max)
  BY StageEnters DEF StageInit
<1>2. StageInv(stage, max) /\ [StageNext(max)]_stage => StageInv(stage, max)'
  <2> SUFFICES ASSUME StageInv(stage, max), [StageNext(max)]_stage
               PROVE  StageInv(stage', max)
    OBVIOUS
  <2>1. CASE BmcTurn(max)
    BY <2>1, TurnKeeps DEF BmcTurn
  <2>2. CASE ProofTried
    BY <2>2, ProofKeeps DEF ProofTried
  <2>3. CASE stage' = stage
    BY <2>3
  <2> QED BY <2>1, <2>2, <2>3 DEF StageNext
<1> QED BY <1>1, <1>2, PTL DEF StageSpec

\* formal_verify: a skipped stage starts nothing, the repairs are bounded by the iterations
\* even if every one is refused, and what is forwarded or called proven is the text of the
\* last PASS, which no job refuted; for any number of iterations.
THEOREM FormalRunsHold ==
  ASSUME NEW CONSTANT max \in Nat
  PROVE  StageSpec(max) => [](/\ SkipIsFree(stage)
                              /\ RunIsBounded(stage, max)
                              /\ ForwardedHolds(stage))
<1>1. ASSUME StageInv(stage, max)
      PROVE  SkipIsFree(stage) /\ RunIsBounded(stage, max) /\ ForwardedHolds(stage)
  <2>1. /\ stage \in StageState(max) /\ SkipIsFree(stage) /\ RepairsCounted(stage, max)
        /\ PassIsOfTheText(stage)
    BY <1>1 DEF StageInv
  <2>2. /\ stage.asked \in 0..max /\ stage.jobs \in Nat /\ stage.rtl \in 0..max
        /\ stage.iter \in 0..max /\ stage.fixIterations = stage.iter
    BY <2>1 DEF StageState, RepairsCounted
  <2>3. RunIsBounded(stage, max)
    BY <2>1, <2>2 DEF RunIsBounded, RepairsCounted
  <2>4. stage.status = "PASS" /\ stage.iter > 0 => stage.rtl > 0
    BY <2>1, <2>2 DEF RepairsCounted, PassIsOfTheText
  <2>5. stage.status = "PASS" => stage.checked = Shipped(stage) /\ Shipped(stage) \notin stage.refuted
    <3>1. stage.iter = 0 => stage.rtl = 0
      BY <2>1, <2>2 DEF RepairsCounted
    <3> QED BY <2>1, <2>2, <3>1 DEF PassIsOfTheText, Shipped, Forwarded
  <2>6. ForwardedHolds(stage)
    BY <2>1, <2>2, <2>4, <2>5 DEF ForwardedHolds, PassIsOfTheText, Forwarded, proven
  <2> QED BY <2>1, <2>3, <2>6
<1> QED BY <1>1, StageInvariant, PTL

----
\* The tokens of a project (RunBudget).

WorkerState ==
  [at: {"idle", "stage", "stopped"}, base: Nat, own: Nat, last: Nat, over: BOOLEAN]

ProjectState(workers) == [ledger: Nat, spent: Nat, w: [workers -> WorkerState]]

\* The sum of f over the workers, as the size of a set.
Tokens(workers, f) == UNION {{i} \X (1..f[i]) : i \in workers}
SumOf(workers, f) == Cardinality(Tokens(workers, f))

InStage(p, i) == p.w[i].at = "stage"
Lasts(p) == [i \in DOMAIN p.w |-> IF InStage(p, i) THEN p.w[i].last ELSE 0]
Owns(p) == [i \in DOMAIN p.w |-> IF InStage(p, i) THEN p.w[i].own ELSE 0]

\* What a worker has spent in its stage or may still spend in it, if it calls once.
Held(p, gate) ==
  [i \in DOMAIN p.w |-> IF ~ InStage(p, i) THEN 0
                        ELSE IF p.w[i].own = 0 THEN gate ELSE p.w[i].own]

WorkersStop(p, cfg) ==
  \A i \in DOMAIN p.w :
    /\ p.w[i].last <= p.w[i].own
    /\ InStage(p, i) => p.w[i].base + p.w[i].own < cfg.max + cfg.gate
    /\ InStage(p, i) /\ p.w[i].own = 0 => p.w[i].base < cfg.max

ProjectInv(workers, p, cfg) ==
  /\ p \in ProjectState(workers)
  /\ WorkersStop(p, cfg)
  /\ p.ledger + SumOf(workers, Lasts(p)) <= p.spent

\* The same for a project whose stages call once each and whose ledger is complete.
SingleInv(workers, p, cfg) ==
  /\ p \in ProjectState(workers)
  /\ \A i \in workers : p.w[i].last = p.w[i].own /\ p.w[i].own <= cfg.gate
  /\ p.spent = p.ledger + SumOf(workers, Owns(p))
  /\ p.ledger + SumOf(workers, Held(p, cfg.gate)) < cfg.max + Cardinality(workers) * cfg.gate

LEMMA RowCount ==
  ASSUME NEW i, NEW n \in Nat
  PROVE  IsFiniteSet({i} \X (1..n)) /\ Cardinality({i} \X (1..n)) = n
<1>1. IsFiniteSet({i}) /\ Cardinality({i}) = 1
  BY FS_Singleton
<1>2. IsFiniteSet(1..n) /\ Cardinality(1..n) = n
  <2>1. IsFiniteSet(1..n) /\ Cardinality(1..n) = IF 1 > n THEN 0 ELSE n - 1 + 1
    BY FS_Interval
  <2> QED BY <2>1
<1>3. /\ IsFiniteSet({i} \X (1..n))
      /\ Cardinality({i} \X (1..n)) = Cardinality({i}) * Cardinality(1..n)
  BY <1>1, <1>2, FS_Product
<1>4. Cardinality({i} \X (1..n)) = 1 * n
  BY <1>1, <1>2, <1>3
<1> QED BY <1>3, <1>4

LEMMA TokensFinite ==
  ASSUME NEW workers, IsFiniteSet(workers), NEW f \in [workers -> Nat]
  PROVE  IsFiniteSet(Tokens(workers, f)) /\ SumOf(workers, f) \in Nat
<1> DEFINE rows == {{i} \X (1..f[i]) : i \in workers}
           row == [i \in workers |-> {i} \X (1..f[i])]
<1>1. row \in Surjection(workers, rows)
  BY DEF Surjection
<1>2. IsFiniteSet(rows)
  <2> HIDE DEF rows, row
  <2> QED BY <1>1, FS_Surjection
<1>3. \A T \in rows : IsFiniteSet(T)
  <2> SUFFICES ASSUME NEW i \in workers  PROVE IsFiniteSet({i} \X (1..f[i]))
    OBVIOUS
  <2>1. f[i] \in Nat
    OBVIOUS
  <2> QED BY <2>1, RowCount
<1>4. IsFiniteSet(UNION rows)
  <2> HIDE DEF rows
  <2> QED BY <1>2, <1>3, FS_UNION
<1>5. IsFiniteSet(Tokens(workers, f))
  BY <1>4 DEF Tokens
<1> QED BY <1>5, FS_CardinalityType DEF SumOf

LEMMA TokenIn ==
  ASSUME NEW workers, NEW f \in [workers -> Nat], NEW t
  PROVE  t \in Tokens(workers, f) <=> \E i \in workers : \E n \in 1..f[i] : t = <<i, n>>
<1>1. t \in Tokens(workers, f) <=> \E i \in workers : t \in {i} \X (1..f[i])
  BY DEF Tokens
<1>2. \A i \in workers : t \in {i} \X (1..f[i]) <=> \E n \in 1..f[i] : t = <<i, n>>
  OBVIOUS
<1> QED BY <1>1, <1>2

\* One worker's part of a sum.
LEMMA SumSplits ==
  ASSUME NEW workers, IsFiniteSet(workers), NEW f \in [workers -> Nat], NEW i \in workers
  PROVE  SumOf(workers, f) = SumOf(workers, [f EXCEPT ![i] = 0]) + f[i]
<1> DEFINE g == [f EXCEPT ![i] = 0]
           row == {i} \X (1..f[i])
<1>1. g \in [workers -> Nat] /\ g[i] = 0 /\ \A j \in workers : j # i => g[j] = f[j]
  OBVIOUS
<1>2. f[i] \in Nat /\ IsFiniteSet(row) /\ Cardinality(row) = f[i]
  BY RowCount
<1> HIDE DEF g
<1>3. Tokens(workers, f) = Tokens(workers, g) \union row
  <2>1. ASSUME NEW t \in Tokens(workers, f)  PROVE t \in Tokens(workers, g) \union row
    <3>1. PICK j \in workers : \E n \in 1..f[j] : t = <<j, n>>
      BY TokenIn
    <3>2. PICK n \in 1..f[j] : t = <<j, n>>
      BY <3>1
    <3>3. CASE j = i
      BY <3>2, <3>3
    <3>4. CASE j # i
      <4>1. n \in 1..g[j]
        BY <1>1, <3>4
      <4> QED BY <1>1, <3>2, <4>1, TokenIn
    <3> QED BY <3>3, <3>4
  <2>2. ASSUME NEW t \in Tokens(workers, g)  PROVE t \in Tokens(workers, f)
    <3>1. PICK j \in workers : \E n \in 1..g[j] : t = <<j, n>>
      BY <1>1, TokenIn
    <3>2. PICK n \in 1..g[j] : t = <<j, n>>
      BY <3>1
    <3>3. n \in 1..f[j]
      BY <1>1, <3>2
    <3> QED BY <3>2, <3>3, TokenIn
  <2>3. ASSUME NEW t \in row  PROVE t \in Tokens(workers, f)
    <3>1. PICK n \in 1..f[i] : t = <<i, n>>
      OBVIOUS
    <3> QED BY <3>1, TokenIn
  <2> HIDE DEF row
  <2> QED BY <2>1, <2>2, <2>3
<1>4. Tokens(workers, g) \intersect row = {}
  <2> SUFFICES ASSUME NEW t \in Tokens(workers, g), t \in row  PROVE FALSE
    OBVIOUS
  <2>1. PICK j \in workers : \E n \in 1..g[j] : t = <<j, n>>
    BY <1>1, TokenIn
  <2>2. PICK n \in 1..g[j] : t = <<j, n>>
    BY <2>1
  <2>3. j = i
    BY <2>2
  <2> QED BY <1>1, <2>2, <2>3
<1> HIDE DEF row
<1>5. IsFiniteSet(Tokens(workers, g)) /\ SumOf(workers, g) \in Nat
  BY <1>1, TokensFinite
<1>6. Cardinality(Tokens(workers, g) \union row)
        = Cardinality(Tokens(workers, g)) + Cardinality(row)
            - Cardinality(Tokens(workers, g) \intersect row)
  BY <1>2, <1>5, FS_Union
<1>7. Cardinality(Tokens(workers, g) \intersect row) = 0
  BY <1>4, FS_EmptySet
<1> QED BY <1>2, <1>3, <1>5, <1>6, <1>7 DEF SumOf, g

\* Two families that differ in one worker at most.
LEMMA SumParts ==
  ASSUME NEW workers, IsFiniteSet(workers), NEW f \in [workers -> Nat],
         NEW g \in [workers -> Nat], NEW i \in workers,
         \A j \in workers : j # i => g[j] = f[j]
  PROVE  \E rest \in [workers -> Nat] :
           /\ SumOf(workers, f) = SumOf(workers, rest) + f[i]
           /\ SumOf(workers, g) = SumOf(workers, rest) + g[i]
<1> DEFINE rest == [f EXCEPT ![i] = 0]
<1>1. rest = [g EXCEPT ![i] = 0] /\ rest \in [workers -> Nat]
  OBVIOUS
<1>2. SumOf(workers, f) = SumOf(workers, rest) + f[i]
  BY SumSplits
<1> HIDE DEF rest
<1>3. SumOf(workers, g) = SumOf(workers, rest) + g[i]
  BY ZenonT(30), <1>1, SumSplits
<1> QED BY <1>1, <1>2, <1>3

LEMMA SumBounded ==
  ASSUME NEW workers, IsFiniteSet(workers), NEW n \in Nat, NEW f \in [workers -> 0..n]
  PROVE  SumOf(workers, f) <= Cardinality(workers) * n
<1>1. f \in [workers -> Nat]
  OBVIOUS
<1>2. Tokens(workers, f) \subseteq workers \X (1..n)
  <2> SUFFICES ASSUME NEW t \in Tokens(workers, f)  PROVE t \in workers \X (1..n)
    OBVIOUS
  <2>1. PICK i \in workers : \E k \in 1..f[i] : t = <<i, k>>
    BY <1>1, TokenIn
  <2>2. f[i] \in 0..n
    OBVIOUS
  <2> QED BY <2>1, <2>2
<1>3. IsFiniteSet(1..n) /\ Cardinality(1..n) = n
  <2>1. IsFiniteSet(1..n) /\ Cardinality(1..n) = IF 1 > n THEN 0 ELSE n - 1 + 1
    BY FS_Interval
  <2> QED BY <2>1
<1>4. /\ IsFiniteSet(workers \X (1..n))
      /\ Cardinality(workers \X (1..n)) = Cardinality(workers) * Cardinality(1..n)
  BY <1>3, FS_Product
<1>5. Cardinality(Tokens(workers, f)) <= Cardinality(workers \X (1..n))
  BY <1>2, <1>4, FS_Subset
<1> QED BY <1>3, <1>4, <1>5 DEF SumOf

LEMMA SumOfZeros ==
  ASSUME NEW workers, NEW f \in [workers -> Nat], \A i \in workers : f[i] = 0
  PROVE  SumOf(workers, f) = 0
<1>1. Tokens(workers, f) = {}
  <2> SUFFICES ASSUME NEW t \in Tokens(workers, f)  PROVE FALSE
    OBVIOUS
  <2>1. PICK i \in workers : \E n \in 1..f[i] : t = <<i, n>>
    BY TokenIn
  <2> QED BY <2>1
<1> QED BY <1>1, FS_EmptySet DEF SumOf

\* A project in which worker i has become r.
With(p, i, r, ledger, spent) ==
  [ledger |-> ledger, spent |-> spent, w |-> [p.w EXCEPT ![i] = r]]

LastOf(r) == IF r.at = "stage" THEN r.last ELSE 0
OwnOf(r) == IF r.at = "stage" THEN r.own ELSE 0
HeldOf(r, gate) == IF r.at # "stage" THEN 0 ELSE IF r.own = 0 THEN gate ELSE r.own

LEMMA WithWorker ==
  ASSUME NEW workers, NEW p \in ProjectState(workers), NEW i \in workers, NEW r \in WorkerState,
         NEW ledger \in Nat, NEW spent \in Nat, NEW q, q = With(p, i, r, ledger, spent)
  PROVE  /\ q \in ProjectState(workers)
         /\ q.ledger = ledger /\ q.spent = spent /\ q.w[i] = r
         /\ \A j \in workers : j # i => q.w[j] = p.w[j]
<1>1. p.w \in [workers -> WorkerState]
  BY DEF ProjectState
<1>2. q.ledger = ledger /\ q.spent = spent /\ q.w = [p.w EXCEPT ![i] = r]
  BY DEF With
<1>3. q \in ProjectState(workers)
  BY <1>1 DEF With, ProjectState
<1> QED BY <1>1, <1>2, <1>3

\* What a step makes of a worker, and of the tokens.
Moves(p, i, r, ledger, spent, cfg) ==
  LET was == p.w[i] IN
  \/ /\ was.at = "idle" /\ r.at = "stopped"                             \* the gate refuses
     /\ r.own = was.own /\ r.last = was.last
     /\ ledger = p.ledger /\ spent = p.spent
  \/ /\ was.at = "idle" /\ r.at = "stage" /\ r.own = 0 /\ r.last = 0    \* it starts
     /\ r.base < cfg.max /\ (cfg.ledgered => p.ledger < cfg.max)
     /\ ledger = p.ledger /\ spent = p.spent
  \/ \E c \in Costs(cfg) :                                              \* it calls
       /\ was.at = "stage" /\ r.at = "stage" /\ was.base + was.own < cfg.max
       /\ was.own = 0 \/ cfg.iterative
       /\ r.base = was.base /\ r.own = was.own + c[1] /\ r.last = c[2]
       /\ ledger = p.ledger /\ spent = p.spent + c[1]
  \/ /\ was.at = "stage" /\ r.at = "idle" /\ r.own = 0 /\ r.last = 0    \* it ends
     /\ ledger = (IF cfg.ledgered THEN p.ledger + was.last ELSE p.ledger) /\ spent = p.spent
  \/ /\ was.at = "stage" /\ r.at = "stopped" /\ cfg.failing             \* it throws
     /\ r.own = was.own /\ r.last = was.last
     /\ ledger = p.ledger /\ spent = p.spent

Worker(at, base, own, last, over) ==
  [at |-> at, base |-> base, own |-> own, last |-> last, over |-> over]

LEMMA WorkerType ==
  ASSUME NEW at \in {"idle", "stage", "stopped"}, NEW base \in Nat, NEW own \in Nat,
         NEW last \in Nat, NEW over \in BOOLEAN
  PROVE  Worker(at, base, own, last, over) \in WorkerState
BY DEF Worker, WorkerState

LEMMA WorkerIs ==
  ASSUME NEW r \in WorkerState
  PROVE  r = Worker(r.at, r.base, r.own, r.last, r.over)
BY DEF Worker, WorkerState

LEMMA WithAt ==
  ASSUME NEW at, NEW base, NEW own, NEW last, NEW over, NEW x
  PROVE  [Worker(at, base, own, last, over) EXCEPT !.at = x] = Worker(x, base, own, last, over)
BY DEF Worker

LEMMA WithBase ==
  ASSUME NEW at, NEW base, NEW own, NEW last, NEW over, NEW x
  PROVE  [Worker(at, base, own, last, over) EXCEPT !.base = x] = Worker(at, x, own, last, over)
BY DEF Worker

LEMMA WithOwn ==
  ASSUME NEW at, NEW base, NEW own, NEW last, NEW over, NEW x
  PROVE  [Worker(at, base, own, last, over) EXCEPT !.own = x] = Worker(at, base, x, last, over)
BY DEF Worker

LEMMA WithLast ==
  ASSUME NEW at, NEW base, NEW own, NEW last, NEW over, NEW x
  PROVE  [Worker(at, base, own, last, over) EXCEPT !.last = x] = Worker(at, base, own, x, over)
BY DEF Worker

LEMMA WithOver ==
  ASSUME NEW at, NEW base, NEW own, NEW last, NEW over, NEW x
  PROVE  [Worker(at, base, own, last, over) EXCEPT !.over = x] = Worker(at, base, own, last, x)
BY DEF Worker

LEMMA StartedIs ==
  ASSUME NEW known, NEW no, no = FALSE
  PROVE  [NewWorker EXCEPT !.at = "stage", !.base = known] = Worker("stage", known, 0, 0, no)
<1> DEFINE r == NewWorker
           s == Worker("stage", 0, 0, 0, no)
<1>1. r = Worker("idle", 0, 0, 0, no)
  BY DEF NewWorker, Worker
<1> HIDE DEF r
<1>2. [r EXCEPT !.at = "stage"] = s
  BY <1>1, WithAt
<1>3. [s EXCEPT !.base = known] = Worker("stage", known, 0, 0, no)
  BY WithBase
<1> HIDE DEF s
<1>4. [r EXCEPT !.at = "stage", !.base = known] = [[r EXCEPT !.at = "stage"] EXCEPT !.base = known]
  OBVIOUS
<1> QED BY <1>2, <1>3, <1>4 DEF r

\* A project in which one field of worker i is another.
LEMMA WorkerSet ==
  ASSUME NEW ledger, NEW spent, NEW w, NEW i, NEW r
  PROVE  [[ledger |-> ledger, spent |-> spent, w |-> w] EXCEPT !.w[i] = r]
           = [ledger |-> ledger, spent |-> spent, w |-> [w EXCEPT ![i] = r]]
OBVIOUS

LEMMA ProjectIs ==
  ASSUME NEW workers, NEW p \in ProjectState(workers)
  PROVE  /\ p = [ledger |-> p.ledger, spent |-> p.spent, w |-> p.w]
         /\ p.w \in [workers -> WorkerState]
BY DEF ProjectState

LEMMA CallsAre ==
  ASSUME NEW workers, NEW p \in ProjectState(workers), NEW i \in workers, NEW c1 \in Nat,
         NEW c2 \in Nat
  PROVE  Calls(p, i, c1, c2)
           = With(p, i, Worker(p.w[i].at, p.w[i].base, p.w[i].own + c1, c2, p.w[i].over),
                  p.ledger, p.spent + c1)
<1> DEFINE was == p.w[i]
           spent == p.spent + c1
           own == was.own + c1
           more == [p EXCEPT !.spent = spent]
           called == [more EXCEPT !.w[i].own = own]
           r1 == Worker(was.at, was.base, own, was.last, was.over)
           r2 == Worker(was.at, was.base, own, c2, was.over)
<1>1. /\ p = [ledger |-> p.ledger, spent |-> p.spent, w |-> p.w]
      /\ p.w \in [workers -> WorkerState] /\ was \in WorkerState
  BY ProjectIs
<1>2. was = Worker(was.at, was.base, was.own, was.last, was.over)
  BY <1>1, WorkerIs
<1>3. [was EXCEPT !.own = own] = r1
  <2> HIDE DEF was, own
  <2> QED BY <1>2, WithOwn
<1>4. [r1 EXCEPT !.last = c2] = r2
  BY WithLast
<1>5. Calls(p, i, c1, c2) = [p EXCEPT !.spent = spent, !.w[i].own = own, !.w[i].last = c2]
  BY DEF Calls
<1> HIDE DEF spent, own
<1>6. [p EXCEPT !.spent = spent, !.w[i].own = own, !.w[i].last = c2]
        = [called EXCEPT !.w[i].last = c2]
  OBVIOUS
<1> HIDE DEF r1, r2
<1>7. more = [ledger |-> p.ledger, spent |-> spent, w |-> p.w]
  BY <1>1
<1>8. called = [ledger |-> p.ledger, spent |-> spent, w |-> [p.w EXCEPT ![i] = r1]]
  <2> HIDE DEF more
  <2> QED BY <1>1, <1>3, <1>7
<1>9. [called EXCEPT !.w[i].last = c2]
        = [ledger |-> p.ledger, spent |-> spent, w |-> [p.w EXCEPT ![i] = r2]]
  <2> DEFINE w == [p.w EXCEPT ![i] = r1]
  <2>1. w[i] = r1 /\ [w EXCEPT ![i] = r2] = [p.w EXCEPT ![i] = r2]
    BY <1>1
  <2> HIDE DEF w, called
  <2>2. [called EXCEPT !.w[i].last = c2]
          = [ledger |-> p.ledger, spent |-> spent,
             w |-> [w EXCEPT ![i] = [w[i] EXCEPT !.last = c2]]]
    BY <1>8 DEF w
  <2> QED BY <1>4, <2>1, <2>2
<1> QED BY <1>5, <1>6, <1>9 DEF With, spent, own, r2

LEMMA GateIs ==
  ASSUME NEW workers, NEW p \in ProjectState(workers), NEW i \in workers, NEW max
  PROVE  LoopGate(p, i, max)
           = With(p, i, Worker(p.w[i].at, p.w[i].base, p.w[i].own, p.w[i].last,
                               overWith(p, i, max)), p.ledger, p.spent)
<1> DEFINE was == p.w[i]
           over == overWith(p, i, max)
<1>1. /\ p = [ledger |-> p.ledger, spent |-> p.spent, w |-> p.w]
      /\ p.w \in [workers -> WorkerState] /\ was \in WorkerState
  BY ProjectIs
<1>2. LoopGate(p, i, max) = [p EXCEPT !.w[i].over = over]
  BY DEF LoopGate
<1> HIDE DEF over
<1>3. [p EXCEPT !.w[i].over = over]
        = [ledger |-> p.ledger, spent |-> p.spent,
           w |-> [p.w EXCEPT ![i] = [was EXCEPT !.over = over]]]
  BY <1>1
<1>4. [was EXCEPT !.over = over] = Worker(was.at, was.base, was.own, was.last, over)
  BY <1>1, WorkerIs, WithOver
<1> QED BY <1>2, <1>3, <1>4 DEF With, over

LEMMA AtIs ==
  ASSUME NEW workers, NEW p \in ProjectState(workers), NEW i \in workers, NEW at
  PROVE  [p EXCEPT !.w[i].at = at]
           = With(p, i, Worker(at, p.w[i].base, p.w[i].own, p.w[i].last, p.w[i].over),
                  p.ledger, p.spent)
<1> DEFINE was == p.w[i]
<1>1. /\ p = [ledger |-> p.ledger, spent |-> p.spent, w |-> p.w]
      /\ p.w \in [workers -> WorkerState] /\ was \in WorkerState
  BY ProjectIs
<1>2. [p EXCEPT !.w[i].at = at]
        = [ledger |-> p.ledger, spent |-> p.spent,
           w |-> [p.w EXCEPT ![i] = [was EXCEPT !.at = at]]]
  BY <1>1
<1>3. [was EXCEPT !.at = at] = Worker(at, was.base, was.own, was.last, was.over)
  BY <1>1, WorkerIs, WithAt
<1> QED BY <1>2, <1>3 DEF With

LEMMA WithTwice ==
  ASSUME NEW workers, NEW p \in ProjectState(workers), NEW i \in workers, NEW g, NEW r,
         NEW ledger, NEW spent, NEW l, NEW s
  PROVE  With(With(p, i, g, ledger, spent), i, r, l, s) = With(p, i, r, l, s)
<1>1. p.w \in [workers -> WorkerState]
  BY DEF ProjectState
<1>2. [[p.w EXCEPT ![i] = g] EXCEPT ![i] = r] = [p.w EXCEPT ![i] = r]
  BY <1>1
<1>3. With(p, i, g, ledger, spent).w = [p.w EXCEPT ![i] = g]
  BY DEF With
<1> QED BY <1>2, <1>3 DEF With

LEMMA StepsAreMoves ==
  ASSUME NEW workers, NEW cfg \in Projects, project \in ProjectState(workers),
         WorkersStop(project, cfg), NEW i \in workers,
         StageStarts(i, cfg) \/ FirstCalls(i, cfg) \/ MoreCalls(i, cfg) \/ StageEnds(i, cfg)
  PROVE  \E r \in WorkerState, ledger \in Nat, spent \in Nat :
           /\ project' = With(project, i, r, ledger, spent)
           /\ Moves(project, i, r, ledger, spent, cfg)
<1> DEFINE was == project.w[i]
           stopped == Worker("stopped", was.base, was.own, was.last, was.over)
<1>1. /\ project = [ledger |-> project.ledger, spent |-> project.spent, w |-> project.w]
      /\ project.ledger \in Nat /\ project.spent \in Nat
      /\ project.w \in [workers -> WorkerState] /\ was \in WorkerState /\ i \in DOMAIN project.w
  BY DEF ProjectState
<1>2. /\ was.at \in {"idle", "stage", "stopped"} /\ was.base \in Nat /\ was.own \in Nat
      /\ was.last \in Nat /\ was.over \in BOOLEAN
  BY <1>1 DEF WorkerState
<1>3. was.at = "stage" /\ was.own = 0 => was.base < cfg.max
  BY <1>1 DEF WorkersStop, InStage
<1>4. cfg.max \in Nat \ {0} /\ cfg.gate \in Nat \ {0}
  BY DEF Projects
<1>5. \A c \in Costs(cfg) : c[1] \in Nat /\ c[2] \in Nat
  BY <1>4 DEF Costs
<1>6. /\ stopped \in WorkerState /\ stopped.at = "stopped"
      /\ stopped.own = was.own /\ stopped.last = was.last
      /\ [project EXCEPT !.w[i].at = "stopped"]
           = With(project, i, stopped, project.ledger, project.spent)
  BY <1>2, WorkerType, AtIs DEF Worker
<1> HIDE DEF stopped
<1>7. CASE StageStarts(i, cfg)
  <2> DEFINE known == IF cfg.ledgered THEN project.ledger ELSE 0
             r == Worker("stage", known, 0, 0, FALSE)
  <2>1. known \in Nat /\ was.at = "idle"
    BY <1>1, <1>7 DEF StageStarts
  <2>2. CASE Exceeds(known, cfg.max)
    <3>1. project' = With(project, i, stopped, project.ledger, project.spent)
      BY <1>6, <1>7, <2>2 DEF StageStarts, StartStage
    <3>2. Moves(project, i, stopped, project.ledger, project.spent, cfg)
      BY <1>6, <2>1 DEF Moves
    <3> QED BY <1>1, <1>6, <3>1, <3>2
  <2>3. CASE ~ Exceeds(known, cfg.max)
    <3>1. /\ known < cfg.max /\ (cfg.ledgered => project.ledger < cfg.max)
      BY <1>1, <1>4, <2>1, <2>3 DEF Exceeds
    <3>2. project' = [project EXCEPT !.w[i] = [NewWorker EXCEPT !.at = "stage", !.base = known]]
      BY <1>7, <2>3 DEF StageStarts, StartStage
    <3> HIDE DEF known
    <3>3. r \in WorkerState /\ r.at = "stage" /\ r.base = known /\ r.own = 0 /\ r.last = 0
      BY <2>1, WorkerType DEF Worker
    <3>4. r = [NewWorker EXCEPT !.at = "stage", !.base = known]
      BY StartedIs
    <3> HIDE DEF r
    <3>5. [project EXCEPT !.w[i] = r] = With(project, i, r, project.ledger, project.spent)
      BY <1>1 DEF With
    <3>6. Moves(project, i, r, project.ledger, project.spent, cfg)
      BY <2>1, <3>1, <3>3 DEF Moves
    <3> QED BY <1>1, <3>2, <3>3, <3>4, <3>5, <3>6
  <2> QED BY <2>2, <2>3
<1>8. ASSUME NEW c \in Costs(cfg), NEW over \in BOOLEAN, was.at = "stage",
             was.base + was.own < cfg.max, was.own = 0 \/ cfg.iterative,
             project' = With(project, i, Worker("stage", was.base, was.own + c[1], c[2], over),
                             project.ledger, project.spent + c[1])
      PROVE  \E r \in WorkerState, ledger \in Nat, spent \in Nat :
               /\ project' = With(project, i, r, ledger, spent)
               /\ Moves(project, i, r, ledger, spent, cfg)
  <2> DEFINE own == was.own + c[1]
             r == Worker("stage", was.base, own, c[2], over)
  <2>1. own \in Nat /\ project.spent + c[1] \in Nat /\ c[2] \in Nat
    BY <1>1, <1>2, <1>5
  <2>2. own = was.own + c[1]
    OBVIOUS
  <2>3. project' = With(project, i, r, project.ledger, project.spent + c[1])
    BY <1>8
  <2> HIDE DEF own
  <2>4. r \in WorkerState /\ r.at = "stage" /\ r.base = was.base /\ r.own = own /\ r.last = c[2]
    BY <1>2, <2>1, WorkerType DEF Worker
  <2> HIDE DEF r
  <2>5. Moves(project, i, r, project.ledger, project.spent + c[1], cfg)
    BY <1>8, <2>2, <2>4 DEF Moves
  <2> QED BY <1>1, <2>1, <2>3, <2>4, <2>5
<1>9. CASE FirstCalls(i, cfg)
  <2>1. PICK c \in Costs(cfg) : project' = Calls(project, i, c[1], c[2])
    BY <1>9 DEF FirstCalls
  <2>2. was.at = "stage" /\ was.own = 0 /\ was.base + was.own < cfg.max
    BY <1>2, <1>3, <1>9 DEF FirstCalls
  <2>3. Calls(project, i, c[1], c[2])
          = With(project, i, Worker(was.at, was.base, was.own + c[1], c[2], was.over),
                 project.ledger, project.spent + c[1])
    BY <1>5, CallsAre
  <2> QED BY <1>2, <1>8, <2>1, <2>2, <2>3
<1>10. CASE MoreCalls(i, cfg)
  <2> DEFINE asked == LoopGate(project, i, cfg.max)
             over == overWith(project, i, cfg.max)
             g == Worker(was.at, was.base, was.own, was.last, over)
  <2>1. /\ was.at = "stage" /\ cfg.iterative /\ ~ asked.w[i].over
        /\ \E c \in Costs(cfg) : project' = Calls(asked, i, c[1], c[2])
    BY <1>10 DEF MoreCalls
  <2>2. asked = With(project, i, g, project.ledger, project.spent)
    BY GateIs
  <2>3. over \in BOOLEAN
    BY DEF overWith, Exceeds
  <2>4. over <=> was.base + was.own >= cfg.max
    BY <1>4 DEF overWith, Exceeds
  <2> HIDE DEF asked, over
  <2>5. /\ g \in WorkerState /\ g.at = was.at /\ g.base = was.base /\ g.own = was.own
        /\ g.over = over
    BY <1>2, <2>3, WorkerType DEF Worker
  <2> HIDE DEF g
  <2>6. asked \in ProjectState(workers) /\ asked.w[i] = g
        /\ asked.ledger = project.ledger /\ asked.spent = project.spent
    BY <1>1, <2>2, <2>5 DEF With, ProjectState
  <2>7. was.base + was.own < cfg.max
    BY <1>2, <1>4, <2>1, <2>4, <2>5, <2>6
  <2>8. PICK c \in Costs(cfg) : project' = Calls(asked, i, c[1], c[2])
    BY <2>1
  <2> DEFINE r == Worker("stage", was.base, was.own + c[1], c[2], over)
  <2>9. Calls(asked, i, c[1], c[2])
          = With(asked, i, r, project.ledger, project.spent + c[1])
    BY <1>5, <2>1, <2>5, <2>6, CallsAre
  <2> HIDE DEF r
  <2>10. With(asked, i, r, project.ledger, project.spent + c[1])
           = With(project, i, r, project.ledger, project.spent + c[1])
    BY <2>2, WithTwice
  <2> QED BY <1>8, <2>1, <2>3, <2>7, <2>8, <2>9, <2>10 DEF r
<1>11. CASE StageEnds(i, cfg)
  <2>0. was.at = "stage"
    BY <1>11 DEF StageEnds
  <2>1. CASE project' = EndStage(project, i, cfg.ledgered)
    <3> DEFINE r == NewWorker
               l == IF cfg.ledgered THEN project.ledger + was.last ELSE project.ledger
    <3>1. r \in WorkerState /\ l \in Nat
      BY <1>1, <1>2 DEF WorkerState, NewWorker
    <3>2. r.own = 0 /\ r.last = 0 /\ r.at = "idle"
      BY DEF NewWorker
    <3>3. project' = [project EXCEPT !.ledger = l, !.w[i] = r]
      BY <1>1, <2>1 DEF EndStage
    <3>4. Moves(project, i, r, l, project.spent, cfg)
      BY <2>0, <3>2 DEF Moves
    <3> HIDE DEF r, l
    <3>5. project' = With(project, i, r, l, project.spent)
      BY <1>1, <3>3 DEF With
    <3> QED BY <1>1, <3>1, <3>4, <3>5
  <2>2. CASE cfg.failing /\ project' = FailStage(project, i)
    <3>1. project' = With(project, i, stopped, project.ledger, project.spent)
      BY <1>6, <2>2 DEF FailStage
    <3>2. Moves(project, i, stopped, project.ledger, project.spent, cfg)
      BY <1>6, <2>0, <2>2 DEF Moves
    <3> QED BY <1>1, <1>6, <3>1, <3>2
  <2> QED BY <1>11, <2>1, <2>2 DEF StageEnds
<1> QED BY <1>7, <1>9, <1>10, <1>11

LEMMA SumMonotone ==
  ASSUME NEW workers, IsFiniteSet(workers), NEW f \in [workers -> Nat], NEW g \in [workers -> Nat],
         \A i \in workers : f[i] <= g[i]
  PROVE  SumOf(workers, f) <= SumOf(workers, g)
<1>1. Tokens(workers, f) \subseteq Tokens(workers, g)
  <2> SUFFICES ASSUME NEW t \in Tokens(workers, f)  PROVE t \in Tokens(workers, g)
    OBVIOUS
  <2>1. PICK i \in workers : \E n \in 1..f[i] : t = <<i, n>>
    BY TokenIn
  <2>2. f[i] \in Nat /\ g[i] \in Nat /\ f[i] <= g[i]
    OBVIOUS
  <2>3. \E n \in 1..g[i] : t = <<i, n>>
    BY <2>1, <2>2
  <2> QED BY <2>3, TokenIn
<1> QED BY <1>1, TokensFinite, FS_Subset DEF SumOf

\* The three families of a project, and what of them a worker's step changes.
LEMMA Families ==
  ASSUME NEW workers, NEW p \in ProjectState(workers), NEW gate \in Nat
  PROVE  /\ Lasts(p) \in [workers -> Nat] /\ Owns(p) \in [workers -> Nat]
         /\ Held(p, gate) \in [workers -> Nat]
         /\ \A i \in workers : /\ Lasts(p)[i] = LastOf(p.w[i]) /\ Owns(p)[i] = OwnOf(p.w[i])
                               /\ Held(p, gate)[i] = HeldOf(p.w[i], gate)
<1>1. DOMAIN p.w = workers /\ \A i \in workers : p.w[i].last \in Nat /\ p.w[i].own \in Nat
  BY DEF ProjectState, WorkerState
<1> QED BY <1>1 DEF Lasts, Owns, Held, InStage, LastOf, OwnOf, HeldOf

LEMMA ProjectStarts ==
  ASSUME NEW workers, IsFiniteSet(workers), NEW cfg \in Projects
  PROVE  /\ ProjectInv(workers, NewProject(workers), cfg)
         /\ SingleInv(workers, NewProject(workers), cfg)
<1> DEFINE p == NewProject(workers)
           most == Cardinality(workers) * cfg.gate
<1>1. cfg.max \in Nat \ {0} /\ cfg.gate \in Nat
  BY DEF Projects
<1>2. /\ p.ledger = 0 /\ p.spent = 0 /\ p.w = [i \in workers |-> NewWorker]
      /\ p = [ledger |-> 0, spent |-> 0, w |-> [i \in workers |-> NewWorker]]
  BY DEF NewProject
<1>3. NewWorker \in WorkerState /\ NewWorker.at = "idle" /\ NewWorker.own = 0 /\ NewWorker.last = 0
  BY DEF NewWorker, WorkerState
<1> HIDE DEF p
<1>4. p \in ProjectState(workers) /\ DOMAIN p.w = workers /\ \A i \in workers : p.w[i] = NewWorker
  BY <1>2, <1>3 DEF ProjectState
<1>5. /\ Lasts(p) \in [workers -> Nat] /\ \A i \in workers : Lasts(p)[i] = 0
      /\ Owns(p) \in [workers -> Nat] /\ \A i \in workers : Owns(p)[i] = 0
      /\ Held(p, cfg.gate) \in [workers -> Nat] /\ \A i \in workers : Held(p, cfg.gate)[i] = 0
  BY <1>3, <1>4 DEF Lasts, Owns, Held, InStage
<1>6. /\ SumOf(workers, Lasts(p)) = 0 /\ SumOf(workers, Owns(p)) = 0
      /\ SumOf(workers, Held(p, cfg.gate)) = 0
  BY <1>5, SumOfZeros
<1>7. WorkersStop(p, cfg)
  BY <1>3, <1>4 DEF WorkersStop, InStage
<1>8. most \in Nat
  BY <1>1, FS_CardinalityType
<1> HIDE DEF most
<1>9. p.ledger + SumOf(workers, Held(p, cfg.gate)) < cfg.max + most
  BY <1>1, <1>2, <1>6, <1>8
<1>10. ProjectInv(workers, p, cfg)
  BY <1>2, <1>4, <1>6, <1>7 DEF ProjectInv
<1>11. SingleInv(workers, p, cfg)
  BY <1>1, <1>2, <1>3, <1>4, <1>6, <1>9 DEF SingleInv, most
<1> QED BY <1>10, <1>11 DEF p

\* A worker's step keeps the sum of the last calls and the ledger below what was spent.
LEMMA MovesKeepProject ==
  ASSUME NEW workers, IsFiniteSet(workers), NEW cfg \in Projects, NEW p, ProjectInv(workers, p, cfg),
         NEW i \in workers, NEW r \in WorkerState, NEW ledger \in Nat, NEW spent \in Nat,
         Moves(p, i, r, ledger, spent, cfg)
  PROVE  ProjectInv(workers, With(p, i, r, ledger, spent), cfg)
<1> DEFINE was == p.w[i]
           q == With(p, i, r, ledger, spent)
           sum == SumOf(workers, Lasts(p))
           sum2 == SumOf(workers, Lasts(q))
<1>1. /\ p \in ProjectState(workers) /\ WorkersStop(p, cfg) /\ p.ledger + sum <= p.spent
      /\ cfg.max \in Nat \ {0} /\ cfg.gate \in Nat \ {0}
  BY DEF ProjectInv, Projects
<1>2. /\ p.ledger \in Nat /\ p.spent \in Nat /\ was \in WorkerState /\ DOMAIN p.w = workers
  BY <1>1 DEF ProjectState
<1>3. /\ was.base \in Nat /\ was.own \in Nat /\ was.last \in Nat
      /\ r.base \in Nat /\ r.own \in Nat /\ r.last \in Nat
  BY <1>2 DEF WorkerState
<1>4. /\ q \in ProjectState(workers) /\ q.ledger = ledger /\ q.spent = spent /\ q.w[i] = r
      /\ \A j \in workers : j # i => q.w[j] = p.w[j]
  BY <1>1, WithWorker
<1> HIDE DEF q
<1>5. DOMAIN q.w = workers
  BY <1>4 DEF ProjectState
<1>6. LastOf(was) \in Nat /\ LastOf(r) \in Nat
  BY <1>3 DEF LastOf
<1>7. \E n \in Nat : sum = n + LastOf(was) /\ sum2 = n + LastOf(r)
  <2> DEFINE f == Lasts(p)
             g == Lasts(q)
  <2>1. /\ f \in [workers -> Nat] /\ g \in [workers -> Nat]
        /\ f[i] = LastOf(p.w[i]) /\ g[i] = LastOf(q.w[i])
        /\ \A j \in workers : j # i => g[j] = f[j]
    BY SMTT(30), <1>1, <1>4, Families
  <2> HIDE DEF f, g
  <2>2. PICK rest \in [workers -> Nat] :
          /\ SumOf(workers, f) = SumOf(workers, rest) + f[i]
          /\ SumOf(workers, g) = SumOf(workers, rest) + g[i]
    BY <2>1, SumParts
  <2>3. SumOf(workers, rest) \in Nat
    BY TokensFinite
  <2> QED BY <1>4, <2>1, <2>2, <2>3 DEF f, g
<1> HIDE DEF sum, sum2
<1>8. /\ was.last <= was.own
      /\ was.at = "stage" /\ was.own = 0 => was.base < cfg.max
  BY <1>1, <1>2 DEF WorkersStop, InStage
<1>9. \A c \in Costs(cfg) : c[1] \in 1..cfg.gate /\ c[2] \in 1..cfg.gate /\ c[2] <= c[1]
  BY DEF Costs
<1>10. /\ r.last <= r.own
       /\ r.at = "stage" => r.base + r.own < cfg.max + cfg.gate
       /\ r.at = "stage" /\ r.own = 0 => r.base < cfg.max
       /\ ledger + sum2 <= spent
  <2>1. CASE was.at = "idle" /\ r.at = "stopped" /\ r.own = was.own /\ r.last = was.last
             /\ ledger = p.ledger /\ spent = p.spent
    BY <1>1, <1>2, <1>3, <1>6, <1>7, <1>8, <2>1 DEF LastOf
  <2>2. CASE /\ was.at = "idle" /\ r.at = "stage" /\ r.own = 0 /\ r.last = 0 /\ r.base < cfg.max
             /\ ledger = p.ledger /\ spent = p.spent
    BY <1>1, <1>2, <1>3, <1>6, <1>7, <2>2 DEF LastOf
  <2>3. ASSUME NEW c \in Costs(cfg), was.at = "stage", r.at = "stage",
               was.base + was.own < cfg.max, r.base = was.base, r.own = was.own + c[1],
               r.last = c[2], ledger = p.ledger, spent = p.spent + c[1]
        PROVE  /\ r.last <= r.own
               /\ r.base + r.own < cfg.max + cfg.gate
               /\ r.own # 0
               /\ ledger + sum2 <= spent
    <3>1. /\ c[1] \in Nat /\ c[2] \in Nat /\ c[1] > 0 /\ c[1] <= cfg.gate /\ c[2] <= c[1]
      BY <1>1, <1>9
    <3>2. LastOf(was) = was.last /\ LastOf(r) = c[2]
      BY <2>3 DEF LastOf
    <3> QED BY <1>1, <1>2, <1>3, <1>6, <1>7, <1>8, <2>3, <3>1, <3>2
  <2>4. CASE /\ was.at = "stage" /\ r.at = "idle" /\ r.own = 0 /\ r.last = 0
             /\ ledger = (IF cfg.ledgered THEN p.ledger + was.last ELSE p.ledger)
             /\ spent = p.spent
    BY <1>1, <1>2, <1>3, <1>6, <1>7, <2>4 DEF LastOf
  <2>5. CASE was.at = "stage" /\ r.at = "stopped" /\ r.own = was.own /\ r.last = was.last
             /\ ledger = p.ledger /\ spent = p.spent
    BY <1>1, <1>2, <1>3, <1>6, <1>7, <1>8, <2>5 DEF LastOf
  <2> QED BY <2>1, <2>2, <2>3, <2>4, <2>5 DEF Moves
<1>11. WorkersStop(q, cfg)
  <2> SUFFICES ASSUME NEW j \in workers
               PROVE  /\ q.w[j].last <= q.w[j].own
                      /\ q.w[j].at = "stage" => q.w[j].base + q.w[j].own < cfg.max + cfg.gate
                      /\ q.w[j].at = "stage" /\ q.w[j].own = 0 => q.w[j].base < cfg.max
    BY <1>5 DEF WorkersStop, InStage
  <2>1. CASE j = i
    BY <1>4, <1>10, <2>1
  <2>2. CASE j # i
    BY <1>1, <1>2, <1>4, <2>2 DEF WorkersStop, InStage
  <2> QED BY <2>1, <2>2
<1> QED BY <1>4, <1>10, <1>11 DEF ProjectInv, q, sum2

\* A call of the integration adds to both sides.
LEMMA IntegrationKeepsProject ==
  ASSUME NEW workers, IsFiniteSet(workers), NEW cfg \in Projects, NEW p, ProjectInv(workers, p, cfg),
         NEW tokens \in Nat
  PROVE  ProjectInv(workers, IntegrationCall(p, tokens), cfg)
<1> DEFINE ledger == p.ledger + tokens
           spent == p.spent + tokens
           some == [p EXCEPT !.ledger = ledger]
           q == [ledger |-> ledger, spent |-> spent, w |-> p.w]
<1>1. /\ p \in ProjectState(workers) /\ WorkersStop(p, cfg)
      /\ p.ledger + SumOf(workers, Lasts(p)) <= p.spent
  BY DEF ProjectInv
<1>2. /\ p = [ledger |-> p.ledger, spent |-> p.spent, w |-> p.w]
      /\ p.w \in [workers -> WorkerState]
      /\ p.ledger \in Nat /\ p.spent \in Nat
  BY <1>1 DEF ProjectState
<1>3. ledger \in Nat /\ spent \in Nat
  BY <1>2
<1>4. IntegrationCall(p, tokens) = [p EXCEPT !.ledger = ledger, !.spent = spent]
  BY DEF IntegrationCall
<1>5. SumOf(workers, Lasts(p)) \in Nat
  <2> DEFINE f == Lasts(p)
  <2>1. f \in [workers -> Nat]
    BY <1>1, 0 \in Nat, Families
  <2> HIDE DEF f
  <2>2. SumOf(workers, f) \in Nat
    BY <2>1, TokensFinite
  <2> QED BY <2>2 DEF f
<1>6. ledger + SumOf(workers, Lasts(p)) <= spent
  BY <1>1, <1>2, <1>5
<1> HIDE DEF ledger, spent
<1>7. [p EXCEPT !.ledger = ledger, !.spent = spent] = [some EXCEPT !.spent = spent]
  OBVIOUS
<1>8. some = [ledger |-> ledger, spent |-> p.spent, w |-> p.w]
  BY <1>2
<1>9. [some EXCEPT !.spent = spent] = q
  <2> HIDE DEF some
  <2> QED BY <1>8
<1>10. q \in ProjectState(workers) /\ q.w = p.w /\ q.ledger = ledger /\ q.spent = spent
  BY <1>2, <1>3 DEF ProjectState
<1> HIDE DEF some, q
<1>11. Lasts(q) = Lasts(p) /\ (WorkersStop(q, cfg) <=> WorkersStop(p, cfg))
  BY <1>10 DEF Lasts, WorkersStop, InStage
<1>12. ProjectInv(workers, q, cfg)
  BY <1>1, <1>6, <1>10, <1>11 DEF ProjectInv
<1> QED BY <1>4, <1>7, <1>9, <1>12

LEMMA ProjectStep ==
  ASSUME NEW workers, IsFiniteSet(workers), NEW cfg \in Projects,
         ProjectInv(workers, project, cfg), [ProjectNext(workers, cfg)]_project
  PROVE  ProjectInv(workers, project, cfg)'
<1>1. CASE UNCHANGED project
  BY <1>1 DEF ProjectInv, ProjectState, WorkersStop, InStage, Lasts
<1>2. ASSUME NEW i \in workers,
             StageStarts(i, cfg) \/ FirstCalls(i, cfg) \/ MoreCalls(i, cfg) \/ StageEnds(i, cfg)
      PROVE  ProjectInv(workers, project, cfg)'
  <2>1. PICK r \in WorkerState, ledger \in Nat, spent \in Nat :
          /\ project' = With(project, i, r, ledger, spent)
          /\ Moves(project, i, r, ledger, spent, cfg)
    BY <1>2, StepsAreMoves DEF ProjectInv
  <2>2. ProjectInv(workers, With(project, i, r, ledger, spent), cfg)
    BY <2>1, MovesKeepProject
  <2>3. ProjectInv(workers, project', cfg)
    BY <2>1, <2>2
  <2> QED BY <2>3 DEF ProjectInv, ProjectState, WorkersStop, InStage, Lasts
<1>3. CASE Integrates(cfg)
  <2>1. PICK tokens \in 1..cfg.gate : project' = IntegrationCall(project, tokens)
    BY <1>3 DEF Integrates
  <2>2. tokens \in Nat
    BY DEF Projects
  <2>3. ProjectInv(workers, project', cfg)
    BY <2>1, <2>2, IntegrationKeepsProject
  <2> QED BY <2>3 DEF ProjectInv, ProjectState, WorkersStop, InStage, Lasts
<1> QED BY <1>1, <1>2, <1>3 DEF ProjectNext

\* Whatever its workers, its ceiling and the integration, a project's ledger never claims
\* more tokens than were spent, and a stage that has crossed the ceiling makes no call
\* after its next gate (createBudgetGuard, the gates of runStage and of the fix loops).
THEOREM StagesAlwaysStop ==
  ASSUME NEW workers, IsFiniteSet(workers), NEW cfg \in Projects
  PROVE  ProjectSpec(workers, cfg) => []StagesStop(project, cfg.max, cfg.gate)
<1>1. ProjectInit(workers) => ProjectInv(workers, project, cfg)
  BY ProjectStarts DEF ProjectInit
<1>2. ProjectInv(workers, project, cfg) /\ [ProjectNext(workers, cfg)]_project
        => ProjectInv(workers, project, cfg)'
  BY ProjectStep
<1>3. ProjectInv(workers, project, cfg) => StagesStop(project, cfg.max, cfg.gate)
  <2> SUFFICES ASSUME ProjectInv(workers, project, cfg)
               PROVE  StagesStop(project, cfg.max, cfg.gate)
    OBVIOUS
  <2> DEFINE f == Lasts(project)
             sum == SumOf(workers, f)
  <2>1. /\ project \in ProjectState(workers) /\ WorkersStop(project, cfg)
        /\ project.ledger + sum <= project.spent
    BY DEF ProjectInv
  <2>2. f \in [workers -> Nat]
    BY <2>1, 0 \in Nat, Families
  <2>3. project.ledger \in Nat /\ project.spent \in Nat
    BY <2>1 DEF ProjectState
  <2> HIDE DEF f
  <2>4. sum \in Nat
    BY <2>2, TokensFinite
  <2> HIDE DEF sum
  <2>5. project.ledger <= project.spent
    BY <2>1, <2>3, <2>4
  <2> QED BY <2>1, <2>5 DEF StagesStop, WorkersStop, InStage
<1> QED BY <1>1, <1>2, <1>3, PTL DEF ProjectSpec

\* The configurations of SingleInv.
Single(cfg) == ~ cfg.iterative /\ ~ cfg.failing /\ cfg.ledgered /\ ~ cfg.integrated

\* A worker's step keeps what the workers hold below the ceiling and a call each: a stage
\* starts only with the ledger below the ceiling.
LEMMA MovesKeepSingle ==
  ASSUME NEW workers, IsFiniteSet(workers), NEW cfg \in Projects, Single(cfg),
         NEW p, SingleInv(workers, p, cfg),
         NEW i \in workers, NEW r \in WorkerState, NEW ledger \in Nat, NEW spent \in Nat,
         Moves(p, i, r, ledger, spent, cfg)
  PROVE  SingleInv(workers, With(p, i, r, ledger, spent), cfg)
<1> DEFINE was == p.w[i]
           gate == cfg.gate
           q == With(p, i, r, ledger, spent)
           own == SumOf(workers, Owns(p))
           own2 == SumOf(workers, Owns(q))
           held == SumOf(workers, Held(p, gate))
           held2 == SumOf(workers, Held(q, gate))
           most == Cardinality(workers) * gate
<1>1. /\ p \in ProjectState(workers)
      /\ \A j \in workers : p.w[j].last = p.w[j].own /\ p.w[j].own <= gate
      /\ p.spent = p.ledger + own /\ p.ledger + held < cfg.max + most
      /\ cfg.max \in Nat \ {0} /\ cfg.gate \in Nat \ {0} /\ gate \in Nat /\ gate > 0
      /\ ~ cfg.iterative /\ ~ cfg.failing /\ cfg.ledgered
  BY DEF SingleInv, Projects, Single
<1>2. /\ p.ledger \in Nat /\ p.spent \in Nat /\ was \in WorkerState
  BY <1>1 DEF ProjectState
<1>3. /\ was.own \in Nat /\ was.last \in Nat /\ r.own \in Nat /\ r.last \in Nat
      /\ was.last = was.own /\ was.own <= gate
  BY <1>1, <1>2 DEF WorkerState
<1>4. /\ q \in ProjectState(workers) /\ q.ledger = ledger /\ q.spent = spent /\ q.w[i] = r
      /\ \A j \in workers : j # i => q.w[j] = p.w[j]
  BY <1>1, WithWorker
<1> HIDE DEF q
<1>5. most \in Nat
  BY <1>1, FS_CardinalityType
<1> HIDE DEF gate, most
<1>6. /\ OwnOf(was) \in Nat /\ OwnOf(r) \in Nat
      /\ HeldOf(was, gate) \in Nat /\ HeldOf(r, gate) \in Nat
  BY <1>1, <1>3 DEF OwnOf, HeldOf
<1>7. \E n \in Nat : own = n + OwnOf(was) /\ own2 = n + OwnOf(r)
  <2> DEFINE f == Owns(p)
             g == Owns(q)
  <2>1. /\ f \in [workers -> Nat] /\ g \in [workers -> Nat]
        /\ f[i] = OwnOf(p.w[i]) /\ g[i] = OwnOf(q.w[i])
        /\ \A j \in workers : j # i => g[j] = f[j]
    BY <1>1, <1>4, Families
  <2> HIDE DEF f, g
  <2>2. PICK rest \in [workers -> Nat] :
          /\ SumOf(workers, f) = SumOf(workers, rest) + f[i]
          /\ SumOf(workers, g) = SumOf(workers, rest) + g[i]
    BY <2>1, SumParts
  <2>3. SumOf(workers, rest) \in Nat
    BY TokensFinite
  <2> QED BY <1>4, <2>1, <2>2, <2>3 DEF f, g
<1>8. \E n \in Nat : held = n + HeldOf(was, gate) /\ held2 = n + HeldOf(r, gate)
  <2> DEFINE f == Held(p, gate)
             g == Held(q, gate)
  <2>1. /\ f \in [workers -> Nat] /\ g \in [workers -> Nat]
        /\ f[i] = HeldOf(p.w[i], gate) /\ g[i] = HeldOf(q.w[i], gate)
        /\ \A j \in workers : j # i => g[j] = f[j]
    BY <1>1, <1>4, Families
  <2> HIDE DEF f, g
  <2>2. PICK rest \in [workers -> Nat] :
          /\ SumOf(workers, f) = SumOf(workers, rest) + f[i]
          /\ SumOf(workers, g) = SumOf(workers, rest) + g[i]
    BY <2>1, SumParts
  <2>3. SumOf(workers, rest) \in Nat
    BY TokensFinite
  <2> QED BY <1>4, <2>1, <2>2, <2>3 DEF f, g
<1>9. ASSUME \A j \in workers : q.w[j].own <= gate
      PROVE  held2 \in Nat /\ held2 <= most
  <2> DEFINE g == Held(q, gate)
  <2>1. /\ g \in [workers -> Nat]
        /\ \A j \in workers : g[j] = HeldOf(q.w[j], gate)
    BY <1>1, <1>4, Families
  <2>2. \A j \in workers : HeldOf(q.w[j], gate) <= gate
    BY <1>1, <1>9 DEF HeldOf
  <2> HIDE DEF g
  <2>3. g \in [workers -> 0..gate]
    BY <1>1, <2>1, <2>2
  <2>4. SumOf(workers, g) <= most
    BY <1>1, <2>3, SumBounded DEF most
  <2>5. SumOf(workers, g) \in Nat
    BY <2>1, TokensFinite
  <2> QED BY <2>4, <2>5 DEF g
<1> HIDE DEF own, own2, held, held2
<1>10. \A c \in Costs(cfg) : c[1] \in 1..gate /\ c[2] = c[1]
  BY <1>1 DEF Costs, gate
<1>11. r.last = r.own /\ r.own <= gate
  BY <1>1, <1>2, <1>3, <1>10 DEF Moves
<1>12. \A j \in workers : q.w[j].last = q.w[j].own /\ q.w[j].own <= gate
  BY <1>1, <1>4, <1>11
<1>13. held2 \in Nat /\ held2 <= most
  BY <1>9, <1>12
<1>14. spent = ledger + own2 /\ ledger + held2 < cfg.max + most
  <2>1. CASE was.at = "idle" /\ r.at = "stopped" /\ ledger = p.ledger /\ spent = p.spent
    BY <1>1, <1>2, <1>3, <1>5, <1>6, <1>7, <1>8, <2>1 DEF OwnOf, HeldOf
  <2>2. CASE /\ was.at = "idle" /\ r.at = "stage" /\ r.own = 0 /\ p.ledger < cfg.max
             /\ ledger = p.ledger /\ spent = p.spent
    <3>1. OwnOf(was) = 0 /\ OwnOf(r) = 0
      BY <2>2 DEF OwnOf
    <3> QED BY <1>1, <1>2, <1>5, <1>7, <1>13, <2>2, <3>1
  <2>3. ASSUME NEW c \in Costs(cfg), was.at = "stage", r.at = "stage", was.own = 0,
               r.own = was.own + c[1], ledger = p.ledger, spent = p.spent + c[1]
        PROVE  spent = ledger + own2 /\ ledger + held2 < cfg.max + most
    <3>1. c[1] \in Nat /\ c[1] > 0 /\ c[1] <= gate /\ r.own = c[1]
      BY <1>1, <1>10, <2>3
    <3>2. /\ OwnOf(was) = 0 /\ OwnOf(r) = c[1]
          /\ HeldOf(was, gate) = gate /\ HeldOf(r, gate) = c[1]
      BY <2>3, <3>1 DEF OwnOf, HeldOf
    <3> QED BY <1>1, <1>2, <1>5, <1>7, <1>8, <2>3, <3>1, <3>2
  <2>4. CASE was.at = "stage" /\ r.at = "idle" /\ ledger = p.ledger + was.last /\ spent = p.spent
    <3>1. /\ OwnOf(was) = was.own /\ OwnOf(r) = 0
          /\ HeldOf(was, gate) >= was.own /\ HeldOf(r, gate) = 0
      BY <1>1, <1>3, <2>4 DEF OwnOf, HeldOf
    <3> QED BY <1>1, <1>2, <1>3, <1>5, <1>6, <1>7, <1>8, <2>4, <3>1
  <2> QED BY <1>1, <2>1, <2>2, <2>3, <2>4 DEF Moves
<1> QED BY <1>4, <1>12, <1>14 DEF SingleInv, q, gate, most, own2, held2

LEMMA SingleStep ==
  ASSUME NEW workers, IsFiniteSet(workers), NEW cfg \in Projects, Single(cfg),
         ProjectInv(workers, project, cfg), SingleInv(workers, project, cfg),
         [ProjectNext(workers, cfg)]_project
  PROVE  SingleInv(workers, project, cfg)'
<1>1. CASE UNCHANGED project
  BY <1>1 DEF SingleInv, ProjectState, Owns, Held, InStage
<1>2. ASSUME NEW i \in workers,
             StageStarts(i, cfg) \/ FirstCalls(i, cfg) \/ MoreCalls(i, cfg) \/ StageEnds(i, cfg)
      PROVE  SingleInv(workers, project, cfg)'
  <2>1. PICK r \in WorkerState, ledger \in Nat, spent \in Nat :
          /\ project' = With(project, i, r, ledger, spent)
          /\ Moves(project, i, r, ledger, spent, cfg)
    BY <1>2, StepsAreMoves DEF ProjectInv
  <2>2. SingleInv(workers, With(project, i, r, ledger, spent), cfg)
    BY <2>1, MovesKeepSingle
  <2>3. SingleInv(workers, project', cfg)
    BY <2>1, <2>2
  <2> QED BY <2>3 DEF SingleInv, ProjectState, Owns, Held, InStage
<1>3. ~ Integrates(cfg)
  BY DEF Integrates, Single
<1> QED BY <1>1, <1>2, <1>3 DEF ProjectNext

\* When its stages call the model once each, none throws and the integration stays out of
\* it, a project exceeds its ceiling by less than a call of each worker, however many work
\* beside each other (maxRunTokens and the gate of runStage).
THEOREM CeilingIsHeld ==
  ASSUME NEW workers, IsFiniteSet(workers), NEW cfg \in Projects, Single(cfg)
  PROVE  ProjectSpec(workers, cfg) => []CeilingHolds(project, cfg.max, cfg.gate)
<1>1. ProjectInit(workers) => ProjectInv(workers, project, cfg) /\ SingleInv(workers, project, cfg)
  BY ProjectStarts DEF ProjectInit
<1>2. ProjectInv(workers, project, cfg) /\ SingleInv(workers, project, cfg)
      /\ [ProjectNext(workers, cfg)]_project
        => (ProjectInv(workers, project, cfg) /\ SingleInv(workers, project, cfg))'
  <2>1. ProjectInv(workers, project, cfg) /\ [ProjectNext(workers, cfg)]_project
          => ProjectInv(workers, project, cfg)'
    BY ProjectStep
  <2>2. ProjectInv(workers, project, cfg) /\ SingleInv(workers, project, cfg)
        /\ [ProjectNext(workers, cfg)]_project
          => SingleInv(workers, project, cfg)'
    BY SingleStep
  <2> QED BY <2>1, <2>2
<1>3. SingleInv(workers, project, cfg) => CeilingHolds(project, cfg.max, cfg.gate)
  <2> SUFFICES ASSUME SingleInv(workers, project, cfg)
               PROVE  CeilingHolds(project, cfg.max, cfg.gate)
    OBVIOUS
  <2> DEFINE f == Owns(project)
             g == Held(project, cfg.gate)
             own == SumOf(workers, f)
             held == SumOf(workers, g)
             most == Cardinality(workers) * cfg.gate
  <2>1. /\ project \in ProjectState(workers)
        /\ project.spent = project.ledger + own /\ project.ledger + held < cfg.max + most
        /\ \A i \in workers : project.w[i].own <= cfg.gate
    BY DEF SingleInv
  <2>2. cfg.max \in Nat /\ cfg.gate \in Nat /\ cfg.gate > 0
    BY DEF Projects
  <2>3. most \in Nat
    BY <2>2, FS_CardinalityType
  <2>4. /\ project.ledger \in Nat /\ project.spent \in Nat /\ DOMAIN project.w = workers
        /\ \A i \in workers : project.w[i].own \in Nat
    BY <2>1 DEF ProjectState, WorkerState
  <2>5. /\ f \in [workers -> Nat] /\ g \in [workers -> Nat]
        /\ \A i \in workers : f[i] = OwnOf(project.w[i]) /\ g[i] = HeldOf(project.w[i], cfg.gate)
    BY <2>1, <2>2, Families
  <2> HIDE DEF f, g
  <2>6. \A i \in workers : f[i] <= g[i]
    BY <2>2, <2>4, <2>5 DEF OwnOf, HeldOf
  <2>7. own \in Nat /\ held \in Nat /\ own <= held
    BY <2>5, <2>6, TokensFinite, SumMonotone
  <2> HIDE DEF own, held, most
  <2>8. project.spent < cfg.max + most
    BY <2>1, <2>2, <2>3, <2>4, <2>7
  <2> QED BY <2>4, <2>8 DEF CeilingHolds, most
<1> QED BY <1>1, <1>2, <1>3, PTL DEF ProjectSpec

----
\* The order of the modules (ModuleGraph).

Done(st) == {st.order[i] : i \in DOMAIN st.order}
Queued(st) == {st.queue[i] : i \in DOMAIN st.queue}

KahnState(M) == [inDeg: [M -> Nat], order: Seq(M), queue: Seq(M)]

\* Each module is ordered or queued once.
OnceEach(st) ==
  /\ \A i, j \in DOMAIN st.order : st.order[i] = st.order[j] => i = j
  /\ \A i, j \in DOMAIN st.queue : st.queue[i] = st.queue[j] => i = j
  /\ Done(st) \intersect Queued(st) = {}

\* A module waits for those it uses that are not ordered, and comes when there are none.
WaitsForUses(M, E, st) ==
  \A m \in M :
    /\ st.inDeg[m] = Cardinality({e \in E : e[1] = m /\ e[2] \notin Done(st)})
    /\ st.inDeg[m] = 0 <=> m \in Done(st) \union Queued(st)

UsesComeFirst(E, st) ==
  \A j \in DOMAIN st.order : \A e \in E :
    e[1] = st.order[j] => \E i \in 1..(j - 1) : st.order[i] = e[2]

KahnInv(M, E, st) ==
  /\ st \in KahnState(M)
  /\ OnceEach(st)
  /\ WaitsForUses(M, E, st)
  /\ UsesComeFirst(E, st)

\* A finite set in some order: every element once.
LEMMA EnumerationIsInjective ==
  ASSUME NEW S, IsFiniteSet(S), NEW f \in Enumerations(S)
  PROVE  /\ f \in Seq(S)
         /\ \A m \in S : \E i \in DOMAIN f : f[i] = m
         /\ \A i, j \in DOMAIN f : f[i] = f[j] => i = j
<1> DEFINE n == Cardinality(S)
<1>1. n \in Nat
  BY FS_CardinalityType
<1>2. f \in [1..n -> S] /\ \A m \in S : \E i \in 1..n : f[i] = m
  BY DEF Enumerations
<1>3. IsFiniteSet(1..n) /\ Cardinality(1..n) = Cardinality(S)
  <2>1. IsFiniteSet(1..n) /\ Cardinality(1..n) = IF 1 > n THEN 0 ELSE n - 1 + 1
    BY SMTT(30), <1>1, FS_Interval
  <2> HIDE DEF n
  <2>2. Cardinality(1..n) = n
    BY <1>1, <2>1
  <2> QED BY <2>1, <2>2 DEF n
<1> HIDE DEF n
<1>4. f \in Surjection(1..n, S)
  BY <1>2 DEF Surjection
<1>5. f \in Injection(1..n, S)
  BY <1>3, <1>4, FS_SurjSameCardinalityImpliesInj
<1>6. \A i, j \in 1..n : f[i] = f[j] => i = j
  BY <1>5 DEF Injection, IsInjective
<1>7. f \in Seq(S)
  BY <1>1, <1>2
<1> QED BY <1>2, <1>6, <1>7

Graph(M, E) == IsFiniteSet(M) /\ E \subseteq {e \in M \X M : e[1] # e[2]}

LEMMA GraphIsFinite ==
  ASSUME NEW M, NEW E, Graph(M, E), NEW F \in SUBSET E
  PROVE  IsFiniteSet(F) /\ Cardinality(F) \in Nat /\ (Cardinality(F) = 0 <=> F = {})
<1>1. IsFiniteSet(M \X M)
  BY FS_Product DEF Graph
<1>2. F \in SUBSET (M \X M)
  BY DEF Graph
<1>3. IsFiniteSet(F)
  BY <1>1, <1>2, FS_Subset
<1> QED BY <1>3, FS_CardinalityType, FS_EmptySet

\* The edges that a module waits for.
Awaited(E, st, m) == {e \in E : e[1] = m /\ e[2] \notin Done(st)}

LEMMA KahnStarts ==
  ASSUME NEW M, NEW E, Graph(M, E), NEW leaves \in Enumerations(Leaves(M, E))
  PROVE  KahnInv(M, E, Started(M, E, leaves))
<1> DEFINE st == Started(M, E, leaves)
<1>1. /\ st.inDeg = InDegrees(M, E) /\ st.order = <<>> /\ st.queue = leaves
      /\ st = [inDeg |-> InDegrees(M, E), order |-> <<>>, queue |-> leaves]
  BY DEF Started
<1>2. \A m \in M : Cardinality({e \in E : e[1] = m}) \in Nat
  BY GraphIsFinite
<1>3. InDegrees(M, E) \in [M -> Nat]
  BY <1>2 DEF InDegrees
<1>4. /\ leaves \in Seq(Leaves(M, E))
      /\ \A m \in Leaves(M, E) : \E i \in DOMAIN leaves : leaves[i] = m
      /\ \A i, j \in DOMAIN leaves : leaves[i] = leaves[j] => i = j
  <2>1. IsFiniteSet(Leaves(M, E))
    BY FS_Subset DEF Leaves, Graph
  <2> QED BY <2>1, EnumerationIsInjective
<1>5. leaves \in Seq(M)
  BY <1>4 DEF Leaves
<1>6. Done(st) = {} /\ Queued(st) = Leaves(M, E)
  <2>1. \A i \in DOMAIN leaves : leaves[i] \in Leaves(M, E)
    BY <1>4
  <2> QED BY <1>1, <1>4, <2>1 DEF Done, Queued
<1> HIDE DEF st
<1>7. st \in KahnState(M)
  BY <1>1, <1>3, <1>5 DEF KahnState
<1>8. OnceEach(st)
  BY <1>1, <1>4, <1>6 DEF OnceEach
<1>9. WaitsForUses(M, E, st)
  <2> SUFFICES ASSUME NEW m \in M
               PROVE  /\ st.inDeg[m] = Cardinality({e \in E : e[1] = m /\ e[2] \notin Done(st)})
                      /\ st.inDeg[m] = 0 <=> m \in Done(st) \union Queued(st)
    BY DEF WaitsForUses
  <2>1. {e \in E : e[1] = m /\ e[2] \notin Done(st)} = {e \in E : e[1] = m}
    BY <1>6
  <2>2. st.inDeg[m] = Cardinality({e \in E : e[1] = m})
    BY <1>1 DEF InDegrees
  <2>3. m \in Leaves(M, E) <=> st.inDeg[m] = 0
    BY <1>1 DEF Leaves
  <2> QED BY <1>6, <2>1, <2>2, <2>3
<1>10. UsesComeFirst(E, st)
  BY <1>1 DEF UsesComeFirst
<1> QED BY <1>7, <1>8, <1>9, <1>10 DEF KahnInv, st

\* A round orders the head of the queue and queues what it freed.
LEMMA RoundShape ==
  ASSUME NEW M, NEW E, Graph(M, E), NEW st, KahnInv(M, E, st), NEW nxt, IsRound(E, st, nxt)
  PROVE  LET x == Head(st.queue)
             F == FreedBy(E, st)
         IN  /\ x \in M /\ x \in Queued(st)
             /\ nxt \in KahnState(M)
             /\ nxt.inDeg = Waits(E, st)
             /\ nxt.order = Append(st.order, x)
             /\ Done(nxt) = Done(st) \union {x}
             /\ Queued(nxt) = (Queued(st) \ {x}) \union F
             /\ F \subseteq M
             /\ F \intersect (Done(st) \union Queued(st)) = {}
             /\ \A i, j \in DOMAIN nxt.queue : nxt.queue[i] = nxt.queue[j] => i = j
<1> DEFINE x == Head(st.queue)
           F == FreedBy(E, st)
<1>1. /\ st \in KahnState(M) /\ OnceEach(st) /\ WaitsForUses(M, E, st)
      /\ st.queue # <<>>
  BY DEF KahnInv, IsRound
<1>2. st.inDeg \in [M -> Nat] /\ st.order \in Seq(M) /\ st.queue \in Seq(M)
  BY <1>1 DEF KahnState
<1>3. PICK freed \in Enumerations(F) : nxt = Popped(E, st, freed)
  BY DEF IsRound
<1>4. x \in M /\ x = st.queue[1] /\ 1 \in DOMAIN st.queue /\ x \in Queued(st)
  BY <1>1, <1>2 DEF Queued
<1>5. x \notin Done(st)
  BY <1>1, <1>4 DEF OnceEach
<1>6. F \subseteq M
  BY <1>2 DEF FreedBy
<1>7. ASSUME NEW m \in M, <<m, x>> \in E
      PROVE  st.inDeg[m] >= 1 /\ m \notin Done(st) \union Queued(st)
  <2>1. <<m, x>> \in {e \in E : e[1] = m /\ e[2] \notin Done(st)}
    BY <1>5, <1>7
  <2>2. st.inDeg[m] = Cardinality({e \in E : e[1] = m /\ e[2] \notin Done(st)})
    BY <1>1 DEF WaitsForUses
  <2>3. st.inDeg[m] \in Nat /\ st.inDeg[m] # 0
    BY <2>1, <2>2, GraphIsFinite
  <2>4. st.inDeg[m] = 0 <=> m \in Done(st) \union Queued(st)
    BY <1>1 DEF WaitsForUses
  <2> QED BY <2>3, <2>4
<1>8. F \intersect (Done(st) \union Queued(st)) = {}
  BY <1>6, <1>7 DEF FreedBy
<1>9. /\ freed \in Seq(F)
      /\ \A m \in F : \E i \in DOMAIN freed : freed[i] = m
      /\ \A i, j \in DOMAIN freed : freed[i] = freed[j] => i = j
  <2>1. IsFiniteSet(F)
    BY <1>6, FS_Subset DEF Graph
  <2> QED BY <2>1, EnumerationIsInjective
<1>10. Waits(E, st) \in [M -> Nat]
  <2>1. ASSUME NEW m \in M
        PROVE  st.inDeg[m] - (IF <<m, x>> \in E THEN 1 ELSE 0) \in Nat
    BY <1>2, <1>7
  <2> QED BY <1>2, <2>1 DEF Waits
<1>11. /\ nxt.inDeg = Waits(E, st) /\ nxt.order = Append(st.order, x)
       /\ nxt.queue = Tail(st.queue) \o freed
       /\ nxt = [inDeg |-> Waits(E, st), order |-> Append(st.order, x),
                 queue |-> Tail(st.queue) \o freed]
  BY <1>3 DEF Popped
<1> HIDE DEF x, F
<1>12. freed \in Seq(M)
  BY <1>6, <1>9
<1>13. nxt \in KahnState(M)
  BY <1>1, <1>2, <1>4, <1>10, <1>11, <1>12 DEF KahnState
<1>14. Done(nxt) = Done(st) \union {x}
  <2>1. DOMAIN nxt.order = 1..(Len(st.order) + 1)
    BY <1>2, <1>4, <1>11
  <2>2. \A i \in DOMAIN nxt.order :
          nxt.order[i] = IF i = Len(st.order) + 1 THEN x ELSE st.order[i]
    BY <1>2, <1>4, <1>11
  <2>3. DOMAIN st.order = 1..Len(st.order) /\ Len(st.order) \in Nat
    BY <1>2
  <2>4. \A i \in DOMAIN st.order : i \in DOMAIN nxt.order /\ nxt.order[i] = st.order[i]
    BY <2>1, <2>2, <2>3
  <2>5. Len(st.order) + 1 \in DOMAIN nxt.order /\ nxt.order[Len(st.order) + 1] = x
    BY <2>1, <2>2, <2>3
  <2>6. \A i \in DOMAIN nxt.order : i = Len(st.order) + 1 \/ i \in DOMAIN st.order
    BY <2>1, <2>3
  <2> QED BY <2>4, <2>5, <2>6 DEF Done
<1> DEFINE k == Len(st.queue) - 1
           n == Len(freed)
<1>15. /\ k \in Nat /\ n \in Nat
       /\ DOMAIN st.queue = 1..(k + 1) /\ DOMAIN freed = 1..n
       /\ DOMAIN nxt.queue = 1..(k + n)
       /\ \A i \in 1..k : nxt.queue[i] = st.queue[i + 1]
       /\ \A i \in (k + 1)..(k + n) : nxt.queue[i] = freed[i - k]
  <2>1. k \in Nat /\ n \in Nat /\ DOMAIN st.queue = 1..(k + 1) /\ DOMAIN freed = 1..n
    BY <1>1, <1>2, <1>12
  <2>2. /\ Tail(st.queue) \in Seq(M) /\ Len(Tail(st.queue)) = k
        /\ \A i \in 1..k : Tail(st.queue)[i] = st.queue[i + 1]
    BY <1>1, <1>2
  <2>3. /\ DOMAIN nxt.queue = 1..(k + n)
        /\ \A i \in 1..(k + n) :
             nxt.queue[i] = IF i <= k THEN Tail(st.queue)[i] ELSE freed[i - k]
    <3> DEFINE t == Tail(st.queue)
    <3>1. t \in Seq(M) /\ freed \in Seq(M) /\ nxt.queue = t \o freed /\ Len(t) = k
      BY <1>11, <1>12, <2>2
    <3>2. n = Len(freed)
      OBVIOUS
    <3> HIDE DEF k, n, t
    <3>3. /\ DOMAIN (t \o freed) = 1..(Len(t) + Len(freed))
          /\ \A i \in 1..(Len(t) + Len(freed)) :
               (t \o freed)[i] = IF i <= Len(t) THEN t[i] ELSE freed[i - Len(t)]
      BY <3>1
    <3> QED BY <3>1, <3>2, <3>3 DEF t
  <2> DEFINE t == Tail(st.queue)
  <2> HIDE DEF k, n, t
  <2>4. \A i \in 1..k : i \in 1..(k + n) /\ i <= k
    BY <2>1
  <2>5. \A i \in (k + 1)..(k + n) : i \in 1..(k + n) /\ ~ (i <= k)
    BY <2>1
  <2> QED BY <2>1, <2>2, <2>3, <2>4, <2>5
<1> HIDE DEF k, n
<1>16. Queued(nxt) = (Queued(st) \ {x}) \union F
  <2>1. ASSUME NEW m \in Queued(nxt)  PROVE m \in (Queued(st) \ {x}) \union F
    <3>1. PICK i \in 1..(k + n) : m = nxt.queue[i]
      BY <1>15 DEF Queued
    <3>2. CASE i \in 1..k
      <4>1. i + 1 \in DOMAIN st.queue /\ i + 1 # 1 /\ m = st.queue[i + 1]
        BY <1>15, <3>1, <3>2
      <4>2. m # x
        BY <1>1, <1>4, <4>1 DEF OnceEach
      <4> QED BY <4>1, <4>2 DEF Queued
    <3>3. CASE i \in (k + 1)..(k + n)
      <4>1. i - k \in 1..n /\ m = freed[i - k]
        BY <1>15, <3>1, <3>3
      <4> QED BY <1>9, <1>15, <4>1
    <3> QED BY <1>15, <3>2, <3>3
  <2>2. ASSUME NEW m \in Queued(st), m # x  PROVE m \in Queued(nxt)
    <3>1. PICK i \in DOMAIN st.queue : m = st.queue[i]
      BY DEF Queued
    <3>2. i - 1 \in 1..k /\ i - 1 \in DOMAIN nxt.queue /\ nxt.queue[i - 1] = m
      <4>1. i # 1
        BY <1>4, <2>2, <3>1
      <4> QED BY SMTT(30), <1>15, <3>1, <4>1
    <3> QED BY <3>2 DEF Queued
  <2>3. ASSUME NEW m \in F  PROVE m \in Queued(nxt)
    <3>1. PICK i \in DOMAIN freed : freed[i] = m
      BY <1>9
    <3>2. k + i \in DOMAIN nxt.queue /\ nxt.queue[k + i] = m
      BY <1>15, <3>1
    <3> QED BY <3>2 DEF Queued
  <2> QED BY <2>1, <2>2, <2>3
<1>17. ASSUME NEW i \in DOMAIN nxt.queue, NEW j \in DOMAIN nxt.queue,
              nxt.queue[i] = nxt.queue[j]
       PROVE  i = j
  <2>1. ASSUME NEW a \in 1..k, NEW b \in (k + 1)..(k + n)
        PROVE  nxt.queue[a] # nxt.queue[b]
    <3>1. a + 1 \in DOMAIN st.queue /\ nxt.queue[a] = st.queue[a + 1]
      BY <1>15
    <3>2. b - k \in DOMAIN freed /\ nxt.queue[b] = freed[b - k]
      BY <1>15
    <3>3. freed[b - k] \in F /\ st.queue[a + 1] \in Queued(st)
      BY <1>9, <3>1, <3>2 DEF Queued
    <3> QED BY <1>8, <3>1, <3>2, <3>3
  <2>2. CASE i \in 1..k /\ j \in 1..k
    <3>1. i + 1 \in DOMAIN st.queue /\ j + 1 \in DOMAIN st.queue
          /\ st.queue[i + 1] = st.queue[j + 1]
      BY SMTT(30), <1>15, <1>17, <2>2
    <3>2. i + 1 = j + 1
      BY <1>1, <3>1 DEF OnceEach
    <3> QED BY <2>2, <3>2
  <2>3. CASE i \in (k + 1)..(k + n) /\ j \in (k + 1)..(k + n)
    <3>1. i - k \in DOMAIN freed /\ j - k \in DOMAIN freed /\ freed[i - k] = freed[j - k]
      BY <1>15, <1>17, <2>3
    <3>2. i - k = j - k
      BY <1>9, <3>1
    <3> QED BY <1>15, <2>3, <3>2
  <2>4. (i \in 1..k \/ i \in (k + 1)..(k + n)) /\ (j \in 1..k \/ j \in (k + 1)..(k + n))
    BY <1>15
  <2> QED BY <1>17, <2>1, <2>2, <2>3, <2>4
<1> QED BY <1>4, <1>6, <1>8, <1>11, <1>13, <1>14, <1>16, <1>17 DEF x, F

LEMMA KahnStep ==
  ASSUME NEW M, NEW E, Graph(M, E), NEW st, KahnInv(M, E, st), NEW nxt, IsRound(E, st, nxt)
  PROVE  KahnInv(M, E, nxt)
<1> DEFINE x == Head(st.queue)
           F == FreedBy(E, st)
<1>1. /\ x \in M /\ x \in Queued(st)
      /\ nxt \in KahnState(M)
      /\ nxt.inDeg = Waits(E, st)
      /\ nxt.order = Append(st.order, x)
      /\ Done(nxt) = Done(st) \union {x}
      /\ Queued(nxt) = (Queued(st) \ {x}) \union F
      /\ F \subseteq M
      /\ F \intersect (Done(st) \union Queued(st)) = {}
      /\ \A i, j \in DOMAIN nxt.queue : nxt.queue[i] = nxt.queue[j] => i = j
  BY RoundShape
<1>2. /\ st \in KahnState(M) /\ OnceEach(st) /\ WaitsForUses(M, E, st)
      /\ UsesComeFirst(E, st)
  BY DEF KahnInv
<1>3. st.inDeg \in [M -> Nat] /\ st.order \in Seq(M)
  BY <1>2 DEF KahnState
<1>4. /\ \A m \in M : nxt.inDeg[m] = st.inDeg[m] - IF <<m, x>> \in E THEN 1 ELSE 0
      /\ \A m \in M : m \in F <=> <<m, x>> \in E /\ nxt.inDeg[m] = 0
  BY <1>1, <1>3 DEF Waits, FreedBy
<1> HIDE DEF x, F
<1>5. x \notin Done(st)
  BY <1>1, <1>2 DEF OnceEach
<1> DEFINE l == Len(st.order)
<1>6. /\ l \in Nat /\ DOMAIN st.order = 1..l /\ DOMAIN nxt.order = 1..(l + 1)
      /\ nxt.order[l + 1] = x /\ \A i \in 1..l : nxt.order[i] = st.order[i]
  BY <1>1, <1>3
<1> HIDE DEF l
<1>7. \A i \in 1..(l + 1) : i \in 1..l \/ i = l + 1
  BY <1>6
<1>8. OnceEach(nxt)
  <2>1. \A i, j \in DOMAIN nxt.order : nxt.order[i] = nxt.order[j] => i = j
    <3>1. \A i \in 1..l : nxt.order[i] # x
      BY <1>5, <1>6 DEF Done
    <3> QED BY <1>2, <1>6, <1>7, <3>1 DEF OnceEach
  <2>2. Done(nxt) \intersect Queued(nxt) = {}
    BY <1>1, <1>2 DEF OnceEach
  <2> QED BY <1>1, <2>1, <2>2 DEF OnceEach
<1>9. WaitsForUses(M, E, nxt)
  <2> SUFFICES ASSUME NEW m \in M
               PROVE  /\ nxt.inDeg[m] = Cardinality(Awaited(E, nxt, m))
                      /\ nxt.inDeg[m] = 0 <=> m \in Done(nxt) \union Queued(nxt)
    BY DEF WaitsForUses, Awaited
  <2>1. /\ st.inDeg[m] = Cardinality(Awaited(E, st, m))
        /\ st.inDeg[m] = 0 <=> m \in Done(st) \union Queued(st)
    BY <1>2 DEF WaitsForUses, Awaited
  <2>2. Awaited(E, nxt, m) = Awaited(E, st, m) \ {<<m, x>>}
    <3>1. \A e \in E : e = <<e[1], e[2]>>
      BY DEF Graph
    <3>2. ASSUME NEW e \in E
          PROVE  e \in Awaited(E, nxt, m) <=> e \in Awaited(E, st, m) /\ e # <<m, x>>
      <4>1. e[1] = m => (e[2] = x <=> e = <<m, x>>)
        BY <3>1
      <4>2. e[2] \in Done(nxt) <=> e[2] \in Done(st) \/ e[2] = x
        BY <1>1
      <4> QED BY <1>5, <4>1, <4>2 DEF Awaited
    <3>3. Awaited(E, nxt, m) \subseteq E /\ Awaited(E, st, m) \subseteq E
      BY DEF Awaited
    <3> QED BY <3>2, <3>3
  <2>3. <<m, x>> \in Awaited(E, st, m) <=> <<m, x>> \in E
    BY <1>5 DEF Awaited
  <2>4. IsFiniteSet(Awaited(E, st, m))
    BY GraphIsFinite DEF Awaited
  <2>5. Cardinality(Awaited(E, st, m) \ {<<m, x>>})
          = IF <<m, x>> \in Awaited(E, st, m) THEN Cardinality(Awaited(E, st, m)) - 1
                                              ELSE Cardinality(Awaited(E, st, m))
    BY <2>4, FS_RemoveElement
  <2>6. nxt.inDeg[m] = Cardinality(Awaited(E, nxt, m))
    BY <1>3, <1>4, <2>1, <2>2, <2>3, <2>5
  <2>7. <<m, x>> \in E => m # x /\ st.inDeg[m] # 0
    <3>1. <<m, x>> \in E => m # x
      BY DEF Graph
    <3>2. <<m, x>> \in E => Awaited(E, st, m) # {}
      BY <2>3
    <3>3. Cardinality(Awaited(E, st, m)) = 0 <=> Awaited(E, st, m) = {}
      BY GraphIsFinite DEF Awaited
    <3> QED BY <2>1, <3>1, <3>2, <3>3
  <2>8. CASE <<m, x>> \in E
    BY <1>1, <1>4, <2>1, <2>6, <2>7, <2>8
  <2>9. CASE <<m, x>> \notin E
    <3>1. nxt.inDeg[m] = st.inDeg[m] /\ m \notin F
      BY <1>3, <1>4, <2>9
    <3> QED BY <1>1, <2>1, <2>6, <3>1
  <2> QED BY <2>8, <2>9
<1>10. UsesComeFirst(E, nxt)
  <2> SUFFICES ASSUME NEW j \in DOMAIN nxt.order, NEW e \in E, e[1] = nxt.order[j]
               PROVE  \E i \in 1..(j - 1) : nxt.order[i] = e[2]
    BY DEF UsesComeFirst
  <2>1. CASE j \in 1..l
    <3>1. PICK i \in 1..(j - 1) : st.order[i] = e[2]
      BY <1>2, <1>6, <2>1 DEF UsesComeFirst
    <3>2. i \in 1..l
      BY <1>6, <2>1
    <3> QED BY <1>6, <3>1, <3>2
  <2>2. CASE j = l + 1
    <3>1. e[1] = x
      BY <1>6, <2>2
    <3>2. st.inDeg[x] = 0
      BY <1>1, <1>2 DEF WaitsForUses
    <3>3. Awaited(E, st, x) = {}
      <4>1. st.inDeg[x] = Cardinality(Awaited(E, st, x))
        BY <1>1, <1>2 DEF WaitsForUses, Awaited
      <4>2. Cardinality(Awaited(E, st, x)) = 0 <=> Awaited(E, st, x) = {}
        BY GraphIsFinite DEF Awaited
      <4> QED BY <3>2, <4>1, <4>2
    <3>4. e[2] \in Done(st)
      BY <3>1, <3>3 DEF Awaited
    <3>5. PICK i \in 1..l : st.order[i] = e[2]
      BY <1>6, <3>4 DEF Done
    <3>6. i \in 1..(j - 1)
      BY <1>6, <2>2
    <3> QED BY <1>6, <3>5, <3>6
  <2> QED BY <1>6, <1>7, <2>1, <2>2
<1> QED BY <1>1, <1>8, <1>9, <1>10 DEF KahnInv

\* As many modules are ordered as the order is long.
LEMMA OrderCounts ==
  ASSUME NEW M, NEW E, Graph(M, E), NEW st, KahnInv(M, E, st)
  PROVE  Done(st) \subseteq M /\ Len(st.order) = Cardinality(Done(st))
<1> DEFINE n == Len(st.order)
<1>1. st.order \in Seq(M) /\ OnceEach(st)
  BY DEF KahnInv, KahnState
<1>2. n \in Nat /\ DOMAIN st.order = 1..n /\ st.order \in [1..n -> M]
  BY <1>1
<1>3. Done(st) \subseteq M
  BY <1>2 DEF Done
<1>4. IsFiniteSet(1..n) /\ Cardinality(1..n) = n
  <2> HIDE DEF n
  <2>1. IsFiniteSet(1..n) /\ Cardinality(1..n) = IF 1 > n THEN 0 ELSE n - 1 + 1
    BY <1>2, FS_Interval
  <2> QED BY <1>2, <2>1
<1> HIDE DEF n
<1>5. st.order \in Surjection(1..n, Done(st))
  BY <1>2 DEF Surjection, Done
<1>6. st.order \in Injection(1..n, Done(st))
  BY <1>1, <1>2, <1>5 DEF OnceEach, Injection, IsInjective, Surjection
<1>7. Cardinality(Done(st)) = Cardinality(1..n)
  <2>1. ExistsBijection(1..n, Done(st))
    BY <1>5, <1>6 DEF Bijection, ExistsBijection
  <2> QED BY <1>4, <2>1, FS_Bijection
<1> QED BY <1>3, <1>4, <1>7 DEF n

\* When nothing is queued the order is made, or there is a cycle.
LEMMA KahnEnds ==
  ASSUME NEW M, NEW E, Graph(M, E), NEW st, KahnInv(M, E, st), st.queue = <<>>
  PROVE  OrdersOrThrows(M, E, st.order)
<1>1. /\ st \in KahnState(M) /\ OnceEach(st) /\ WaitsForUses(M, E, st)
      /\ UsesComeFirst(E, st)
  BY DEF KahnInv
<1>2. st.order \in Seq(M) /\ Queued(st) = {}
  BY <1>1 DEF KahnState, Queued
<1>3. Done(st) \subseteq M /\ Len(st.order) = Cardinality(Done(st))
  BY OrderCounts
<1>4. DOMAIN st.order = 1..Len(st.order) /\ Len(st.order) \in Nat
  BY <1>2
<1>5. ASSUME NEW S \in SUBSET M, \A p \in S : \E c \in S : <<p, c>> \in E
      PROVE  S \intersect Done(st) = {}
  <2>0. \A p \in S : \E c \in S : <<p, c>> \in E
    BY <1>5
  <2> SUFFICES ASSUME S \intersect Done(st) # {}  PROVE FALSE
    OBVIOUS
  <2> DEFINE T == {i \in 1..Len(st.order) : st.order[i] \in S}
  <2>1. T \subseteq Nat /\ T # {}
    BY <1>4 DEF Done
  <2>2. PICK i \in T : \A j \in T : i <= j
    <3> HIDE DEF T
    <3> QED BY <2>1, LeastNat
  <2>3. PICK c \in S : <<st.order[i], c>> \in E
    BY <2>0, <2>2
  <2>4. PICK k \in 1..(i - 1) : st.order[k] = c
    BY <1>1, <1>4, <2>2, <2>3 DEF UsesComeFirst
  <2>5. k \in T /\ k < i
    BY <1>4, <2>2, <2>3, <2>4
  <2> QED BY <2>2, <2>5
<1>6. ASSUME Acyclic(M, E)
      PROVE  InOrder(M, E, st.order) /\ Len(st.order) = Cardinality(M)
  <2>1. Done(st) = M
    <3> SUFFICES ASSUME M \ Done(st) # {}  PROVE FALSE
      BY <1>3
    <3>1. PICK p \in M \ Done(st) : \A c \in M \ Done(st) : <<p, c>> \notin E
      BY <1>6 DEF Acyclic
    <3>2. Awaited(E, st, p) = {}
      <4> SUFFICES ASSUME NEW e \in E, e[1] = p, e[2] \notin Done(st)  PROVE FALSE
        BY DEF Awaited
      <4>1. e = <<e[1], e[2]>> /\ e[2] \in M
        BY DEF Graph
      <4> QED BY <3>1, <4>1
    <3>3. st.inDeg[p] = Cardinality(Awaited(E, st, p)) /\ (st.inDeg[p] = 0 => p \in Done(st))
      BY <1>1, <1>2, <3>1 DEF WaitsForUses, Awaited
    <3>4. Cardinality(Awaited(E, st, p)) = 0
      BY <3>2, FS_EmptySet
    <3> QED BY <3>1, <3>3, <3>4
  <2>2. \A m \in M : \E i \in DOMAIN st.order : st.order[i] = m
    BY <2>1 DEF Done
  <2>3. ASSUME NEW i \in DOMAIN st.order, NEW j \in DOMAIN st.order,
               <<st.order[i], st.order[j]>> \in E
        PROVE  i > j
    <3>1. PICK k \in 1..(i - 1) : st.order[k] = st.order[j]
      BY <1>1, <2>3 DEF UsesComeFirst
    <3>2. k \in DOMAIN st.order
      BY <1>4
    <3>3. k = j
      BY <1>1, <3>1, <3>2 DEF OnceEach
    <3> QED BY <1>4, <3>1, <3>3
  <2>4. InOrder(M, E, st.order)
    BY <1>1, <1>2, <2>2, <2>3 DEF InOrder, OnceEach
  <2> QED BY <1>3, <2>1, <2>4
<1>7. ASSUME ~ Acyclic(M, E)  PROVE Len(st.order) < Cardinality(M)
  <2>1. PICK S \in (SUBSET M) \ {{}} : \A p \in S : \E c \in S : <<p, c>> \in E
    BY <1>7 DEF Acyclic
  <2>2. Done(st) # M
    <3>1. S \in SUBSET M /\ S # {}
      BY <2>1
    <3>2. S \intersect Done(st) = {}
      BY <1>5, <2>1, <3>1
    <3> QED BY <3>1, <3>2
  <2>3. /\ Cardinality(Done(st)) <= Cardinality(M)
        /\ Cardinality(M) = Cardinality(Done(st)) => M = Done(st)
    BY <1>3, FS_Subset DEF Graph
  <2>4. Cardinality(M) \in Nat
    BY FS_CardinalityType DEF Graph
  <2> QED BY <1>3, <1>4, <2>2, <2>3, <2>4
<1> QED BY <1>6, <1>7 DEF OrdersOrThrows

LEMMA KahnInvariant ==
  ASSUME NEW CONSTANT M, NEW CONSTANT E, Graph(M, E)
  PROVE  KahnSpec(M, E) => []KahnInv(M, E, kahn)
<1>1. KahnInit(M, E) => KahnInv(M, E, kahn)
  BY KahnStarts DEF KahnInit
<1>2. KahnInv(M, E, kahn) /\ [IsRound(E, kahn, kahn')]_kahn => KahnInv(M, E, kahn)'
  <2> SUFFICES ASSUME KahnInv(M, E, kahn), [IsRound(E, kahn, kahn')]_kahn
               PROVE  KahnInv(M, E, kahn')
    OBVIOUS
  <2> QED BY KahnStep
<1> QED BY <1>1, <1>2, PTL DEF KahnSpec

\* getModuleOrder (dependencyGraph.js): in whatever order the modules and the instances are
\* registered, when nothing is left to do every module stands once in the order, after
\* those it uses; or some modules use each other in a circle, and the order is too short,
\* on which the code throws.
THEOREM OrderIsMade ==
  ASSUME NEW CONSTANT M, NEW CONSTANT E, Graph(M, E)
  PROVE  KahnSpec(M, E) => [](kahn.queue = <<>> => OrdersOrThrows(M, E, kahn.order))
<1>1. KahnInv(M, E, kahn) => (kahn.queue = <<>> => OrdersOrThrows(M, E, kahn.order))
  BY KahnEnds
<1> QED BY <1>1, KahnInvariant, PTL

----
\* The levels of the modules (ModuleGraph).

DepthInv(M, order, uses, st) ==
  /\ st \in [placed: 0..Len(order), level: [M -> Nat]]
  /\ \A i \in DOMAIN order : st.level[order[i]] <= i
  /\ \A i \in DOMAIN order : i > st.placed => st.level[order[i]] = 0
  /\ \A e \in uses : \A i \in 1..st.placed :
       e[1] = order[i] /\ e[2] # e[1] /\ e[2] \in M => st.level[e[1]] > st.level[e[2]]
  /\ \A m \in M : st.level[m] > 0 =>
       \E e \in uses :
         e[1] = m /\ st.level[m] = 1 + IF e[2] \in M \ {m} THEN st.level[e[2]] ELSE 0

LEMMA MaxOfBounded ==
  ASSUME NEW k \in Nat, NEW P, P \subseteq 0..k, P # {}
  PROVE  Max(P) \in P /\ \A y \in P : y <= Max(P)
<1> DEFINE T == {n \in 0..k : k - n \in P}
<1>1. T \subseteq Nat
  OBVIOUS
<1>2. T # {}
  <2>1. PICK j \in P : TRUE
    OBVIOUS
  <2>2. k - j \in T
    OBVIOUS
  <2> QED BY <2>2
<1>3. PICK n \in T : \A y \in T : n <= y
  <2> HIDE DEF T
  <2> QED BY <1>1, <1>2, LeastNat
<1>4. ASSUME NEW y \in P  PROVE k - n >= y
  <2>1. k - y \in T
    OBVIOUS
  <2>2. n <= k - y
    BY <2>1, <1>3
  <2> QED BY <2>2
<1>5. k - n \in P /\ \A y \in P : k - n >= y
  BY <1>4
<1>6. Max(P) \in P /\ \A y \in P : Max(P) >= y
  BY <1>5 DEF Max
<1>7. \A y \in P : y \in Int
  OBVIOUS
<1> QED BY <1>6, <1>7

\* The edges among the pairs of the instances.
Edges(M, uses) == {e \in uses : e[1] # e[2] /\ {e[1], e[2]} \subseteq M}

Placing(M, order, All, uses) ==
  /\ uses \subseteq All \X All
  /\ InOrder(M, Edges(M, uses), order)

LEMMA DepthStarts ==
  ASSUME NEW M, NEW order, NEW All, NEW uses, Placing(M, order, All, uses)
  PROVE  /\ M = {order[i] : i \in DOMAIN order}
         /\ DepthInv(M, order, uses, [placed |-> 0, level |-> [m \in M |-> 0]])
<1>1. /\ order \in Seq(M) /\ \A m \in M : \E i \in DOMAIN order : order[i] = m
      /\ Len(order) \in Nat /\ DOMAIN order = 1..Len(order)
  BY DEF Placing, InOrder
<1>2. M = {order[i] : i \in DOMAIN order}
  BY <1>1
<1>3. \A i \in DOMAIN order : order[i] \in M
  BY <1>1
<1> QED BY <1>1, <1>2, <1>3 DEF DepthInv

LEMMA DepthStep ==
  ASSUME NEW M, NEW order, NEW All, NEW uses, Placing(M, order, All, uses),
         NEW st, DepthInv(M, order, uses, st), st.placed < Len(order)
  PROVE  DepthInv(M, order, uses,
                  [placed |-> st.placed + 1,
                   level |-> PutLevel(st.level, order[st.placed + 1], uses)])
<1> DEFINE k == st.placed + 1
           m == order[k]
           level == st.level
           above(e) == 1 + IF e[2] \in DOMAIN level THEN level[e[2]] ELSE 0
           P == {0} \union {above(e) : e \in {u \in uses : u[1] = m}}
           v == Max(P)
           nxt == PutLevel(level, m, uses)
<1>1. /\ order \in Seq(M)
      /\ \A n \in M : \E i \in DOMAIN order : order[i] = n
      /\ \A i, j \in DOMAIN order : order[i] = order[j] => i = j
      /\ \A i, j \in DOMAIN order : <<order[i], order[j]>> \in Edges(M, uses) => i > j
      /\ Len(order) \in Nat /\ DOMAIN order = 1..Len(order)
  BY DEF Placing, InOrder
<1>2. /\ st \in [placed: 0..Len(order), level: [M -> Nat]]
      /\ \A i \in DOMAIN order : st.level[order[i]] <= i
      /\ \A i \in DOMAIN order : i > st.placed => st.level[order[i]] = 0
      /\ \A e \in uses : \A i \in 1..st.placed :
           e[1] = order[i] /\ e[2] # e[1] /\ e[2] \in M => st.level[e[1]] > st.level[e[2]]
      /\ \A n \in M : st.level[n] > 0 =>
           \E e \in uses :
             e[1] = n /\ st.level[n] = 1 + IF e[2] \in M \ {n} THEN st.level[e[2]] ELSE 0
  BY DEF DepthInv
<1>3. /\ st.placed \in Nat /\ k \in Nat /\ k \in DOMAIN order /\ k >= 1 /\ k > st.placed
      /\ m \in M /\ level \in [M -> Nat] /\ k <= Len(order) /\ k = st.placed + 1
  BY <1>1, <1>2
<1>4. nxt = [level EXCEPT ![m] = v]
  BY DEF PutLevel
<1>5. level[m] = 0
  BY <1>2, <1>3
<1>6. \A n \in M : level[n] \in Nat
  BY <1>3
<1> HIDE DEF k, m, level
\* Who uses whom comes later.
<1>7. ASSUME NEW e \in uses, NEW i \in DOMAIN order, e[1] = order[i], e[2] # e[1], e[2] \in M
      PROVE  \E j \in DOMAIN order : e[2] = order[j] /\ j < i
  <2>1. PICK j \in DOMAIN order : order[j] = e[2]
    BY <1>1, <1>7
  <2>2. e = <<e[1], e[2]>>
    BY DEF Placing
  <2>3. <<order[i], order[j]>> \in Edges(M, uses)
    BY SMTT(30), <1>1, <1>7, <2>1, <2>2 DEF Edges
  <2>4. i > j
    BY <1>1, <2>3
  <2> QED BY <1>1, <2>1, <2>4
<1>8. ASSUME NEW e \in uses, e[1] = m
      PROVE  /\ above(e) = 1 + IF e[2] \in M \ {m} THEN level[e[2]] ELSE 0
             /\ above(e) \in 1..k
  <2>1. CASE e[2] \in M \ {m}
    <3>1. PICK j \in DOMAIN order : e[2] = order[j] /\ j < k
      BY <1>3, <1>7, <1>8, <2>1 DEF m
    <3>2. level[e[2]] <= j /\ level[e[2]] \in Nat /\ j \in Nat
      BY <1>1, <1>2, <1>6, <2>1, <3>1 DEF level
    <3>3. above(e) = 1 + level[e[2]]
      BY <1>3, <2>1
    <3>4. 1 + level[e[2]] \in 1..k
      BY SMTT(30), <1>3, <3>1, <3>2
    <3> QED BY <2>1, <3>3, <3>4
  <2>2. CASE e[2] \notin M \ {m}
    <3>1. above(e) = 1
      BY <1>3, <1>5, <2>2
    <3> QED BY <1>3, <2>2, <3>1
  <2> QED BY <2>1, <2>2
<1>9. P \subseteq 0..k /\ P # {}
  BY <1>3, <1>8
<1>10. v \in P /\ \A y \in P : y <= v
  <2> HIDE DEF P
  <2> QED BY <1>3, <1>9, MaxOfBounded
<1>11. v \in 0..k
  <2> HIDE DEF P, v
  <2> QED BY <1>9, <1>10
<1>12. \A e \in uses : e[1] = m => above(e) \in P
  OBVIOUS
<1>13. v > 0 => \E e \in uses : e[1] = m /\ v = above(e)
  <2> HIDE DEF v
  <2> QED BY <1>10
<1> HIDE DEF v, P, above, nxt
<1>14. nxt \in [M -> Nat] /\ nxt[m] = v /\ \A n \in M : n # m => nxt[n] = level[n]
  BY <1>3, <1>4, <1>11
<1>15. \A i \in DOMAIN order : i = k \/ (i # k /\ order[i] # m /\ order[i] \in M)
  BY <1>1, <1>3 DEF m
<1> DEFINE s == [placed |-> k, level |-> nxt]
<1>16. s.placed = k /\ s.level = nxt /\ s \in [placed: 0..Len(order), level: [M -> Nat]]
  BY <1>3, <1>14
<1> HIDE DEF s
<1>17. ASSUME NEW i \in DOMAIN order
       PROVE  nxt[order[i]] <= i /\ (i > k => nxt[order[i]] = 0)
  <2>1. CASE i = k
    BY <1>3, <1>11, <1>14, <2>1 DEF m
  <2>2. CASE i # k
    <3>1. nxt[order[i]] = level[order[i]]
      BY <1>14, <1>15, <2>2
    <3>2. i > k => i > st.placed
      BY SMTT(30), <1>1, <1>3
    <3> QED BY <1>2, <3>1, <3>2 DEF level
  <2> QED BY <2>1, <2>2
<1>18. ASSUME NEW e \in uses, NEW i \in 1..k, e[1] = order[i], e[2] # e[1], e[2] \in M
       PROVE  nxt[e[1]] > nxt[e[2]]
  <2>0. i \in DOMAIN order
    BY <1>1, <1>3
  <2>1. PICK j \in DOMAIN order : e[2] = order[j] /\ j < i
    BY <1>7, <1>18, <2>0
  <2>2. j # k
    BY <1>3, <2>1
  <2>3. nxt[e[2]] = level[e[2]] /\ level[e[2]] \in Nat
    BY <1>6, <1>14, <1>15, <1>18, <2>1, <2>2
  <2>4. CASE i = k
    <3>1. e[1] = m /\ e[2] \in M \ {m}
      BY <1>18, <2>4 DEF m
    <3>2. above(e) = 1 + level[e[2]] /\ above(e) \in P
      BY <1>8, <1>12, <3>1
    <3>3. 1 + level[e[2]] <= v
      BY <1>10, <3>2
    <3> QED BY <1>11, <1>14, <2>3, <3>1, <3>3
  <2>5. CASE i # k
    <3>1. i \in 1..st.placed
      BY <1>3, <2>5
    <3>2. nxt[e[1]] = level[e[1]]
      BY <1>14, <1>15, <1>18, <2>0, <2>5
    <3>3. level[e[1]] > level[e[2]]
      BY <1>2, <1>18, <3>1 DEF level
    <3> QED BY <2>3, <3>2, <3>3
  <2> QED BY <2>4, <2>5
<1>19. ASSUME NEW n \in M, nxt[n] > 0
       PROVE  \E e \in uses :
                e[1] = n /\ nxt[n] = 1 + IF e[2] \in M \ {n} THEN nxt[e[2]] ELSE 0
  <2>1. CASE n = m
    <3>1. v > 0
      BY <1>14, <1>19, <2>1
    <3>2. PICK e \in uses : e[1] = m /\ v = above(e)
      BY <1>13, <3>1
    <3>3. above(e) = 1 + IF e[2] \in M \ {m} THEN level[e[2]] ELSE 0
      BY <1>8, <3>2
    <3>4. e[2] \in M \ {m} => nxt[e[2]] = level[e[2]]
      BY <1>14
    <3> QED BY <1>14, <2>1, <3>2, <3>3, <3>4
  <2>2. CASE n # m
    <3>1. nxt[n] = level[n]
      BY <1>14, <2>2
    <3>2. PICK e \in uses :
            e[1] = n /\ level[n] = 1 + IF e[2] \in M \ {n} THEN level[e[2]] ELSE 0
      BY <1>2, <1>19, <3>1 DEF level
    <3>3. PICK i \in DOMAIN order : order[i] = n
      BY <1>1
    <3>4. i <= st.placed
      <4>1. level[n] > 0
        BY <1>19, <3>1
      <4>2. ~ (i > st.placed)
        BY <1>2, <3>3, <4>1 DEF level
      <4> QED BY SMTT(30), <1>1, <1>3, <4>2
    <3>5. e[2] \in M \ {n} => e[2] # m
      <4> SUFFICES ASSUME e[2] \in M \ {n}, e[2] = m  PROVE FALSE
        OBVIOUS
      <4>1. PICK j \in DOMAIN order : e[2] = order[j] /\ j < i
        BY <1>7, <3>2, <3>3
      <4>2. j = k
        BY <1>1, <1>3, <4>1 DEF m
      <4> QED BY SMTT(30), <1>1, <1>3, <3>4, <4>1, <4>2
    <3>6. e[2] \in M \ {n} => nxt[e[2]] = level[e[2]]
      BY <1>14, <3>5
    <3> QED BY <3>1, <3>2, <3>6
  <2> QED BY <2>1, <2>2
<1>20. DepthInv(M, order, uses, s)
  <2>1. \A i \in DOMAIN order : s.level[order[i]] <= i
    BY <1>16, <1>17
  <2>2. \A i \in DOMAIN order : i > s.placed => s.level[order[i]] = 0
    BY <1>16, <1>17
  <2>3. \A e \in uses : \A i \in 1..s.placed :
          e[1] = order[i] /\ e[2] # e[1] /\ e[2] \in M => s.level[e[1]] > s.level[e[2]]
    BY <1>16, <1>18
  <2>4. \A n \in M : s.level[n] > 0 =>
          \E e \in uses :
            e[1] = n /\ s.level[n] = 1 + IF e[2] \in M \ {n} THEN s.level[e[2]] ELSE 0
    BY <1>16, <1>19
  <2> QED BY <1>16, <2>1, <2>2, <2>3, <2>4 DEF DepthInv
<1> QED BY <1>20 DEF s, k, nxt, level, m

LEMMA DepthInvariant ==
  ASSUME NEW CONSTANT M, NEW CONSTANT order, NEW CONSTANT All, NEW CONSTANT uses,
         Placing(M, order, All, uses)
  PROVE  DepthSpec(order, uses) => []DepthInv(M, order, uses, depth)
<1>1. DepthInit(order) => DepthInv(M, order, uses, depth)
  <2> SUFFICES ASSUME DepthInit(order)  PROVE DepthInv(M, order, uses, depth)
    OBVIOUS
  <2> DEFINE all == {order[i] : i \in DOMAIN order}
  <2>1. depth = [placed |-> 0, level |-> [m \in all |-> 0]]
    BY DEF DepthInit
  <2>2. M = all /\ DepthInv(M, order, uses, [placed |-> 0, level |-> [m \in M |-> 0]])
    BY DepthStarts
  <2> HIDE DEF all
  <2>3. [m \in all |-> 0] = [m \in M |-> 0]
    BY <2>2
  <2> QED BY <2>1, <2>2, <2>3
<1>2. DepthInv(M, order, uses, depth) /\ [DepthNext(order, uses)]_depth
        => DepthInv(M, order, uses, depth)'
  <2> SUFFICES ASSUME DepthInv(M, order, uses, depth), [DepthNext(order, uses)]_depth
               PROVE  DepthInv(M, order, uses, depth')
    OBVIOUS
  <2>1. CASE DepthNext(order, uses)
    BY <2>1, DepthStep DEF DepthNext
  <2>2. CASE depth' = depth
    BY <2>2
  <2> QED BY <2>1, <2>2
<1> QED BY <1>1, <1>2, PTL DEF DepthSpec

\* The waves of runAllPipelines: along an order of the modules, each one is put above those
\* it uses, whatever else the instances name, so that two modules of a wave never use each
\* other; no higher than it must be ("layered by LONGEST path from the leaves").
THEOREM LevelsAreMade ==
  ASSUME NEW CONSTANT M, NEW CONSTANT order, NEW CONSTANT All, NEW CONSTANT uses,
         Placing(M, order, All, uses), M # {}
  PROVE  DepthSpec(order, uses) =>
           [](depth.placed = Len(order) =>
                /\ LevelsAbove(M, Edges(M, uses), depth.level)
                /\ uses = Edges(M, uses) => LevelsAreTight(M, uses, depth.level))
<1>1. ASSUME DepthInv(M, order, uses, depth), depth.placed = Len(order)
      PROVE  /\ LevelsAbove(M, Edges(M, uses), depth.level)
             /\ uses = Edges(M, uses) => LevelsAreTight(M, uses, depth.level)
  <2> DEFINE level == depth.level
  <2>1. /\ order \in Seq(M)
        /\ \A n \in M : \E i \in DOMAIN order : order[i] = n
        /\ Len(order) \in Nat /\ DOMAIN order = 1..Len(order)
    BY DEF Placing, InOrder
  <2>2. /\ level \in [M -> Nat]
        /\ \A i \in DOMAIN order : level[order[i]] <= i
        /\ \A e \in uses : \A i \in 1..Len(order) :
             e[1] = order[i] /\ e[2] # e[1] /\ e[2] \in M => level[e[1]] > level[e[2]]
        /\ \A n \in M : level[n] > 0 =>
             \E e \in uses :
               e[1] = n /\ level[n] = 1 + IF e[2] \in M \ {n} THEN level[e[2]] ELSE 0
    BY <1>1 DEF DepthInv
  <2> HIDE DEF level
  <2>3. \A e \in Edges(M, uses) : level[e[1]] > level[e[2]]
    BY <2>1, <2>2 DEF Edges
  <2>4. \E h \in M : \A m \in M : level[m] <= level[h]
    <3> DEFINE P == {level[m] : m \in M}
    <3>1. P \subseteq 0..Len(order) /\ P # {}
      <4>1. ASSUME NEW m \in M  PROVE level[m] \in 0..Len(order)
        <5>1. PICK i \in DOMAIN order : order[i] = m
          BY <2>1
        <5>2. level[m] <= i /\ level[m] \in Nat /\ i \in 1..Len(order)
          BY <2>1, <2>2, <5>1
        <5> QED BY <2>1, <5>2
      <4> QED BY <4>1
    <3>2. Max(P) \in P /\ \A y \in P : y <= Max(P)
      <4> HIDE DEF P
      <4> QED BY <2>1, <3>1, MaxOfBounded
    <3>3. PICK h \in M : level[h] = Max(P)
      BY <3>2
    <3>4. \A m \in M : level[m] \in P
      OBVIOUS
    <3> HIDE DEF P
    <3> QED BY <3>2, <3>3, <3>4
  <2>5. ASSUME uses = Edges(M, uses)  PROVE LevelsAreTight(M, uses, level)
    <3> SUFFICES ASSUME NEW m \in M, level[m] # 0
                 PROVE  \E e \in uses : e[1] = m /\ level[m] = level[e[2]] + 1
      BY DEF LevelsAreTight
    <3>1. level[m] > 0
      BY <2>2
    <3>2. PICK e \in uses :
            e[1] = m /\ level[m] = 1 + IF e[2] \in M \ {m} THEN level[e[2]] ELSE 0
      BY <2>2, <3>1
    <3>3. e[2] \in M \ {m}
      BY <2>5, <3>2 DEF Edges
    <3>4. level[e[2]] \in Nat
      BY <2>2, <3>3
    <3> QED BY <3>2, <3>3, <3>4
  <2> QED BY <2>2, <2>3, <2>4, <2>5 DEF LevelsAbove, level
<1>2. DepthInv(M, order, uses, depth) =>
        (depth.placed = Len(order) =>
           /\ LevelsAbove(M, Edges(M, uses), depth.level)
           /\ uses = Edges(M, uses) => LevelsAreTight(M, uses, depth.level))
  BY <1>1
<1> QED BY <1>2, DepthInvariant, PTL

----
\* The levels below the top (computeEffectiveLevels).

\* The modules that are queued and not visited yet.
Awaiting(st) == ToSet(st.queue) \ st.visited

\* Where the search has been: the levels are natural numbers, the top's is 0, and a module
\* that has one is visited or queued.
Searching(M, st, top) ==
  /\ st = [found |-> st.found, visited |-> st.visited, queue |-> st.queue]
  /\ DOMAIN st.found \subseteq M /\ st.found \in [DOMAIN st.found -> Nat]
  /\ st.queue \in Seq(M)
  /\ DOMAIN st.found = st.visited \union ToSet(st.queue)
  /\ top \in DOMAIN st.found /\ st.found[top] = 0

\* What is pending is at most one level apart, no visited module is below it, and of two
\* of different levels the higher one is queued before the lower one.
InLevels(st) ==
  /\ \A a, b \in Awaiting(st) : st.found[b] <= st.found[a] + 1
  /\ \A v \in st.visited : \A a \in Awaiting(st) : st.found[v] <= st.found[a]
  /\ \A a, b \in Awaiting(st) : st.found[a] < st.found[b] =>
       \E i \in DOMAIN st.queue :
         st.queue[i] = a /\ \A k \in 1 .. i : st.queue[k] # b

\* A way from the top down to m.
PathTo(M, E, top, path, m) ==
  /\ path \in Seq(M) /\ path # <<>> /\ path[1] = top /\ path[Len(path)] = m
  /\ \A i \in 1 .. (Len(path) - 1) : <<path[i], path[i + 1]>> \in E

\* What a visited module instantiates has a level, at most one deeper; and to each module
\* that has one there is a way as long as its level says.
Leveled(M, E, st, top) ==
  /\ \A v \in st.visited : \A c \in Below(M, E, v) :
       c \in DOMAIN st.found /\ st.found[c] <= st.found[v] + 1
  /\ \A m \in DOMAIN st.found : \E path :
       PathTo(M, E, top, path, m) /\ Len(path) = st.found[m] + 1

SearchInv(M, E, st, top) == Searching(M, st, top) /\ InLevels(st) /\ Leveled(M, E, st, top)

LEMMA SearchStarts ==
  ASSUME NEW M, NEW E, NEW top \in M, SearchInit(top)
  PROVE  SearchInv(M, E, search, top)
<1>1. search = [found |-> [m \in {top} |-> 0], visited |-> {}, queue |-> <<top>>]
  BY DEF SearchInit
<1>2. /\ search.queue = <<top>> /\ search.visited = {} /\ search.found = [m \in {top} |-> 0]
      /\ DOMAIN search.found = {top} /\ search.found[top] = 0
  BY <1>1
<1>3. <<top>> \in Seq(M) /\ ToSet(<<top>>) = {top}
  BY DEF ToSet
<1>4. Searching(M, search, top)
  <2>1. search = [found |-> search.found, visited |-> search.visited,
                  queue |-> search.queue]
    BY <1>1
  <2>2. search.found \in [DOMAIN search.found -> Nat] /\ DOMAIN search.found \subseteq M
    BY <1>2
  <2>3. search.queue \in Seq(M)
          /\ DOMAIN search.found = search.visited \union ToSet(search.queue)
    BY <1>2, <1>3
  <2>4. top \in DOMAIN search.found /\ search.found[top] = 0
    BY <1>2
  <2> QED BY <2>1, <2>2, <2>3, <2>4 DEF Searching
<1>5. Awaiting(search) = {top}
  BY <1>2, <1>3 DEF Awaiting
<1>6. InLevels(search)
  BY <1>2, <1>5 DEF InLevels
<1>7. Leveled(M, E, search, top)
  <2>1. /\ <<top>> \in Seq(M) /\ <<top>> # <<>> /\ <<top>>[1] = top /\ Len(<<top>>) = 1
        /\ \A i \in 1 .. (1 - 1) : FALSE
    OBVIOUS
  <2>2. PathTo(M, E, top, <<top>>, top)
    BY <2>1 DEF PathTo
  <2>3. Len(<<top>>) = search.found[top] + 1
    BY <1>2, <2>1
  <2>4. \A m \in DOMAIN search.found : \E path :
          PathTo(M, E, top, path, m) /\ Len(path) = search.found[m] + 1
    <3> SUFFICES ASSUME NEW m \in DOMAIN search.found
                 PROVE  \E path : PathTo(M, E, top, path, m)
                                    /\ Len(path) = search.found[m] + 1
      OBVIOUS
    <3>1. m = top
      BY <1>2
    <3> QED BY <2>2, <2>3, <3>1, Zenon
  <2> QED BY <1>2, <2>4 DEF Leveled
<1> QED BY <1>4, <1>6, <1>7 DEF SearchInv

LEMMA ConcatIs ==
  ASSUME NEW M, NEW t \in Seq(M), NEW q \in Seq(M)
  PROVE  /\ t \o q \in Seq(M) /\ Len(t) \in Nat /\ Len(q) \in Nat
         /\ DOMAIN t = 1 .. Len(t) /\ DOMAIN q = 1 .. Len(q)
         /\ DOMAIN (t \o q) = 1 .. (Len(t) + Len(q))
         /\ \A k \in 1 .. Len(t) : (t \o q)[k] = t[k]
         /\ \A k \in 1 .. Len(q) : (t \o q)[Len(t) + k] = q[k]
<1>1. t \o q \in Seq(M) /\ Len(t) \in Nat /\ Len(q) \in Nat
        /\ DOMAIN t = 1 .. Len(t) /\ DOMAIN q = 1 .. Len(q)
        /\ Len(t \o q) = Len(t) + Len(q)
  OBVIOUS
<1>2. DOMAIN (t \o q) = 1 .. (Len(t) + Len(q))
  BY <1>1
<1>3. \A k \in 1 .. (Len(t) + Len(q)) :
        (t \o q)[k] = IF k <= Len(t) THEN t[k] ELSE q[k - Len(t)]
  OBVIOUS
<1>4. \A k \in 1 .. Len(t) : (t \o q)[k] = t[k]
  BY <1>1, <1>3
<1>5. ASSUME NEW k \in 1 .. Len(q)  PROVE (t \o q)[Len(t) + k] = q[k]
  <2>1. /\ Len(t) + k \in 1 .. (Len(t) + Len(q)) /\ ~ (Len(t) + k <= Len(t))
        /\ (Len(t) + k) - Len(t) = k
    BY <1>1
  <2> QED BY <1>3, <2>1
<1> QED BY <1>1, <1>2, <1>4, <1>5

\* A way to p goes on to what p instantiates.
LEMMA PathGoesOn ==
  ASSUME NEW M, NEW E, NEW top, NEW path, NEW p, PathTo(M, E, top, path, p),
         NEW m \in Below(M, E, p)
  PROVE  PathTo(M, E, top, Append(path, m), m) /\ Len(Append(path, m)) = Len(path) + 1
<1> DEFINE n == Len(path)
           on == Append(path, m)
<1>1. /\ path \in Seq(M) /\ path # <<>> /\ path[1] = top /\ path[n] = p
      /\ \A i \in 1 .. (n - 1) : <<path[i], path[i + 1]>> \in E
  BY DEF PathTo
<1>2. m \in M /\ <<p, m>> \in E
  BY DEF Below
<1>3. /\ n \in Nat /\ n > 0 /\ on \in Seq(M) /\ on # <<>> /\ Len(on) = n + 1
      /\ on[n + 1] = m /\ \A i \in 1 .. n : on[i] = path[i]
  BY <1>1, <1>2
<1> HIDE DEF n, on
<1>4. ASSUME NEW i \in 1 .. (Len(on) - 1)  PROVE <<on[i], on[i + 1]>> \in E
  <2>1. CASE i = n
    BY <1>1, <1>2, <1>3, <2>1, SMTT(30)
  <2>2. CASE i # n
    <3>1. i \in 1 .. (n - 1) /\ i \in 1 .. n /\ i + 1 \in 1 .. n
      BY <1>3, <2>2
    <3> QED BY <1>1, <1>3, <3>1
  <2> QED BY <2>1, <2>2
<1>5. 1 \in 1 .. n
  BY <1>3
<1> QED BY <1>1, <1>3, <1>4, <1>5 DEF PathTo, n, on

LEMMA QueueParts ==
  ASSUME NEW M, NEW s \in Seq(M), s # <<>>, NEW q \in Seq(M)
  PROVE  /\ Head(s) = s[1] /\ Head(s) \in M
         /\ Tail(s) \in Seq(M) /\ Tail(s) \o q \in Seq(M)
         /\ ToSet(s) = {Head(s)} \union ToSet(Tail(s))
         /\ ToSet(Tail(s) \o q) = ToSet(Tail(s)) \union ToSet(q)
         /\ \A i \in DOMAIN s : i > 1 =>
              /\ i - 1 \in DOMAIN Tail(s) /\ i - 1 \in DOMAIN (Tail(s) \o q)
              /\ \A k \in 1 .. (i - 1) : /\ Tail(s)[k] = s[k + 1] /\ k + 1 \in 1 .. i
                                         /\ (Tail(s) \o q)[k] = s[k + 1]
<1> DEFINE t == Tail(s)
           n == Len(s)
<1>1. /\ n \in Nat /\ n > 0 /\ DOMAIN s = 1 .. n
      /\ t \in Seq(M) /\ DOMAIN t = 1 .. (n - 1) /\ Len(t) = n - 1
      /\ \A k \in 1 .. (n - 1) : t[k] = s[k + 1]
      /\ Head(s) = s[1] /\ s[1] \in M
  OBVIOUS
<1>2. /\ Len(q) \in Nat /\ DOMAIN q = 1 .. Len(q)
      /\ t \o q \in Seq(M) /\ DOMAIN (t \o q) = 1 .. (n - 1 + Len(q))
      /\ \A k \in 1 .. (n - 1) : (t \o q)[k] = t[k]
      /\ \A k \in 1 .. Len(q) : (t \o q)[n - 1 + k] = q[k]
  <2> HIDE DEF t, n
  <2>1. Len(q) \in Nat /\ DOMAIN q = 1 .. Len(q) /\ t \in Seq(M) /\ Len(t) = n - 1
    BY <1>1
  <2>2. \A x, y \in Seq(M) :
          /\ x \o y \in Seq(M) /\ DOMAIN (x \o y) = 1 .. (Len(x) + Len(y))
          /\ \A k \in 1 .. Len(x) : (x \o y)[k] = x[k]
          /\ \A k \in 1 .. Len(y) : (x \o y)[Len(x) + k] = y[k]
    BY ConcatIs
  <2>3. /\ t \o q \in Seq(M) /\ DOMAIN (t \o q) = 1 .. (Len(t) + Len(q))
        /\ \A k \in 1 .. Len(t) : (t \o q)[k] = t[k]
        /\ \A k \in 1 .. Len(q) : (t \o q)[Len(t) + k] = q[k]
    BY <2>1, <2>2, Zenon
  <2> QED BY <2>1, <2>3
<1> HIDE DEF t, n
<1>3. ToSet(s) = {Head(s)} \union ToSet(t)
  <2>1. ASSUME NEW i \in 1 .. n  PROVE s[i] \in {s[1]} \union ToSet(t)
    <3>1. CASE i = 1
      BY <3>1
    <3>2. CASE i # 1
      <4>1. i - 1 \in 1 .. (n - 1) /\ i = (i - 1) + 1
        BY <1>1, <3>2
      <4>2. t[i - 1] = s[i]
        BY <1>1, <4>1
      <4>3. t[i - 1] \in ToSet(t)
        BY <1>1, <4>1 DEF ToSet
      <4> QED BY <4>2, <4>3
    <3> QED BY <3>1, <3>2
  <2>2. ASSUME NEW k \in 1 .. (n - 1)  PROVE t[k] \in ToSet(s)
    <3>1. k + 1 \in 1 .. n
      BY <1>1
    <3> QED BY <1>1, <3>1 DEF ToSet
  <2>3. s[1] \in ToSet(s)
    <3>1. 1 \in 1 .. n
      BY <1>1
    <3> QED BY <1>1, <3>1 DEF ToSet
  <2> QED BY <1>1, <2>1, <2>2, <2>3 DEF ToSet
<1>4. ToSet(t \o q) = ToSet(t) \union ToSet(q)
  <2>1. ASSUME NEW i \in 1 .. (n - 1 + Len(q))
        PROVE  (t \o q)[i] \in ToSet(t) \union ToSet(q)
    <3>1. CASE i \in 1 .. (n - 1)
      BY <1>1, <1>2, <3>1 DEF ToSet
    <3>2. CASE i \notin 1 .. (n - 1)
      <4>1. i - (n - 1) \in 1 .. Len(q) /\ i = n - 1 + (i - (n - 1))
        BY <1>1, <1>2, <3>2
      <4> QED BY <1>2, <4>1 DEF ToSet
    <3> QED BY <3>1, <3>2
  <2>2. ASSUME NEW k \in 1 .. (n - 1)  PROVE t[k] \in ToSet(t \o q)
    <3>1. k \in 1 .. (n - 1 + Len(q))
      BY <1>1, <1>2
    <3> QED BY <1>2, <3>1 DEF ToSet
  <2>3. ASSUME NEW k \in 1 .. Len(q)  PROVE q[k] \in ToSet(t \o q)
    <3>1. n - 1 + k \in 1 .. (n - 1 + Len(q))
      BY <1>1, <1>2
    <3> QED BY <1>2, <3>1 DEF ToSet
  <2>4. \A x \in ToSet(t \o q) : x \in ToSet(t) \union ToSet(q)
    BY <1>2, <2>1 DEF ToSet
  <2>5. \A x \in ToSet(t) : x \in ToSet(t \o q)
    BY <1>1, <2>2 DEF ToSet
  <2>6. \A x \in ToSet(q) : x \in ToSet(t \o q)
    BY <1>2, <2>3 DEF ToSet
  <2> QED BY <2>4, <2>5, <2>6
<1>5. ASSUME NEW i \in 1 .. n, i > 1
      PROVE  /\ i - 1 \in DOMAIN t /\ i - 1 \in DOMAIN (t \o q)
             /\ \A k \in 1 .. (i - 1) : /\ t[k] = s[k + 1] /\ k + 1 \in 1 .. i
                                        /\ (t \o q)[k] = s[k + 1]
  <2>1. i - 1 \in 1 .. (n - 1) /\ i - 1 \in 1 .. (n - 1 + Len(q))
    BY <1>1, <1>2, <1>5
  <2>2. \A k \in 1 .. (i - 1) : k \in 1 .. (n - 1) /\ k + 1 \in 1 .. i
    BY <1>1
  <2> QED BY <1>1, <1>2, <2>1, <2>2
<1> QED BY <1>1, <1>2, <1>3, <1>4, <1>5 DEF t

\* Dropping a head that is visited.
LEMMA SkipKeeps ==
  ASSUME NEW M, NEW E, NEW top, NEW st, SearchInv(M, E, st, top), st.queue # <<>>,
         Head(st.queue) \in st.visited,
         NEW nxt, nxt = [st EXCEPT !.queue = Tail(@)]
  PROVE  SearchInv(M, E, nxt, top) /\ nxt.found = st.found
<1>1. /\ nxt.found = st.found /\ nxt.visited = st.visited /\ nxt.queue = Tail(st.queue)
      /\ nxt = [found |-> nxt.found, visited |-> nxt.visited, queue |-> nxt.queue]
  <2>1. st = [found |-> st.found, visited |-> st.visited, queue |-> st.queue]
    BY DEF SearchInv, Searching
  <2> QED BY <2>1
<1>2. st.queue \in Seq(M) /\ <<>> \in Seq(M)
  BY DEF SearchInv, Searching
<1>3. /\ Tail(st.queue) \in Seq(M) /\ Head(st.queue) = st.queue[1]
      /\ ToSet(st.queue) = {Head(st.queue)} \union ToSet(Tail(st.queue))
      /\ \A i \in DOMAIN st.queue : i > 1 =>
           /\ i - 1 \in DOMAIN Tail(st.queue)
           /\ \A k \in 1 .. (i - 1) :
                Tail(st.queue)[k] = st.queue[k + 1] /\ k + 1 \in 1 .. i
  BY <1>2, QueueParts
<1>4. Awaiting(nxt) = Awaiting(st)
  BY <1>1, <1>3 DEF Awaiting
<1>5. Searching(M, nxt, top)
  BY <1>1, <1>3 DEF SearchInv, Searching
<1>6. ASSUME NEW a \in Awaiting(nxt), NEW b \in Awaiting(nxt), nxt.found[a] < nxt.found[b]
      PROVE  \E i \in DOMAIN nxt.queue :
               nxt.queue[i] = a /\ \A k \in 1 .. i : nxt.queue[k] # b
  <2>1. PICK i \in DOMAIN st.queue : st.queue[i] = a /\ \A k \in 1 .. i : st.queue[k] # b
    BY <1>1, <1>4, <1>6 DEF SearchInv, InLevels
  <2>2. DOMAIN st.queue = 1 .. Len(st.queue) /\ Len(st.queue) \in Nat
    BY <1>2
  <2>3. i > 1
    <3>1. a # Head(st.queue)
      BY <1>4 DEF Awaiting
    <3> QED BY <1>3, <2>1, <2>2, <3>1
  <2>4. i - 1 \in DOMAIN nxt.queue
    BY <1>1, <1>3, <2>3
  <2>5. \A k \in 1 .. (i - 1) : nxt.queue[k] = st.queue[k + 1] /\ k + 1 \in 1 .. i
    BY <1>1, <1>3, <2>3
  <2>6. nxt.queue[i - 1] = a
    <3>1. i - 1 \in 1 .. (i - 1) /\ (i - 1) + 1 = i
      BY <2>2, <2>3
    <3> QED BY <2>1, <2>5, <3>1
  <2>7. \A k \in 1 .. (i - 1) : nxt.queue[k] # b
    BY <2>1, <2>5
  <2> QED BY <2>4, <2>6, <2>7
<1>7. InLevels(nxt)
  <2>1. \A a, b \in Awaiting(nxt) : nxt.found[b] <= nxt.found[a] + 1
    BY <1>1, <1>4 DEF SearchInv, InLevels
  <2>2. \A v \in nxt.visited : \A a \in Awaiting(nxt) : nxt.found[v] <= nxt.found[a]
    BY <1>1, <1>4 DEF SearchInv, InLevels
  <2> QED BY <1>6, <2>1, <2>2 DEF InLevels
<1>8. Leveled(M, E, nxt, top)
  BY <1>1 DEF SearchInv, Leveled
<1> QED BY <1>1, <1>5, <1>7, <1>8 DEF SearchInv

\* A visit to a head that is not visited yet: q lists what it queues.
Visits(M, E, st, q, nxt) ==
  LET cur    == Head(st.queue)
      kids   == Below(M, E, cur)
      unseen == kids \ (st.visited \union {cur})
  IN /\ st.queue # <<>> /\ cur \notin st.visited
     /\ q \in Seq(unseen) /\ ToSet(q) = unseen
     /\ DOMAIN nxt.found = (DOMAIN st.found) \union kids
     /\ nxt.found = [m \in DOMAIN nxt.found |-> nxt.found[m]]
     /\ \A m \in DOMAIN nxt.found :
          nxt.found[m] = IF m \notin DOMAIN st.found THEN st.found[cur] + 1
                         ELSE IF m \in kids THEN Min({st.found[m], st.found[cur] + 1})
                         ELSE st.found[m]
     /\ nxt.visited = st.visited \union {cur}
     /\ nxt.queue = Tail(st.queue) \o q
     /\ nxt = [found |-> nxt.found, visited |-> nxt.visited, queue |-> nxt.queue]

LEMMA VisitKeeps ==
  ASSUME NEW M, NEW E, NEW top, NEW st, SearchInv(M, E, st, top),
         NEW q, NEW nxt, Visits(M, E, st, q, nxt)
  PROVE  /\ SearchInv(M, E, nxt, top)
         /\ \A m \in DOMAIN st.found : m \in DOMAIN nxt.found /\ nxt.found[m] = st.found[m]
<1> DEFINE D == DOMAIN st.found
           cur == Head(st.queue)
           kids == Below(M, E, cur)
           unseen == kids \ (st.visited \union {cur})
           found == nxt.found
           L == st.found[cur]
           tail == Tail(st.queue)
<1>1. /\ nxt.found = found /\ nxt.visited = st.visited \union {cur}
      /\ nxt.queue = tail \o q /\ DOMAIN found = D \union kids
  BY DEF Visits
<1>2. st.queue # <<>> /\ cur \notin st.visited /\ q \in Seq(unseen) /\ ToSet(q) = unseen
  BY DEF Visits
<1>3. \A m \in DOMAIN found :
        found[m] = IF m \notin D THEN L + 1
                   ELSE IF m \in kids THEN Min({st.found[m], L + 1})
                   ELSE st.found[m]
  BY DEF Visits
<1>4. found = [m \in DOMAIN found |-> found[m]]
  BY DEF Visits
<1>5. kids \subseteq M /\ unseen \subseteq kids
  BY DEF Below
<1>6. unseen = kids \ (st.visited \union {cur}) /\ cur = Head(st.queue)
  OBVIOUS
<1> HIDE DEF unseen, kids, found, cur
<1>7. /\ D \subseteq M /\ \A m \in D : st.found[m] \in Nat
      /\ st.queue \in Seq(M) /\ D = st.visited \union ToSet(st.queue)
      /\ top \in D /\ st.found[top] = 0
  BY DEF SearchInv, Searching
<1>8. kids \subseteq M /\ unseen \subseteq kids
  BY <1>5
<1>9. q \in Seq(M)
  <2>1. q \in [1 .. Len(q) -> unseen] /\ Len(q) \in Nat
    BY <1>2
  <2> DEFINE n == Len(q)
  <2>2. q \in [1 .. n -> M] /\ n \in Nat
    BY <1>8, <2>1
  <2> HIDE DEF n
  <2> QED BY <2>2
<1>10. /\ cur = st.queue[1] /\ cur \in M
      /\ tail \in Seq(M) /\ tail \o q \in Seq(M)
      /\ ToSet(st.queue) = {cur} \union ToSet(tail)
      /\ ToSet(tail \o q) = ToSet(tail) \union unseen
      /\ \A i \in DOMAIN st.queue : i > 1 =>
           /\ i - 1 \in DOMAIN (tail \o q)
           /\ \A k \in 1 .. (i - 1) : (tail \o q)[k] = st.queue[k + 1] /\ k + 1 \in 1 .. i
  BY <1>7, <1>9, <1>2, QueueParts DEF cur
<1> HIDE DEF tail
<1>11. cur \in D /\ cur \in Awaiting(st) /\ L \in Nat
  BY <1>7, <1>10, <1>2 DEF Awaiting
<1>12. \A a \in Awaiting(st) : a \in D /\ L <= st.found[a] /\ st.found[a] <= L + 1
  <2> SUFFICES ASSUME NEW a \in Awaiting(st)
               PROVE  a \in D /\ L <= st.found[a] /\ st.found[a] <= L + 1
    OBVIOUS
  <2>1. a \in D /\ st.found[a] \in Nat
    BY <1>7 DEF Awaiting
  <2>2. st.found[a] <= L + 1
    BY <1>11 DEF SearchInv, InLevels
  <2>3. ASSUME st.found[a] < L  PROVE FALSE
    <3>1. PICK i \in DOMAIN st.queue :
            st.queue[i] = a /\ \A k \in 1 .. i : st.queue[k] # cur
      <4>1. \A x, y \in Awaiting(st) : st.found[x] < st.found[y] =>
              \E i \in DOMAIN st.queue :
                st.queue[i] = x /\ \A k \in 1 .. i : st.queue[k] # y
        BY DEF SearchInv, InLevels
      <4>2. a \in Awaiting(st) /\ cur \in Awaiting(st) /\ st.found[a] < st.found[cur]
        BY <1>11, <2>3
      <4> QED BY <4>1, <4>2, Zenon
    <3>2. 1 \in 1 .. i
      <4>1. DOMAIN st.queue = 1 .. Len(st.queue) /\ Len(st.queue) \in Nat
        BY <1>7
      <4> QED BY <4>1
    <3> QED BY <1>10, <3>1, <3>2
  <2> QED BY <1>11, <2>1, <2>2, <2>3
<1>13. \A v \in st.visited : v \in D /\ st.found[v] <= L
  BY <1>7, <1>11 DEF SearchInv, InLevels
<1>14. \A m \in D : m \in DOMAIN found /\ found[m] = st.found[m]
  <2> SUFFICES ASSUME NEW m \in D  PROVE found[m] = st.found[m]
    BY <1>1
  <2>1. CASE m \in kids
    <3>1. st.found[m] <= L + 1
      <4>1. CASE m \in st.visited
        BY <1>7, <1>11, <1>13, <4>1
      <4>2. CASE m \notin st.visited
        <5>1. m \in Awaiting(st)
          BY <1>7, <4>2 DEF Awaiting
        <5> QED BY <1>12, <5>1
      <4> QED BY <4>1, <4>2
    <3>2. Min({st.found[m], L + 1}) = st.found[m]
      <4>1. st.found[m] \in Nat /\ L + 1 \in Nat
        BY <1>7, <1>11
      <4>2. Min({st.found[m], L + 1}) = IF st.found[m] <= L + 1 THEN st.found[m] ELSE L + 1
        BY <4>1, MinOfTwo
      <4> QED BY <3>1, <4>2
    <3> QED BY <1>1, <1>3, <2>1, <3>2
  <2>2. CASE m \notin kids
    BY <1>1, <1>3, <2>2
  <2> QED BY <2>1, <2>2
<1>15. \A m \in kids \ D : m \in DOMAIN found /\ found[m] = L + 1
  BY <1>1, <1>3
<1> HIDE DEF L
<1>16. \A m \in DOMAIN found : found[m] \in Nat
  BY <1>1, <1>7, <1>11, <1>14, <1>15
<1>17. \A a \in Awaiting(nxt) : \/ a \in Awaiting(st) /\ a # cur
                                \/ a \in kids \ D
  BY <1>1, <1>7, <1>10, <1>6 DEF Awaiting
<1> HIDE DEF D
<1>18. \A a \in Awaiting(nxt) :
         a \in DOMAIN found /\ L <= found[a] /\ found[a] <= L + 1
  BY <1>11, <1>12, <1>14, <1>15, <1>17
<1>19. Searching(M, nxt, top)
  <2>1. DOMAIN found \subseteq M /\ found \in [DOMAIN found -> Nat]
    <3>1. DOMAIN found \subseteq M
      BY <1>1, <1>7, <1>8
    <3> QED BY <1>16, <1>4, <3>1
  <2>2. DOMAIN found = (st.visited \union {cur}) \union ToSet(tail \o q)
    <3>1. DOMAIN found = D \union kids
      BY <1>1
    <3> QED BY <1>7, <1>10, <1>6, <3>1
  <2>3. top \in DOMAIN found /\ found[top] = 0
    BY <1>7, <1>14
  <2>4. nxt = [found |-> nxt.found, visited |-> nxt.visited, queue |-> nxt.queue]
    BY DEF Visits
  <2> QED BY <1>1, <1>10, <2>1, <2>2, <2>3, <2>4 DEF Searching
<1>20. \A a, b \in Awaiting(nxt) : found[b] <= found[a] + 1
  BY <1>11, <1>16, <1>18
<1>21. \A v \in nxt.visited : \A a \in Awaiting(nxt) : found[v] <= found[a]
  <2>1. \A v \in nxt.visited : v \in D /\ st.found[v] <= L /\ st.found[v] \in Nat
    <3>1. L <= L
      BY <1>11
    <3> QED BY <1>1, <1>7, <1>11, <1>13, <3>1 DEF L
  <2>2. \A v \in nxt.visited : found[v] <= L /\ found[v] \in Nat
    BY <1>14, <2>1
  <2> QED BY <1>11, <1>16, <1>18, <2>2
<1>22. ASSUME NEW a \in Awaiting(nxt), NEW b \in Awaiting(nxt), found[a] < found[b]
       PROVE  \E i \in DOMAIN nxt.queue :
                nxt.queue[i] = a /\ \A k \in 1 .. i : nxt.queue[k] # b
  <2>1. a \in Awaiting(st) /\ a # cur
    <3>1. ASSUME a \in kids \ D  PROVE FALSE
      <4>1. found[a] = L + 1 /\ found[b] <= L + 1 /\ found[b] \in Nat
        BY <1>15, <1>16, <1>18, <3>1
      <4> QED BY <1>11, <1>22, <4>1
    <3> QED BY <1>17, <3>1
  <2>2. DOMAIN st.queue = 1 .. Len(st.queue) /\ Len(st.queue) \in Nat
    BY <1>7
  <2>3. PICK i \in DOMAIN st.queue : st.queue[i] = a /\ \A k \in 1 .. i : st.queue[k] # b
    <3>1. CASE b \in Awaiting(st)
      <4>1. st.found[a] < st.found[b]
        BY <1>12, <1>14, <1>22, <2>1, <3>1
      <4> QED BY <2>1, <3>1, <4>1 DEF SearchInv, InLevels
    <3>2. CASE b \in kids \ D
      <4>1. PICK i \in DOMAIN st.queue : st.queue[i] = a
        BY <2>1 DEF Awaiting, ToSet
      <4>2. ASSUME NEW k \in 1 .. i  PROVE st.queue[k] # b
        <5>1. k \in DOMAIN st.queue
          BY <2>2
        <5>2. st.queue[k] \in D
          BY <1>7, <5>1 DEF ToSet
        <5> QED BY <3>2, <5>2
      <4> QED BY <4>1, <4>2
    <3> QED BY <1>17, <3>1, <3>2
  <2>4. i > 1
    <3>1. i # 1
      BY <1>10, <2>1, <2>3
    <3> QED BY <2>2, <3>1
  <2>5. i - 1 \in DOMAIN nxt.queue
    BY <1>1, <1>10, <2>4
  <2>6. \A k \in 1 .. (i - 1) : nxt.queue[k] = st.queue[k + 1] /\ k + 1 \in 1 .. i
    BY <1>1, <1>10, <2>4
  <2>7. nxt.queue[i - 1] = a
    <3>1. i - 1 \in 1 .. (i - 1) /\ (i - 1) + 1 = i
      BY <2>2, <2>4
    <3> QED BY <2>3, <2>6, <3>1
  <2>8. \A k \in 1 .. (i - 1) : nxt.queue[k] # b
    BY <2>3, <2>6
  <2> QED BY <2>5, <2>7, <2>8
<1>23. InLevels(nxt)
  <2>1. \A a, b \in Awaiting(nxt) : nxt.found[b] <= nxt.found[a] + 1
    BY <1>1, <1>20
  <2>2. \A v \in nxt.visited : \A a \in Awaiting(nxt) : nxt.found[v] <= nxt.found[a]
    BY <1>1, <1>21
  <2>3. \A a, b \in Awaiting(nxt) : nxt.found[a] < nxt.found[b] =>
          \E i \in DOMAIN nxt.queue :
            nxt.queue[i] = a /\ \A k \in 1 .. i : nxt.queue[k] # b
    <3>1. nxt.found = found
      BY <1>1
    <3> QED BY <1>22, <3>1, Zenon
  <2> QED BY <2>1, <2>2, <2>3 DEF InLevels
<1>24. Leveled(M, E, nxt, top)
  <2>1. ASSUME NEW v \in nxt.visited, NEW c \in Below(M, E, v)
        PROVE  c \in DOMAIN found /\ found[c] <= found[v] + 1
    <3>1. CASE v = cur
      <4>1. c \in kids /\ found[v] = L
        BY <1>11, <1>14, <2>1, <3>1 DEF L, kids
      <4>2. CASE c \in D
        <5>1. found[c] <= L + 1
          <6>1. CASE c \in st.visited
            <7>1. st.found[c] \in Nat /\ st.found[c] <= L
              BY <1>7, <1>13, <4>2, <6>1
            <7> QED BY <1>11, <1>14, <4>2, <7>1
          <6>2. CASE c \notin st.visited
            <7>1. c \in Awaiting(st)
              BY <1>7, <4>2, <6>2 DEF Awaiting
            <7> QED BY <1>12, <1>14, <4>2, <7>1
          <6> QED BY <6>1, <6>2
        <5> QED BY <1>14, <4>1, <4>2, <5>1
      <4>3. CASE c \notin D
        <5>1. c \in DOMAIN found /\ found[c] = L + 1
          BY <1>15, <4>1, <4>3
        <5> QED BY <1>11, <4>1, <5>1
      <4> QED BY <4>2, <4>3
    <3>2. CASE v # cur
      <4>1. v \in st.visited /\ v \in D
        BY <1>1, <1>13, <3>2
      <4>2. c \in D /\ st.found[c] <= st.found[v] + 1
        BY <2>1, <4>1 DEF SearchInv, Leveled, D
      <4> QED BY <1>14, <4>1, <4>2
    <3> QED BY <3>1, <3>2
  <2>2. ASSUME NEW m \in DOMAIN found
        PROVE  \E path : PathTo(M, E, top, path, m) /\ Len(path) = found[m] + 1
    <3>1. \A x \in D : \E path :
            PathTo(M, E, top, path, x) /\ Len(path) = st.found[x] + 1
      BY DEF SearchInv, Leveled, D
    <3>2. CASE m \in D
      BY <1>14, <3>1, <3>2
    <3>3. CASE m \notin D
      <4>1. m \in kids /\ found[m] = L + 1
        BY <1>1, <1>15, <2>2, <3>3
      <4>2. PICK path : PathTo(M, E, top, path, cur) /\ Len(path) = L + 1
        BY <1>11, <3>1 DEF L
      <4>3. /\ PathTo(M, E, top, Append(path, m), m)
            /\ Len(Append(path, m)) = Len(path) + 1
        BY <4>1, <4>2, PathGoesOn DEF kids
      <4>4. Len(Append(path, m)) = found[m] + 1
        BY <4>1, <4>2, <4>3
      <4> QED BY <4>3, <4>4
    <3> QED BY <3>2, <3>3
  <2>3. \A v \in nxt.visited : \A c \in Below(M, E, v) :
          c \in DOMAIN nxt.found /\ nxt.found[c] <= nxt.found[v] + 1
    BY <1>1, <2>1
  <2>4. \A m \in DOMAIN nxt.found : \E path :
          PathTo(M, E, top, path, m) /\ Len(path) = nxt.found[m] + 1
    <3>1. nxt.found = found
      BY <1>1
    <3> QED BY <2>2, <3>1, Zenon
  <2> QED BY <2>3, <2>4 DEF Leveled
<1> QED BY <1>1, <1>14, <1>19, <1>23, <1>24 DEF SearchInv, D

LEMMA SearchStep ==
  ASSUME NEW M, NEW E, NEW top, NEW st, SearchInv(M, E, st, top),
         NEW nxt, IsVisit(M, E, st, nxt)
  PROVE  /\ SearchInv(M, E, nxt, top)
         /\ \A m \in DOMAIN st.found : m \in DOMAIN nxt.found /\ nxt.found[m] = st.found[m]
<1>1. st.queue # <<>>
  BY DEF IsVisit
<1>2. CASE Head(st.queue) \in st.visited
  <2>1. nxt = [st EXCEPT !.queue = Tail(@)]
    BY <1>2 DEF IsVisit
  <2>2. SearchInv(M, E, nxt, top) /\ nxt.found = st.found
    BY <1>1, <1>2, <2>1, SkipKeeps
  <2> QED BY <2>2
<1>3. CASE Head(st.queue) \notin st.visited
  <2> DEFINE cur == Head(st.queue)
             kids == Below(M, E, cur)
             unseen == kids \ (st.visited \union {cur})
             lower(m) == IF m \notin DOMAIN st.found THEN st.found[cur] + 1
                         ELSE IF m \in kids THEN Min({st.found[m], st.found[cur] + 1})
                         ELSE st.found[m]
             dom == (DOMAIN st.found) \union kids
  <2>1. PICK q \in Seq(unseen) :
          /\ ToSet(q) = unseen
          /\ nxt = [found |-> [m \in dom |-> lower(m)],
                    visited |-> st.visited \union {cur},
                    queue |-> Tail(st.queue) \o q]
    BY <1>3 DEF IsVisit
  <2>2. /\ nxt.found = [m \in dom |-> lower(m)]
        /\ nxt.visited = st.visited \union {cur} /\ nxt.queue = Tail(st.queue) \o q
        /\ nxt = [found |-> nxt.found, visited |-> nxt.visited, queue |-> nxt.queue]
    <3> HIDE DEF dom, lower, cur, unseen
    <3> QED BY <2>1
  <2>3. /\ DOMAIN nxt.found = dom
        /\ nxt.found = [m \in DOMAIN nxt.found |-> nxt.found[m]]
        /\ \A m \in DOMAIN nxt.found : nxt.found[m] = lower(m)
    <3> HIDE DEF dom, lower
    <3> QED BY <2>2
  <2>4. Visits(M, E, st, q, nxt)
    BY <1>1, <1>3, <2>1, <2>2, <2>3, Zenon DEF Visits
  <2> QED BY <2>4, VisitKeeps
<1> QED BY <1>2, <1>3

LEMMA SearchInvariant ==
  ASSUME NEW M, NEW E, NEW top \in M
  PROVE  SearchSpec(M, E, top) => []SearchInv(M, E, search, top)
<1>1. ASSUME SearchInv(M, E, search, top), [IsVisit(M, E, search, search')]_search
      PROVE  SearchInv(M, E, search, top)'
  <2>1. CASE IsVisit(M, E, search, search')
    BY <1>1, <2>1, SearchStep
  <2>2. CASE UNCHANGED search
    BY <1>1, <2>2
  <2> QED BY <1>1, <2>1, <2>2
<1>2. SearchInit(top) => SearchInv(M, E, search, top)
  BY SearchStarts
<1> QED BY <1>1, <1>2, PTL DEF SearchSpec

\* A level, once found, stays: the search never finds a shorter way than its first, and the
\* minimum that the code takes changes nothing.
LevelsStay ==
  \A m \in DOMAIN search.found :
    m \in DOMAIN search'.found /\ search'.found[m] = search.found[m]

THEOREM FirstLevelsStay ==
  ASSUME NEW M, NEW E, NEW top \in M
  PROVE  SearchSpec(M, E, top) => [][LevelsStay]_search
<1>1. ASSUME SearchInv(M, E, search, top), [IsVisit(M, E, search, search')]_search
      PROVE  [LevelsStay]_search
  BY <1>1, SearchStep DEF LevelsStay
<1> QED BY <1>1, SearchInvariant, PTL DEF SearchSpec

\* The level of a module is the length of a shortest way to it, and those without a way
\* from the top have none.
ShortestLevels(M, E, top, found) ==
  \A m \in M :
    /\ m \in DOMAIN found <=> \E path : PathTo(M, E, top, path, m)
    /\ m \in DOMAIN found => \E path : PathTo(M, E, top, path, m)
                                         /\ Len(path) = found[m] + 1
    /\ m \in DOMAIN found => \A path : PathTo(M, E, top, path, m)
                                         => found[m] + 1 <= Len(path)

LEMMA NoShorterWay ==
  ASSUME NEW M, NEW E, NEW top, NEW st, SearchInv(M, E, st, top), st.queue = <<>>,
         NEW m, NEW path, PathTo(M, E, top, path, m)
  PROVE  m \in DOMAIN st.found /\ st.found[m] + 1 <= Len(path)
<1> DEFINE n == Len(path)
           Fine(i) == path[i] \in DOMAIN st.found /\ st.found[path[i]] + 1 <= i
           T == {i \in 1 .. n : ~ Fine(i)}
<1>1. /\ path \in Seq(M) /\ path # <<>> /\ path[1] = top /\ path[n] = m
      /\ \A i \in 1 .. (n - 1) : <<path[i], path[i + 1]>> \in E
  BY DEF PathTo
<1>2. n \in Nat /\ n > 0 /\ \A i \in 1 .. n : path[i] \in M
  BY <1>1
<1>3. /\ \A v \in DOMAIN st.found : v \in st.visited /\ st.found[v] \in Nat
      /\ top \in DOMAIN st.found /\ st.found[top] = 0
  BY DEF SearchInv, Searching, ToSet
<1> HIDE DEF n
<1>4. ASSUME T # {}  PROVE FALSE
  <2>1. T \subseteq Nat
    OBVIOUS
  <2>2. PICK i \in T : \A k \in T : i <= k
    <3> HIDE DEF T
    <3> QED BY <1>4, <2>1, LeastNat
  <2>3. i \in 1 .. n /\ ~ Fine(i)
    BY <2>2
  <2>4. i # 1
    BY <1>1, <1>3, <2>3
  <2>5. i - 1 \in 1 .. n /\ i - 1 \in 1 .. (n - 1) /\ i = (i - 1) + 1
    BY <1>2, <2>3, <2>4
  <2>6. Fine(i - 1)
    <3>1. ~ (i <= i - 1)
      BY <2>3
    <3>2. i - 1 \notin T
      BY <2>2, <3>1
    <3> QED BY <2>5, <3>2
  <2>7. path[i] \in Below(M, E, path[i - 1])
    BY <1>1, <1>2, <2>3, <2>5 DEF Below
  <2>8. /\ path[i] \in DOMAIN st.found
        /\ st.found[path[i]] <= st.found[path[i - 1]] + 1
    BY <1>3, <2>6, <2>7 DEF SearchInv, Leveled
  <2>9. st.found[path[i]] \in Nat /\ st.found[path[i - 1]] \in Nat
    BY <1>3, <2>6, <2>8
  <2>10. Fine(i)
    BY <2>3, <2>6, <2>8, <2>9
  <2> QED BY <2>3, <2>10
<1>5. n \in 1 .. n
  BY <1>2
<1>6. Fine(n)
  <2> HIDE DEF Fine
  <2> QED BY <1>4, <1>5
<1> QED BY <1>1, <1>6 DEF n

THEOREM SearchFindsShortestWays ==
  ASSUME NEW M, NEW E, NEW top \in M
  PROVE  SearchSpec(M, E, top)
           => [](search.queue = <<>> => ShortestLevels(M, E, top, search.found))
<1>1. SearchInv(M, E, search, top)
        => (search.queue = <<>> => ShortestLevels(M, E, top, search.found))
  <2> SUFFICES ASSUME SearchInv(M, E, search, top), search.queue = <<>>, NEW m \in M
               PROVE  /\ m \in DOMAIN search.found <=> \E path : PathTo(M, E, top, path, m)
                      /\ m \in DOMAIN search.found =>
                           \E path : PathTo(M, E, top, path, m)
                                       /\ Len(path) = search.found[m] + 1
                      /\ m \in DOMAIN search.found =>
                           \A path : PathTo(M, E, top, path, m)
                                       => search.found[m] + 1 <= Len(path)
    BY DEF ShortestLevels
  <2>1. m \in DOMAIN search.found =>
          \E path : PathTo(M, E, top, path, m) /\ Len(path) = search.found[m] + 1
    BY DEF SearchInv, Leveled
  <2>2. \A path : PathTo(M, E, top, path, m)
                    => m \in DOMAIN search.found /\ search.found[m] + 1 <= Len(path)
    BY NoShorterWay
  <2> QED BY <2>1, <2>2
<1> QED BY <1>1, SearchInvariant, PTL

----
\* The verdict on the integrated system (CandidateSelection).

\* The weights and their parts in numbers.
LEMMA Weights ==
  /\ WEIGHTS.lint = 35 /\ Partly(WEIGHTS.lint) = 21
  /\ WEIGHTS.systemTb = 35 /\ Partly(WEIGHTS.systemTb) = 21
  /\ WEIGHTS.modules = 25 /\ Partly(WEIGHTS.modules) = 15
  /\ WEIGHTS.sharedPackage = 5
<1>1. /\ WEIGHTS.lint = 35 /\ WEIGHTS.systemTb = 35
      /\ WEIGHTS.modules = 25 /\ WEIGHTS.sharedPackage = 5
  BY DEF WEIGHTS
<1>2. (35 * 3) \div 5 = 21 /\ (25 * 3) \div 5 = 15
  OBVIOUS
<1> QED BY <1>1, <1>2 DEF Partly

\* What each component earns.
LEMMA Earnings ==
  ASSUME NEW m \in Integration
  PROVE  /\ LintEarned(m) = IF ~ m.lintRan \/ m.errors > 0 THEN 0
                            ELSE IF m.warnings > 0 THEN 21 ELSE 35
         /\ TbEarned(m) = IF m.total = 0 \/ 5 * m.pass < 4 * m.total THEN 0
                          ELSE IF m.pass < m.total THEN 21 ELSE 35
         /\ ModulesEarned(m) = IF AllJudged(m) THEN 25
                               ELSE IF m.judges # {} /\ \A j \in m.judges : j.score >= 70
                               THEN 15 ELSE 0
<1>1. LintEarned(m) = IF ~ m.lintRan \/ m.errors > 0 THEN 0
                      ELSE IF m.warnings > 0 THEN 21 ELSE 35
  BY Weights DEF LintEarned
<1>2. TbEarned(m) = IF m.total = 0 \/ 5 * m.pass < 4 * m.total THEN 0
                    ELSE IF m.pass < m.total THEN 21 ELSE 35
  BY Weights DEF TbEarned
<1>3. ModulesEarned(m) = IF AllJudged(m) THEN 25
                         ELSE IF m.judges # {} /\ \A j \in m.judges : j.score >= 70
                         THEN 15 ELSE 0
  BY Weights DEF ModulesEarned
<1> QED BY <1>1, <1>2, <1>3

\* The points a system earns of the 95 that always count, and their share in per cent.
CorePoints(m) == LintEarned(m) + TbEarned(m) + ModulesEarned(m)

OutOf95(e) == (200 * e + 95) \div 190

\* What the three components earn.
LEMMA PartsEarned ==
  ASSUME NEW m \in Integration
  PROVE  /\ LintEarned(m) \in {0, 21, 35} /\ TbEarned(m) \in {0, 21, 35}
         /\ ModulesEarned(m) \in {0, 15, 25}
  BY Earnings

LEMMA CoreIsOf95 ==
  ASSUME NEW m \in Integration
  PROVE  CorePoints(m) \in 0 .. 95
  BY PartsEarned DEF CorePoints

\* Out of 100 the share is the number itself.
LEMMA OutOf100 ==
  ASSUME NEW e \in 0 .. 100
  PROVE  (200 * e + 100) \div 200 = e
  OBVIOUS

\* Out of 95 it lies between the number and the number with the package's five added,
\* and is whole only of a whole.
LEMMA OutOf95Between ==
  ASSUME NEW e \in 0 .. 95
  PROVE  OutOf95(e) \in e .. e + 5
  BY DEF OutOf95

LEMMA OutOf95Whole ==
  ASSUME NEW e \in 0 .. 95
  PROVE  OutOf95(e) = 100 <=> e = 95
  BY DEF OutOf95

LEMMA OutOf95Low ==
  ASSUME NEW e \in 0 .. 60
  PROVE  OutOf95(e) < 70
  BY DEF OutOf95

LEMMA OutOf95Grows ==
  ASSUME NEW e \in 0 .. 95, NEW f \in 0 .. 95, e <= f
  PROVE  OutOf95(e) <= OutOf95(f)
  BY DEF OutOf95

\* The score by whether the package counts and is there.
LEMMA ScoreWithPackage ==
  ASSUME NEW m \in Integration, m.provided
  PROVE  integrationScore(m) = CorePoints(m) + 5
<1> DEFINE e == CorePoints(m) + 5
<1>1. integrationScore(m) = (200 * (CorePoints(m) + 5) + 100) \div 200
  <2>1. integrationScore(m) = (200 * (CorePoints(m) + 5) + (35 + 35 + 25 + 5))
                                \div (2 * (35 + 35 + 25 + 5))
    BY Weights, Zenon DEF integrationScore, CorePoints
  <2> QED BY <2>1
<1>2. e \in 0 .. 100
  BY CoreIsOf95
<1> QED BY <1>1, <1>2, OutOf100

LEMMA ScoreLacksPackage ==
  ASSUME NEW m \in Integration, ~ m.provided, m.imported
  PROVE  integrationScore(m) = CorePoints(m)
<1>1. integrationScore(m) = (200 * CorePoints(m) + 100) \div 200
  <2>1. integrationScore(m) = (200 * (CorePoints(m) + 0) + (35 + 35 + 25 + 5))
                                \div (2 * (35 + 35 + 25 + 5))
    BY Weights, Zenon DEF integrationScore, CorePoints
  <2>2. CorePoints(m) + 0 = CorePoints(m)
    BY CoreIsOf95
  <2> QED BY <2>1, <2>2
<1>2. CorePoints(m) \in 0 .. 100
  BY CoreIsOf95
<1> QED BY <1>1, <1>2, OutOf100

LEMMA ScoreNeedsNoPackage ==
  ASSUME NEW m \in Integration, ~ m.provided, ~ m.imported
  PROVE  integrationScore(m) = OutOf95(CorePoints(m))
<1>1. integrationScore(m) = (200 * (CorePoints(m) + 0) + (35 + 35 + 25 + 0))
                              \div (2 * (35 + 35 + 25 + 0))
  BY Weights, Zenon DEF integrationScore, CorePoints
<1>2. CorePoints(m) + 0 = CorePoints(m)
  BY CoreIsOf95
<1> QED BY <1>1, <1>2 DEF OutOf95

\* The header of integrationScore.js, for any number of findings, tests and modules: a
\* score is a percentage, and 100 is the score of a flawless system only, with a shared
\* package or without one.
THEOREM OnlyTheFlawlessIsHundred ==
  ASSUME NEW m \in Integration
  PROVE  /\ integrationScore(m) \in 0 .. 100
         /\ integrationScore(m) = 100 <=> Flawless(m)
<1>1. /\ m.lintRan \in BOOLEAN /\ m.errors \in Nat /\ m.warnings \in Nat
      /\ m.total \in Nat /\ m.pass \in Nat /\ m.pass <= m.total
      /\ m.provided \in BOOLEAN /\ m.imported \in BOOLEAN
  BY DEF Integration
<1>2. CorePoints(m) = 95 <=> LintEarned(m) = 35 /\ TbEarned(m) = 35 /\ ModulesEarned(m) = 25
  BY PartsEarned DEF CorePoints
<1>3. LintEarned(m) = 35 <=> m.lintRan /\ m.errors = 0 /\ m.warnings = 0
  BY <1>1, Earnings
<1>4. TbEarned(m) = 35 <=> m.total > 0 /\ m.pass = m.total
  BY <1>1, Earnings
<1>5. ModulesEarned(m) = 25 <=> AllJudged(m)
  BY Earnings
<1>6. Flawless(m) <=> CorePoints(m) = 95 /\ (m.imported => m.provided)
  BY <1>2, <1>3, <1>4, <1>5 DEF Flawless
<1>7. CorePoints(m) \in 0 .. 95
  BY CoreIsOf95
<1>8. CASE m.provided
  <2>1. integrationScore(m) = CorePoints(m) + 5
    BY <1>8, ScoreWithPackage
  <2> QED BY <1>6, <1>7, <1>8, <2>1
<1>9. CASE ~ m.provided /\ m.imported
  <2>1. integrationScore(m) = CorePoints(m)
    BY <1>9, ScoreLacksPackage
  <2> QED BY <1>6, <1>7, <1>9, <2>1
<1>10. CASE ~ m.provided /\ ~ m.imported
  <2>1. integrationScore(m) = OutOf95(CorePoints(m))
    BY <1>10, ScoreNeedsNoPackage
  <2>2. OutOf95(CorePoints(m)) = 100 <=> CorePoints(m) = 95
    BY <1>7, OutOf95Whole
  <2>3. OutOf95(CorePoints(m)) \in 0 .. 100
    <3>1. OutOf95(CorePoints(m)) \in CorePoints(m) .. CorePoints(m) + 5
      BY <1>7, OutOf95Between
    <3> QED BY <1>7, <3>1
  <2> QED BY <1>6, <1>10, <2>1, <2>2, <2>3
<1> QED BY <1>8, <1>9, <1>10

\* scoreIntegration passes no system of which less than four fifths of the tests pass,
\* however many there are: the other weights never reach 70.
THEOREM PassTakesTheSystemTests ==
  ASSUME NEW m \in Integration, integrationOverall(m) = "PASS"
  PROVE  m.total > 0 /\ 5 * m.pass >= 4 * m.total
<1>1. integrationScore(m) >= 70
  BY DEF integrationOverall
<1>2. m.total \in Nat /\ m.pass \in Nat
  BY DEF Integration
<1>3. TbEarned(m) # 0
  <2>1. SUFFICES ASSUME TbEarned(m) = 0  PROVE FALSE
    OBVIOUS
  <2>2. CorePoints(m) \in 0 .. 60
    BY <2>1, PartsEarned DEF CorePoints
  <2>3. CASE m.provided
    <3>1. integrationScore(m) = CorePoints(m) + 5
      BY <2>3, ScoreWithPackage
    <3> QED BY <1>1, <2>2, <3>1
  <2>4. CASE ~ m.provided /\ m.imported
    <3>1. integrationScore(m) = CorePoints(m)
      BY <2>4, ScoreLacksPackage
    <3> QED BY <1>1, <2>2, <3>1
  <2>5. CASE ~ m.provided /\ ~ m.imported
    <3>1. integrationScore(m) = OutOf95(CorePoints(m))
      BY <2>5, ScoreNeedsNoPackage
    <3>2. OutOf95(CorePoints(m)) < 70
      BY <2>2, OutOf95Low
    <3>3. integrationScore(m) \in Int
      BY OnlyTheFlawlessIsHundred
    <3> QED BY <1>1, <3>1, <3>2, <3>3
  <2> QED BY <2>3, <2>4, <2>5
<1> QED BY <1>2, <1>3, Earnings

\* A system that is as good in every respect scores as high, and passes if the other does,
\* though a package the design did not need changes what the points are a share of.
THEOREM ImprovementsCostNothing ==
  ASSUME NEW m \in Integration, NEW n \in Integration, NoWorse(n, m)
  PROVE  CostsNothing(n, m)
<1>1. /\ m.lintRan \in BOOLEAN /\ m.errors \in Nat /\ m.warnings \in Nat
      /\ m.total \in Nat /\ m.pass \in Nat /\ m.pass <= m.total
      /\ m.provided \in BOOLEAN /\ m.imported \in BOOLEAN
      /\ \A j \in m.judges : j.score \in Int
  BY DEF Integration
<1>2. /\ n.lintRan \in BOOLEAN /\ n.errors \in Nat /\ n.warnings \in Nat
      /\ n.total \in Nat /\ n.pass \in Nat /\ n.pass <= n.total
      /\ n.provided \in BOOLEAN /\ n.imported \in BOOLEAN
      /\ \A j \in n.judges : j.score \in Int
  BY DEF Integration
<1>3. LintEarned(m) <= LintEarned(n)
  <2>1. /\ m.lintRan => n.lintRan
        /\ n.errors <= m.errors /\ n.warnings <= m.warnings
    BY DEF NoWorse
  <2> QED BY <1>1, <1>2, <2>1, Earnings
<1>4. TbEarned(m) <= TbEarned(n)
  <2>1. n.total = m.total /\ n.pass >= m.pass
    BY DEF NoWorse
  <2> QED BY <1>1, <1>2, <2>1, Earnings
<1>5. AllJudged(m) => AllJudged(n)
  BY DEF NoWorse, AllJudged
<1>6. ModulesEarned(m) <= ModulesEarned(n)
  <2>1. ASSUME m.judges # {}, \A j \in m.judges : j.score >= 70
        PROVE  n.judges # {} /\ \A k \in n.judges : k.score >= 70
    BY <2>1, <1>1, <1>2 DEF NoWorse
  <2> QED BY <1>5, <2>1, Earnings
<1>7. CorePoints(m) \in 0 .. 95 /\ CorePoints(n) \in 0 .. 95
  BY CoreIsOf95
<1>8. CorePoints(m) <= CorePoints(n)
  BY <1>3, <1>4, <1>6, PartsEarned DEF CorePoints
<1>9. (m.provided => n.provided) /\ n.imported = m.imported
  BY DEF NoWorse
<1>10. integrationScore(m) <= integrationScore(n)
  <2>1. CASE m.provided
    <3>1. /\ integrationScore(m) = CorePoints(m) + 5
          /\ integrationScore(n) = CorePoints(n) + 5
      BY <2>1, <1>9, ScoreWithPackage
    <3> QED BY <1>7, <1>8, <3>1
  <2>2. CASE ~ m.provided /\ m.imported
    <3>1. integrationScore(m) = CorePoints(m)
      BY <2>2, ScoreLacksPackage
    <3>2. CASE n.provided
      <4>1. integrationScore(n) = CorePoints(n) + 5
        BY <3>2, ScoreWithPackage
      <4> QED BY <1>7, <1>8, <3>1, <4>1
    <3>3. CASE ~ n.provided
      <4>1. integrationScore(n) = CorePoints(n)
        BY <2>2, <3>3, <1>9, ScoreLacksPackage
      <4> QED BY <1>7, <1>8, <3>1, <4>1
    <3> QED BY <3>2, <3>3
  <2>3. CASE ~ m.provided /\ ~ m.imported
    <3>1. integrationScore(m) = OutOf95(CorePoints(m))
      BY <2>3, ScoreNeedsNoPackage
    <3>2. CASE n.provided
      <4>1. integrationScore(n) = CorePoints(n) + 5
        BY <3>2, ScoreWithPackage
      <4>2. OutOf95(CorePoints(m)) \in CorePoints(m) .. CorePoints(m) + 5
        BY <1>7, OutOf95Between
      <4> QED BY <1>7, <1>8, <3>1, <4>1, <4>2
    <3>3. CASE ~ n.provided
      <4>1. integrationScore(n) = OutOf95(CorePoints(n))
        BY <2>3, <3>3, <1>9, ScoreNeedsNoPackage
      <4>2. OutOf95(CorePoints(m)) <= OutOf95(CorePoints(n))
        BY <1>7, <1>8, OutOf95Grows
      <4> QED BY <3>1, <4>1, <4>2
    <3> QED BY <3>2, <3>3
  <2> QED BY <2>1, <2>2, <2>3
<1>11. integrationScore(m) \in Int /\ integrationScore(n) \in Int
  BY OnlyTheFlawlessIsHundred
<1>12. ASSUME integrationOverall(m) = "PASS"
       PROVE  integrationOverall(n) = "PASS"
  <2>1. integrationScore(m) >= 70 /\ m.lintRan /\ m.errors = 0 /\ AllJudged(m)
    BY <1>12 DEF integrationOverall
  <2>2. n.lintRan /\ n.errors = 0
    <3>1. (m.lintRan => n.lintRan) /\ n.errors <= m.errors
      BY DEF NoWorse
    <3> QED BY <1>2, <2>1, <3>1
  <2>3. integrationScore(n) >= 70
    BY <1>10, <1>11, <2>1
  <2> QED BY <1>5, <2>1, <2>2, <2>3 DEF integrationOverall
<1> QED BY <1>10, <1>11, <1>12 DEF CostsNothing

----
\* The verdict on a candidate's tests.

\* The parts of a ledger are finite.
LEMMA LedgerIsFinite ==
  ASSUME NEW b, NEW c, NEW markers,
         IsFiniteSet(DOMAIN b), IsFiniteSet(DOMAIN c)
  PROVE  LET l == TestLedger(b, c, markers) IN
         /\ IsFiniteSet(l.resolved) /\ IsFiniteSet(l.introduced)
         /\ IsFiniteSet(l.revealed) /\ IsFiniteSet(l.dropped)
<1> DEFINE l == TestLedger(b, c, markers)
<1>1. /\ l.resolved \subseteq DOMAIN b /\ l.introduced \subseteq DOMAIN b
      /\ l.revealed \subseteq DOMAIN c /\ l.dropped \subseteq DOMAIN b
  BY DEF TestLedger
<1> HIDE DEF l
<1>2. /\ IsFiniteSet(l.resolved) /\ IsFiniteSet(l.introduced)
      /\ IsFiniteSet(l.revealed) /\ IsFiniteSet(l.dropped)
  BY <1>1, FS_Subset
<1> QED BY <1>2 DEF l

\* What an acceptance weighs, by the sizes of the ledger's parts.
LEMMA AcceptedWeighs ==
  ASSUME NEW b, NEW c, NEW markers,
         IsFiniteSet(DOMAIN b), IsFiniteSet(DOMAIN c),
         classifyTestResults(b, c, markers) \in Accepting
  PROVE  LET l == TestLedger(b, c, markers) IN
         /\ \A t \in DOMAIN c : t \in markers => c[t] # "FAIL"
         /\ Cardinality(l.introduced) + Cardinality(l.dropped) <= Cardinality(l.resolved)
<1> DEFINE l == TestLedger(b, c, markers)
           up == Cardinality(l.resolved)
           new == Cardinality(l.introduced)
           seen == Cardinality(l.revealed)
           gone == Cardinality(l.dropped)
           worse == l.introduced \cup l.dropped # {}
           score == 3 * up - seen - 5 * new - 3 * gone
<1>1. up \in Nat /\ new \in Nat /\ seen \in Nat /\ gone \in Nat
  BY LedgerIsFinite, FS_CardinalityType
<1>2. ~ worse => new = 0 /\ gone = 0
  <2>1. ~ worse => l.introduced = {} /\ l.dropped = {}
    OBVIOUS
  <2> QED BY <2>1, FS_EmptySet
<1>3. classifyTestResults(b, c, markers) =
        IF \E t \in DOMAIN c : t \in markers /\ c[t] = "FAIL" THEN "REJECT_COMPILE_FAIL"
        ELSE IF up = 0 /\ worse THEN "REJECT_REGRESSION"
        ELSE IF up > 0 /\ (~ worse \/ score > 0) THEN "ACCEPT_PROGRESS"
        ELSE IF up = 0
        THEN IF l.revealed = {} THEN "ACCEPT_EQUIVALENT" ELSE "REJECT_NO_IMPROVEMENT"
        ELSE IF score >= 0 THEN "ACCEPT_EQUIVALENT" ELSE "REJECT_REGRESSION"
  BY DEF classifyTestResults
<1> HIDE DEF l, up, new, seen, gone, worse
<1>4. /\ ~ \E t \in DOMAIN c : t \in markers /\ c[t] = "FAIL"
      /\ ~ (up = 0 /\ worse)
      /\ ~ worse \/ score >= 0
  BY <1>1, <1>3 DEF Accepting
<1>5. new + gone <= up
  BY <1>1, <1>2, <1>4
<1> QED BY <1>4, <1>5 DEF l, up, new, gone

\* A finite suite has finitely many requirements.
LEMMA ReqsAreFinite ==
  ASSUME NEW suite, IsFiniteSet(DOMAIN suite)
  PROVE  IsFiniteSet(DOMAIN aggregateByReq(suite))
<1> DEFINE T == {t.req : t \in DOMAIN suite}
           f == [t \in DOMAIN suite |-> t.req]
<1>1. f \in Surjection(DOMAIN suite, T)
  BY DEF Surjection
<1>2. IsFiniteSet(T)
  <2> HIDE DEF f, T
  <2> QED BY <1>1, FS_Surjection
<1> QED BY <1>2 DEF aggregateByReq

\* A failing check fails its requirement.
LEMMA FailureShows ==
  ASSUME NEW suite, NEW t \in DOMAIN suite, suite[t] = "FAIL"
  PROVE  t.req \in DOMAIN aggregateByReq(suite) /\ aggregateByReq(suite)[t.req] = "FAIL"
<1> DEFINE got == {suite[v] : v \in {u \in DOMAIN suite : u.req = t.req}}
<1>1. "FAIL" \in got
  OBVIOUS
<1> QED BY <1>1 DEF aggregateByReq

\* classifyTestResultsByReq accepts, of any two finite suites, only a candidate that
\* compiles and resolves as many requirements as it breaks and drops: no number of
\* deleted failing checks is progress.
THEOREM AcceptedGoesForward ==
  ASSUME NEW b, NEW c, IsFiniteSet(DOMAIN b), IsFiniteSet(DOMAIN c),
         classifyTestResultsByReq(b, c) \in Accepting
  PROVE  GoesForward(b, c)
<1> DEFINE B == aggregateByReq(b)
           C == aggregateByReq(c)
<1>1. IsFiniteSet(DOMAIN B) /\ IsFiniteSet(DOMAIN C)
  BY ReqsAreFinite
<1>2. classifyTestResults(B, C, {CompileMarker}) \in Accepting
  BY DEF classifyTestResultsByReq
<1>3. LET l == TestLedger(B, C, {CompileMarker}) IN
      /\ \A r \in DOMAIN C : r \in {CompileMarker} => C[r] # "FAIL"
      /\ Cardinality(l.introduced) + Cardinality(l.dropped) <= Cardinality(l.resolved)
  <2> HIDE DEF B, C
  <2> QED BY <1>1, <1>2, AcceptedWeighs
<1>4. \A t \in DOMAIN c : t.req = CompileMarker => c[t] # "FAIL"
  BY <1>3, FailureShows
<1> QED BY <1>3, <1>4 DEF GoesForward

\* The comment on classifyTestResultsByReq, for any suites: checks renumbered without a
\* change of their requirements' verdicts are neither progress nor a regression.
THEOREM RenumberingChangesNothing ==
  ASSUME NEW b, NEW c, aggregateByReq(b) = aggregateByReq(c)
  PROVE  classifyTestResultsByReq(b, c) \in {"ACCEPT_EQUIVALENT", "REJECT_COMPILE_FAIL"}
<1> DEFINE B == aggregateByReq(b)
           l == TestLedger(B, B, {CompileMarker})
<1>1. l.resolved = {} /\ l.introduced = {} /\ l.revealed = {} /\ l.dropped = {}
  <2> HIDE DEF B
  <2> QED BY DEF TestLedger
<1>2. Cardinality(l.resolved) = 0
  BY <1>1, FS_EmptySet
<1>3. classifyTestResults(B, B, {CompileMarker}) \in {"ACCEPT_EQUIVALENT", "REJECT_COMPILE_FAIL"}
  <2> HIDE DEF B
  <2> QED BY <1>1, <1>2 DEF classifyTestResults
<1> QED BY <1>3 DEF classifyTestResultsByReq

----
\* The replacement guard.

\* A suite whose checks have names of their own counts one pass a name.
LEMMA OnePassAName ==
  ASSUME NEW Checkers, NEW Names, NEW m \in TestRun(Checkers, Names), Alignable(m)
  PROVE  /\ IsFiniteSet(passedCheckIds(m))
         /\ Cardinality(passedCheckIds(m)) = passCount(m)
<1> DEFINE I == {i \in DOMAIN m.tests : m.tests[i].st = "PASS"}
           P == passedCheckIds(m)
           f == [i \in I |-> m.tests[i].name]
<1>1. m.tests \in Seq([name: Names, st: {"PASS", "FAIL", "UNSUPPORTED"}])
  BY DEF TestRun
<1>2. DOMAIN m.tests = 1 .. Len(m.tests) /\ Len(m.tests) \in Nat
  BY <1>1
<1>3. IsFiniteSet(I)
  <2>1. IsFiniteSet(1 .. Len(m.tests))
    BY <1>2, FS_Interval
  <2> QED BY <2>1, <1>2, FS_Subset
<1>4. \A i, j \in DOMAIN m.tests : m.tests[i].name = m.tests[j].name => i = j
  BY DEF Alignable, IsInjective, NamesOf
<1>5. \A i \in DOMAIN m.tests : m.tests[i].name # Unnamed
  <2>1. Len(NamesOf(m.tests)) = Len(m.tests)
    BY <1>2 DEF NamesOf
  <2> QED BY <1>2, <2>1 DEF Alignable, Contains, NamesOf
<1>6. \A i \in I : f[i] \in P
  BY <1>4, <1>5 DEF passedCheckIds, ToSet
<1>7. \A n \in P : \E i \in I : f[i] = n
  BY DEF passedCheckIds, ToSet
<1>8. f \in Surjection(I, P)
  <2>1. f \in [I -> P]
    <3> HIDE DEF I, P
    <3> QED BY <1>6
  <2> QED BY <2>1, <1>7 DEF Surjection
<1>9. f \in Injection(I, P)
  <2>1. f \in [I -> P]
    BY <1>8 DEF Surjection
  <2>2. \A i, j \in I : f[i] = f[j] => i = j
    BY <1>4
  <2> QED BY <2>1, <2>2 DEF Injection, IsInjective
<1>10. IsFiniteSet(P) /\ Cardinality(P) = Cardinality(I)
  <2> HIDE DEF I, P, f
  <2> QED BY <1>3, <1>8, <1>9, FS_Surjection
<1> QED BY <1>10 DEF passCount

\* The replacement guard (createReviewAcceptance, selectCommonCheckerCandidate) adopts only
\* strict progress, for results of any number, name and order: a pass more, counted,
\* is a named check more, because both suites give each check a name of its own.
THEOREM AdoptionProgresses ==
  ASSUME NEW Checkers, NEW Names, NEW recovery \in BOOLEAN,
         NEW new \in TestRun(Checkers, Names), NEW old \in TestRun(Checkers, Names),
         Adopts(new, old, recovery)
  PROVE  StrictProgress(new, old)
<1>1. selectCommonCheckerCandidate(new, old) = "ACCEPT_IMPROVEMENT"
  BY DEF Adopts
<1>2. \A m \in TestRun(Checkers, Names) : outcomeStatus(m) \in
        {"TIMEOUT", "ERROR", "UNVERIFIED", "COMPILE_FAIL", "MEASURED"}
  BY DEF TestRun, RunStatuses, outcomeStatus
<1>3. new.qualified /\ old.qualified
  BY <1>1 DEF TestRun, selectCommonCheckerCandidate
<1>4. /\ sameChecker(new, old) /\ outcomeStatus(new) = "MEASURED"
      /\ outcomeStatus(old) = "MEASURED" =>
           /\ SameUniverse(new, old) /\ retainsPassedChecks(new, old)
           /\ passCount(new) # passCount(old) /\ ~ (passCount(new) < passCount(old))
  <2>1. outcomeStatus(new) \in {"TIMEOUT", "ERROR", "UNVERIFIED", "COMPILE_FAIL", "MEASURED"}
    BY <1>2
  <2>2. "ACCEPT_IMPROVEMENT" =
          IF ~ sameChecker(new, old) THEN "CHECKER_MISMATCH"
          ELSE IF outcomeStatus(new) # "MEASURED" THEN outcomeStatus(new)
          ELSE IF outcomeStatus(old) # "MEASURED" THEN "ACCEPT_IMPROVEMENT"
          ELSE IF ~ SameUniverse(new, old) THEN "CHECK_UNIVERSE_MISMATCH"
          ELSE IF ~ retainsPassedChecks(new, old) THEN "PASSED_CHECK_REGRESSION"
          ELSE IF passCount(new) = passCount(old) THEN "TIE"
          ELSE IF passCount(new) < passCount(old) THEN "NO_STRICT_IMPROVEMENT"
          ELSE "ACCEPT_IMPROVEMENT"
    BY <1>1, <1>3 DEF selectCommonCheckerCandidate
  <2> QED BY <2>1, <2>2
<1>5. new.cli /\ new.tests # <<>> /\ ~ hasCompileFailure(new.tests)
  BY <1>4 DEF TestRun, RunStatuses, outcomeStatus
<1>6. outcomeStatus(old) \in {"MEASURED", "COMPILE_FAIL"}
  BY DEF Adopts, TestRun, outcomeStatus
<1>7. ASSUME outcomeStatus(old) = "MEASURED"
      PROVE  /\ IsInjective(NamesOf(new.tests))
             /\ ToSet(NamesOf(new.tests)) = ToSet(NamesOf(old.tests))
             /\ passedCheckIds(old) \subseteq passedCheckIds(new)
             /\ passedCheckIds(old) # passedCheckIds(new)
  <2>1. Alignable(new) /\ Alignable(old) /\ ToSet(NamesOf(new.tests)) = ToSet(NamesOf(old.tests))
    BY <1>4, <1>7 DEF SameUniverse
  <2>2. /\ Cardinality(passedCheckIds(new)) = passCount(new)
        /\ Cardinality(passedCheckIds(old)) = passCount(old)
    BY <2>1, OnePassAName
  <2> QED BY <1>4, <1>7, <2>1, <2>2 DEF Alignable, retainsPassedChecks
<1> QED BY <1>3, <1>4, <1>5, <1>6, <1>7 DEF sameChecker, StrictProgress

----
\* The draws of a best-of-n and their ranking (bestOfN).

\* What a draw leaves in the pool.
Drawing == [index: Nat, lint: Lint]

LEMMA LintIs ==
  ASSUME NEW x \in Lint
  PROVE  \/ x = Unlinted
         \/ /\ x # Unlinted /\ x.compiles \in BOOLEAN
            /\ x.errors \in Nat /\ x.warnings \in Nat
<1>1. CASE x = Unlinted
  BY <1>1
<1>2. CASE \E z \in Int, e \in Nat, w \in Nat : x = LintOf(z, e, w)
  <2>1. PICK z \in Int, e \in Nat, w \in Nat : x = LintOf(z, e, w)
    BY <1>2
  <2>2. /\ x = [compiles |-> z = 0 /\ e = 0, errors |-> e, warnings |-> w]
        /\ DOMAIN x = {"compiles", "errors", "warnings"}
    BY <2>1 DEF LintOf
  <2>3. x.errors = e /\ x.warnings = w /\ x.compiles \in BOOLEAN
    BY <2>2
  <2>4. DOMAIN Unlinted = {"unlinted"}
    BY DEF Unlinted
  <2>5. "errors" \in DOMAIN x /\ "errors" \notin DOMAIN Unlinted
    BY <2>2, <2>4
  <2>6. x # Unlinted
    BY <2>5, Zenon
  <2> QED BY <2>3, <2>6
<1> QED BY <1>1, <1>2 DEF Lint

\* The lexicographic order of the criteria, written out.
LEMMA PrecedesIs ==
  ASSUME NEW s, NEW t, DOMAIN s = 1 .. 5
  PROVE  Precedes(s, t) <=>
           \/ s[1] < t[1]
           \/ s[1] = t[1] /\ s[2] < t[2]
           \/ s[1] = t[1] /\ s[2] = t[2] /\ s[3] < t[3]
           \/ s[1] = t[1] /\ s[2] = t[2] /\ s[3] = t[3] /\ s[4] < t[4]
           \/ s[1] = t[1] /\ s[2] = t[2] /\ s[3] = t[3] /\ s[4] = t[4] /\ s[5] < t[5]
<1> DEFINE At(i) == s[i] < t[i] /\ \A j \in 1 .. (i - 1) : s[j] = t[j]
<1>1. At(1) <=> s[1] < t[1]
  OBVIOUS
<1>2. At(2) <=> s[1] = t[1] /\ s[2] < t[2]
  <2>1. \A j : j \in 1 .. (2 - 1) <=> j = 1
    OBVIOUS
  <2> QED BY <2>1
<1>3. At(3) <=> s[1] = t[1] /\ s[2] = t[2] /\ s[3] < t[3]
  <2>1. \A j : j \in 1 .. (3 - 1) <=> j = 1 \/ j = 2
    OBVIOUS
  <2> QED BY <2>1
<1>4. At(4) <=> s[1] = t[1] /\ s[2] = t[2] /\ s[3] = t[3] /\ s[4] < t[4]
  <2>1. \A j : j \in 1 .. (4 - 1) <=> j = 1 \/ j = 2 \/ j = 3
    OBVIOUS
  <2> QED BY <2>1
<1>5. At(5) <=> s[1] = t[1] /\ s[2] = t[2] /\ s[3] = t[3] /\ s[4] = t[4] /\ s[5] < t[5]
  <2>1. \A j : j \in 1 .. (5 - 1) <=> j = 1 \/ j = 2 \/ j = 3 \/ j = 4
    OBVIOUS
  <2> QED BY <2>1
<1> HIDE DEF At
<1>6. Precedes(s, t) <=> \E i \in 1 .. 5 : At(i)
  BY DEF Precedes, At
<1>7. \A i : i \in 1 .. 5 <=> i = 1 \/ i = 2 \/ i = 3 \/ i = 4 \/ i = 5
  OBVIOUS
<1>8. Precedes(s, t) <=> At(1) \/ At(2) \/ At(3) \/ At(4) \/ At(5)
  BY <1>6, <1>7
<1> QED BY <1>1, <1>2, <1>3, <1>4, <1>5, <1>8

\* The key of a drawing.
LEMMA KeyIs ==
  ASSUME NEW c \in Drawing, NEW key, key = RankKey(c)
  PROVE  /\ DOMAIN key = 1 .. 5 /\ key[5] = c.index
         /\ key[1] \in Int /\ key[2] \in Int /\ key[3] \in Int /\ key[4] \in Int
         /\ IF c.lint = Unlinted
            THEN key[1] = 1 /\ key[2] = 1 /\ key[3] = 0 /\ key[4] = 0
            ELSE /\ key[1] = IF c.lint.compiles THEN 0 ELSE 1
                 /\ key[2] = 0 /\ key[3] = c.lint.errors /\ key[4] = c.lint.warnings
<1>1. c.lint \in Lint
  BY DEF Drawing
<1>2. CASE c.lint = Unlinted
  BY <1>2 DEF RankKey
<1>3. CASE c.lint # Unlinted
  <2>1. key = <<IF c.lint.compiles THEN 0 ELSE 1, 0, c.lint.errors, c.lint.warnings,
                c.index>>
    BY <1>3 DEF RankKey
  <2>2. c.lint.errors \in Nat /\ c.lint.warnings \in Nat
    BY <1>1, <1>3, LintIs
  <2> QED BY <1>3, <2>1, <2>2
<1> QED BY <1>2, <1>3

\* The comparator: the cleaner lint first, and of two that are alike the earlier draw.
LEMMA ComparatorIs ==
  ASSUME NEW c \in Drawing, NEW d \in Drawing
  PROVE  Precedes(RankKey(c), RankKey(d)) <=>
           \/ CleanerLint(c.lint, d.lint)
           \/ ~ CleanerLint(d.lint, c.lint) /\ c.index < d.index
<1>1. /\ c.index \in Nat /\ d.index \in Nat /\ c.lint \in Lint /\ d.lint \in Lint
  BY DEF Drawing
<1> DEFINE s == RankKey(c)
           t == RankKey(d)
<1> HIDE DEF s, t
<1>2. Precedes(s, t) <=>
        \/ s[1] < t[1]
        \/ s[1] = t[1] /\ s[2] < t[2]
        \/ s[1] = t[1] /\ s[2] = t[2] /\ s[3] < t[3]
        \/ s[1] = t[1] /\ s[2] = t[2] /\ s[3] = t[3] /\ s[4] < t[4]
        \/ s[1] = t[1] /\ s[2] = t[2] /\ s[3] = t[3] /\ s[4] = t[4] /\ s[5] < t[5]
  <2>1. DOMAIN s = 1 .. 5
    BY KeyIs DEF s
  <2> QED BY <2>1, PrecedesIs
<1>3. /\ s[5] = c.index
      /\ s[1] \in Int /\ s[2] \in Int /\ s[3] \in Int /\ s[4] \in Int
      /\ IF c.lint = Unlinted
         THEN s[1] = 1 /\ s[2] = 1 /\ s[3] = 0 /\ s[4] = 0
         ELSE /\ s[1] = IF c.lint.compiles THEN 0 ELSE 1
              /\ s[2] = 0 /\ s[3] = c.lint.errors /\ s[4] = c.lint.warnings
  BY KeyIs DEF s
<1>4. /\ t[5] = d.index
      /\ t[1] \in Int /\ t[2] \in Int /\ t[3] \in Int /\ t[4] \in Int
      /\ IF d.lint = Unlinted
         THEN t[1] = 1 /\ t[2] = 1 /\ t[3] = 0 /\ t[4] = 0
         ELSE /\ t[1] = IF d.lint.compiles THEN 0 ELSE 1
              /\ t[2] = 0 /\ t[3] = d.lint.errors /\ t[4] = d.lint.warnings
  BY KeyIs DEF t
<1>5. CASE c.lint = Unlinted /\ d.lint = Unlinted
  BY <1>2, <1>3, <1>4, <1>5 DEF CleanerLint, s, t
<1>6. CASE c.lint = Unlinted /\ d.lint # Unlinted
  <2>1. ~ (s[1] < t[1]) /\ ~ (s[2] <= t[2])
    BY <1>3, <1>4, <1>6
  <2>2. ~ Precedes(s, t)
    BY <1>2, <1>3, <1>4, <2>1
  <2> QED BY <1>6, <2>2 DEF CleanerLint, s, t
<1>7. CASE c.lint # Unlinted /\ d.lint = Unlinted
  <2>1. s[1] < t[1] \/ (s[1] = t[1] /\ s[2] < t[2])
    BY <1>3, <1>4, <1>7
  <2>2. Precedes(s, t)
    BY <1>2, <2>1
  <2> QED BY <1>7, <2>2 DEF CleanerLint, s, t
<1>8. CASE c.lint # Unlinted /\ d.lint # Unlinted
  <2>1. /\ c.lint.errors \in Nat /\ c.lint.warnings \in Nat /\ c.lint.compiles \in BOOLEAN
        /\ d.lint.errors \in Nat /\ d.lint.warnings \in Nat /\ d.lint.compiles \in BOOLEAN
    BY <1>1, <1>8, LintIs
  <2>2. /\ s[1] < t[1] <=> c.lint.compiles /\ ~ d.lint.compiles
        /\ t[1] < s[1] <=> d.lint.compiles /\ ~ c.lint.compiles
        /\ s[1] = t[1] <=> c.lint.compiles = d.lint.compiles
    BY <1>3, <1>4, <1>8, <2>1
  <2>3. CleanerLint(c.lint, d.lint) <=>
          \/ s[1] < t[1]
          \/ s[1] = t[1] /\ (s[3] < t[3] \/ (s[3] = t[3] /\ s[4] < t[4]))
    BY <1>3, <1>4, <1>8, <2>2 DEF CleanerLint
  <2>4. CleanerLint(d.lint, c.lint) <=>
          \/ t[1] < s[1]
          \/ s[1] = t[1] /\ (t[3] < s[3] \/ (s[3] = t[3] /\ t[4] < s[4]))
    BY <1>3, <1>4, <1>8, <2>2 DEF CleanerLint
  <2>5. s[2] = t[2] /\ s[5] = c.index /\ t[5] = d.index
    BY <1>3, <1>4, <1>8
  <2>6. Precedes(s, t) <=>
          \/ CleanerLint(c.lint, d.lint)
          \/ ~ CleanerLint(d.lint, c.lint) /\ c.index < d.index
    BY <1>1, <1>2, <1>3, <1>4, <2>3, <2>4, <2>5
  <2> QED BY <2>6 DEF s, t
<1> QED BY <1>5, <1>6, <1>7, <1>8 DEF s, t

\* It orders drawings of different indices.
Before(c, d) == Precedes(RankKey(c), RankKey(d))

LEMMA BeforeIsAnOrder ==
  ASSUME NEW c \in Drawing, NEW d \in Drawing, NEW e \in Drawing
  PROVE  /\ ~ (Before(c, d) /\ Before(d, c))
         /\ c.index # d.index => Before(c, d) \/ Before(d, c)
         /\ Before(c, d) /\ Before(d, e) => Before(c, e)
<1>1. /\ c.index \in Nat /\ d.index \in Nat /\ e.index \in Nat
      /\ c.lint \in Lint /\ d.lint \in Lint /\ e.lint \in Lint
  BY DEF Drawing
<1>2. \A x, y \in Lint : ~ (CleanerLint(x, y) /\ CleanerLint(y, x))
  BY LintIs DEF CleanerLint
<1>3. \A x, y, z \in Lint : CleanerLint(x, y) /\ CleanerLint(y, z) => CleanerLint(x, z)
  BY LintIs DEF CleanerLint
<1>4. \A x, y, z \in Lint : CleanerLint(x, z) => CleanerLint(x, y) \/ CleanerLint(y, z)
  BY LintIs DEF CleanerLint
<1>5. \A p, q \in {c, d, e} :
        Before(p, q) <=> \/ CleanerLint(p.lint, q.lint)
                         \/ ~ CleanerLint(q.lint, p.lint) /\ p.index < q.index
  BY ComparatorIs DEF Before
<1> QED BY <1>1, <1>2, <1>3, <1>4, <1>5

\* A pool: the drawings in the order of their draws.
Pooled(pool) ==
  /\ pool \in Seq(Drawing)
  /\ \A i, k \in DOMAIN pool : i < k => pool[i].index < pool[k].index

LEMMA PoolIsOrdered ==
  ASSUME NEW pool, Pooled(pool)
  PROVE  /\ DOMAIN pool = 1 .. Len(pool) /\ Len(pool) \in Nat
         /\ \A i \in DOMAIN pool : pool[i] \in Drawing
         /\ \A i, k \in DOMAIN pool :
              /\ ~ (Before(pool[i], pool[k]) /\ Before(pool[k], pool[i]))
              /\ i # k => Before(pool[i], pool[k]) \/ Before(pool[k], pool[i])
         /\ \A i, k, m \in DOMAIN pool :
              Before(pool[i], pool[k]) /\ Before(pool[k], pool[m]) => Before(pool[i], pool[m])
<1>1. DOMAIN pool = 1 .. Len(pool) /\ Len(pool) \in Nat
        /\ \A i \in DOMAIN pool : pool[i] \in Drawing
  BY DEF Pooled
<1>2. ASSUME NEW i \in DOMAIN pool, NEW k \in DOMAIN pool, i # k
      PROVE  pool[i].index # pool[k].index
  <2>1. i < k \/ k < i
    BY <1>1, <1>2
  <2>2. pool[i].index \in Nat /\ pool[k].index \in Nat
    BY <1>1 DEF Drawing
  <2> QED BY <2>1, <2>2 DEF Pooled
<1> QED BY <1>1, <1>2, BeforeIsAnOrder

\* A ranking lists the pool in the order of the comparator.
Lists(pool, r, p) ==
  /\ DOMAIN r = DOMAIN pool
  /\ \A i \in DOMAIN pool : r[i] = pool[p[i]]
  /\ \A i, k \in DOMAIN pool : p[i] = p[k] => i = k
  /\ \A a \in DOMAIN pool : \E i \in DOMAIN pool : p[i] = a
  /\ \A i, k \in DOMAIN pool : i < k => Before(pool[p[i]], pool[p[k]])

LEMMA RankingIs ==
  ASSUME NEW pool, Pooled(pool), NEW r, IsRanking(pool, r)
  PROVE  \E p \in [DOMAIN pool -> DOMAIN pool] : Lists(pool, r, p)
<1>1. PICK p \in [DOMAIN pool -> DOMAIN pool] :
        /\ IsInjective(p) /\ ToSet(p) = DOMAIN pool
        /\ r = [i \in DOMAIN pool |-> pool[p[i]]]
  BY DEF IsRanking
<1>2. \A i, k \in DOMAIN r : i < k => ~ Before(r[k], r[i])
  BY DEF IsRanking, Before
<1>3. \A i, k \in DOMAIN pool : p[i] = p[k] => i = k
  BY <1>1 DEF IsInjective
<1>4. \A a \in DOMAIN pool : \E i \in DOMAIN pool : p[i] = a
  BY <1>1 DEF ToSet
<1>5. ASSUME NEW i \in DOMAIN pool, NEW k \in DOMAIN pool, i < k
      PROVE  Before(pool[p[i]], pool[p[k]])
  <2>1. i # k
    BY <1>5, PoolIsOrdered
  <2>2. p[i] # p[k] /\ p[i] \in DOMAIN pool /\ p[k] \in DOMAIN pool
    BY <1>3, <2>1
  <2>3. ~ Before(pool[p[k]], pool[p[i]])
    BY <1>1, <1>2, <1>5
  <2> QED BY <2>2, <2>3, PoolIsOrdered
<1> QED BY <1>1, <1>3, <1>4, <1>5 DEF Lists

LEMMA FirstIsBest ==
  ASSUME NEW pool, Pooled(pool), pool # <<>>, NEW r, IsRanking(pool, r)
  PROVE  r[1] \in ToSet(pool) /\ EarliestBest(pool, r[1])
<1>1. PICK p \in [DOMAIN pool -> DOMAIN pool] : Lists(pool, r, p)
  BY RankingIs
<1>2. /\ DOMAIN r = DOMAIN pool
      /\ \A i \in DOMAIN pool : r[i] = pool[p[i]]
      /\ \A i, k \in DOMAIN pool : p[i] = p[k] => i = k
      /\ \A a \in DOMAIN pool : \E i \in DOMAIN pool : p[i] = a
      /\ \A i, k \in DOMAIN pool : i < k => Before(pool[p[i]], pool[p[k]])
  BY <1>1 DEF Lists
<1>3. DOMAIN pool = 1 .. Len(pool) /\ Len(pool) \in Nat /\ Len(pool) > 0
        /\ \A i \in DOMAIN pool : pool[i] \in Drawing
  BY PoolIsOrdered DEF Pooled
<1>4. 1 \in DOMAIN pool /\ r[1] = pool[p[1]] /\ p[1] \in DOMAIN pool
  BY <1>2, <1>3
<1>5. ASSUME NEW a \in DOMAIN pool
      PROVE  /\ ~ CleanerLint(pool[a].lint, r[1].lint)
             /\ pool[a].index < r[1].index => CleanerLint(r[1].lint, pool[a].lint)
  <2>1. PICK i \in DOMAIN pool : p[i] = a
    BY <1>2
  <2>2. pool[a] \in Drawing /\ r[1] \in Drawing
    BY <1>3, <1>4
  <2>3. CASE i = 1
    <3>1. pool[a] = r[1]
      BY <1>4, <2>1, <2>3
    <3>2. ~ CleanerLint(pool[a].lint, pool[a].lint)
      <4>1. pool[a].lint \in Lint
        BY <2>2 DEF Drawing
      <4> QED BY <4>1, LintIs DEF CleanerLint
    <3>3. ~ (pool[a].index < pool[a].index)
      <4>1. pool[a].index \in Nat
        BY <2>2 DEF Drawing
      <4> QED BY <4>1
    <3> QED BY <3>1, <3>2, <3>3
  <2>4. CASE i # 1
    <3>1. 1 < i
      BY <1>3, <2>4
    <3>2. Before(r[1], pool[a])
      BY <1>2, <1>4, <2>1, <3>1
    <3>3. \/ CleanerLint(r[1].lint, pool[a].lint)
          \/ ~ CleanerLint(pool[a].lint, r[1].lint) /\ r[1].index < pool[a].index
      BY <2>2, <3>2, ComparatorIs DEF Before
    <3>4. ~ (CleanerLint(r[1].lint, pool[a].lint) /\ CleanerLint(pool[a].lint, r[1].lint))
      <4>1. pool[a].lint \in Lint /\ r[1].lint \in Lint
        BY <2>2 DEF Drawing
      <4> QED BY <4>1, LintIs DEF CleanerLint
    <3>5. r[1].index \in Nat /\ pool[a].index \in Nat
      BY <2>2 DEF Drawing
    <3> QED BY <3>3, <3>4, <3>5
  <2> QED BY <2>3, <2>4
<1>6. r[1] \in ToSet(pool)
  BY <1>4 DEF ToSet
<1> QED BY <1>5, <1>6 DEF EarliestBest, ToSet

\* Two rankings of a pool first differ nowhere.
LEMMA RankingIsUnique ==
  ASSUME NEW pool, Pooled(pool), NEW r, IsRanking(pool, r), NEW q, IsRanking(pool, q)
  PROVE  r = q
<1> DEFINE D == DOMAIN pool
<1>1. PICK p \in [D -> D] : Lists(pool, r, p)
  BY RankingIs
<1>2. PICK s \in [D -> D] : Lists(pool, q, s)
  BY RankingIs
<1>3. /\ \A i \in D : r[i] = pool[p[i]]
      /\ \A i, k \in D : p[i] = p[k] => i = k
      /\ \A a \in D : \E i \in D : p[i] = a
      /\ \A i, k \in D : i < k => Before(pool[p[i]], pool[p[k]])
  BY <1>1 DEF Lists
<1>4. /\ \A i \in D : q[i] = pool[s[i]]
      /\ \A i, k \in D : s[i] = s[k] => i = k
      /\ \A a \in D : \E i \in D : s[i] = a
      /\ \A i, k \in D : i < k => Before(pool[s[i]], pool[s[k]])
  BY <1>2 DEF Lists
<1>5. D \subseteq Nat
  BY PoolIsOrdered
<1>6. ASSUME NEW i \in D, p[i] # s[i]  PROVE FALSE
  <2> DEFINE T == {k \in D : p[k] # s[k]}
  <2>1. PICK m \in T : \A k \in T : m <= k
    <3>1. T \subseteq Nat /\ T # {}
      BY <1>5, <1>6
    <3> HIDE DEF T
    <3> QED BY <3>1, LeastNat
  <2>2. m \in D /\ p[m] # s[m] /\ p[m] \in D /\ s[m] \in D
    BY <2>1
  <2>3. \A k \in D : k < m => p[k] = s[k]
    BY <1>5, <2>1
  <2>4. PICK k \in D : s[k] = p[m]
    BY <1>4, <2>2
  <2>5. PICK j \in D : p[j] = s[m]
    BY <1>3, <2>2
  <2>6. m < k
    <3>1. k # m
      BY <2>2, <2>4
    <3>2. ASSUME k < m  PROVE FALSE
      <4>1. p[k] = p[m]
        BY <2>3, <2>4, <3>2
      <4> QED BY <1>3, <2>2, <3>1, <4>1
    <3> QED BY <1>5, <2>2, <3>1, <3>2
  <2>7. m < j
    <3>1. j # m
      BY <2>2, <2>5
    <3>2. ASSUME j < m  PROVE FALSE
      <4>1. s[j] = s[m]
        BY <2>3, <2>5, <3>2
      <4> QED BY <1>4, <2>2, <3>1, <4>1
    <3> QED BY <1>5, <2>2, <3>1, <3>2
  <2>8. Before(pool[s[m]], pool[p[m]])
    BY <1>4, <2>2, <2>4, <2>6
  <2>9. Before(pool[p[m]], pool[s[m]])
    BY <1>3, <2>2, <2>5, <2>7
  <2> QED BY <2>2, <2>8, <2>9, PoolIsOrdered
<1>7. \A i \in D : r[i] = q[i]
  BY <1>3, <1>4, <1>6
<1>8. r = [i \in D |-> r[i]] /\ q = [i \in D |-> q[i]]
  BY DEF IsRanking
<1>9. [i \in D |-> r[i]] = [i \in D |-> q[i]]
  BY <1>7
<1> QED BY <1>8, <1>9, Zenon

\* The place of a drawing: how many come before it.
LEMMA RankingExists ==
  ASSUME NEW pool, Pooled(pool)
  PROVE  \E r : IsRanking(pool, r)
<1> DEFINE D == DOMAIN pool
           Ahead(a) == {b \in D : Before(pool[b], pool[a])}
           place == [a \in D |-> Cardinality(Ahead(a)) + 1]
<1>1. D = 1 .. Len(pool) /\ Len(pool) \in Nat /\ IsFiniteSet(D) /\ Cardinality(D) = Len(pool)
  <2>1. pool \in Seq(Drawing)
    BY DEF Pooled
  <2> QED BY <2>1, SequenceParts
<1>2. \A i, k \in D :
        /\ ~ (Before(pool[i], pool[k]) /\ Before(pool[k], pool[i]))
        /\ i # k => Before(pool[i], pool[k]) \/ Before(pool[k], pool[i])
  BY PoolIsOrdered
<1>3. \A i, k, m \in D :
        Before(pool[i], pool[k]) /\ Before(pool[k], pool[m]) => Before(pool[i], pool[m])
  BY PoolIsOrdered
<1>4. ASSUME NEW a \in D
      PROVE  /\ IsFiniteSet(Ahead(a)) /\ a \notin Ahead(a) /\ Ahead(a) \subseteq D
             /\ Cardinality(Ahead(a)) \in Nat /\ place[a] \in D
  <2>1. a \notin Ahead(a) /\ Ahead(a) \subseteq D \ {a}
    BY <1>2
  <2>2. IsFiniteSet(D \ {a}) /\ Cardinality(D \ {a}) = Cardinality(D) - 1
    BY <1>1, FS_RemoveElement
  <2>3. IsFiniteSet(Ahead(a)) /\ Cardinality(Ahead(a)) <= Cardinality(D \ {a})
    <3> HIDE DEF Ahead
    <3> QED BY <2>1, <2>2, FS_Subset
  <2>4. Cardinality(Ahead(a)) \in Nat
    BY <2>3, FS_CardinalityType
  <2>5. Cardinality(Ahead(a)) + 1 \in 1 .. Len(pool)
    <3> HIDE DEF Ahead, D
    <3> QED BY <1>1, <2>2, <2>3, <2>4
  <2> QED BY <1>1, <2>1, <2>3, <2>4, <2>5
<1>5. ASSUME NEW a \in D, NEW b \in D, Before(pool[a], pool[b])
      PROVE  place[a] < place[b]
  <2>1. Ahead(a) \subseteq Ahead(b) /\ a \in Ahead(b)
    BY <1>3, <1>5
  <2>2. a \notin Ahead(a) /\ IsFiniteSet(Ahead(a)) /\ IsFiniteSet(Ahead(b))
          /\ Cardinality(Ahead(a)) \in Nat /\ Cardinality(Ahead(b)) \in Nat
    BY <1>4
  <2>3. Cardinality(Ahead(a) \union {a}) = Cardinality(Ahead(a)) + 1
    BY <2>2, FS_AddElement
  <2>4. Cardinality(Ahead(a) \union {a}) <= Cardinality(Ahead(b))
    <3>1. Ahead(a) \union {a} \subseteq Ahead(b)
      BY <2>1
    <3> HIDE DEF Ahead
    <3> QED BY <2>2, <3>1, FS_Subset
  <2>5. place[a] = Cardinality(Ahead(a)) + 1 /\ place[b] = Cardinality(Ahead(b)) + 1
    OBVIOUS
  <2> HIDE DEF Ahead, place
  <2> QED BY <2>2, <2>3, <2>4, <2>5
<1> HIDE DEF Ahead
<1>6. place \in [D -> D]
  BY <1>4
<1> HIDE DEF place
<1>7. \A a, b \in D : place[a] = place[b] => a = b
  <2>1. \A a \in D : place[a] \in Nat
    BY <1>1, <1>6
  <2> QED BY <1>2, <1>5, <2>1
<1>8. \A k \in D : \E a \in D : place[a] = k
  <2>1. place \in Injection(D, D)
    BY <1>6, <1>7 DEF Injection, IsInjective
  <2>2. place \in Surjection(D, D)
    BY <1>1, <2>1, FS_Injection
  <2> QED BY <2>2 DEF Surjection
<1> DEFINE p == [k \in D |-> CHOOSE a \in D : place[a] = k]
           r == [i \in D |-> pool[p[i]]]
<1>9. p \in [D -> D] /\ \A k \in D : place[p[k]] = k
  BY <1>8
<1> HIDE DEF p
<1>10. IsInjective(p)
  BY <1>9 DEF IsInjective
<1>11. ToSet(p) = D
  <2>1. \A a \in D : p[place[a]] = a
    BY <1>6, <1>7, <1>9
  <2> QED BY <1>6, <1>9, <2>1 DEF ToSet
<1>12. ASSUME NEW i \in D, NEW k \in D, i < k
       PROVE  ~ Before(r[k], r[i])
  <2>1. p[i] \in D /\ p[k] \in D /\ place[p[i]] = i /\ place[p[k]] = k
    BY <1>9
  <2>2. ASSUME Before(pool[p[k]], pool[p[i]])  PROVE FALSE
    <3>1. k < i
      BY <1>5, <2>1, <2>2
    <3> QED BY <1>1, <1>12, <3>1
  <2> QED BY <2>2
<1>13. IsRanking(pool, r)
  BY <1>9, <1>10, <1>11, <1>12 DEF IsRanking, Before
<1> QED BY <1>13

Drawings == [next: Nat, over: BOOLEAN, threw: BOOLEAN, pool: Seq(Drawing)]

\* The pool is in the order of the draws, and unless the run has failed it starts with
\* the baseline as soon as that is drawn.
DrawInv ==
  /\ draws \in Drawings
  /\ Pooled(draws.pool)
  /\ \A i \in DOMAIN draws.pool : draws.pool[i].index < draws.next
  /\ draws.next = 0 => draws.pool = <<>>
  /\ draws.next > 0 /\ ~ draws.threw => draws.pool # <<>> /\ draws.pool[1].index = 0
  /\ draws.threw => draws.over

LEMMA DrawStarts == DrawInit => DrawInv
<1> SUFFICES ASSUME DrawInit  PROVE DrawInv
  OBVIOUS
<1>1. draws = [next |-> 0, over |-> FALSE, threw |-> FALSE, pool |-> <<>>]
  BY DEF DrawInit, NoDraws
<1>2. <<>> \in Seq(Drawing) /\ DOMAIN (<<>>) = {}
  OBVIOUS
<1>3. draws \in Drawings /\ Pooled(draws.pool)
  BY <1>1, <1>2 DEF Drawings, Pooled
<1> QED BY <1>1, <1>2, <1>3 DEF DrawInv

LEMMA DrawStep ==
  ASSUME NEW n, DrawInv, DrawNext(n)
  PROVE  DrawInv'
<1>1. /\ draws \in Drawings /\ Pooled(draws.pool)
      /\ \A i \in DOMAIN draws.pool : draws.pool[i].index < draws.next
      /\ draws.next = 0 => draws.pool = <<>>
      /\ draws.next > 0 /\ ~ draws.threw => draws.pool # <<>> /\ draws.pool[1].index = 0
      /\ draws.threw => draws.over
  BY DEF DrawInv
<1>2. draws.next \in Nat /\ draws.over \in BOOLEAN /\ draws.threw \in BOOLEAN
        /\ draws.pool \in Seq(Drawing)
  BY <1>1 DEF Drawings
<1>3. \A i \in DOMAIN draws.pool : draws.pool[i].index \in Nat
  <2>1. \A i \in DOMAIN draws.pool : draws.pool[i] \in Drawing
    BY <1>1, PoolIsOrdered
  <2> QED BY <2>1 DEF Drawing
<1>4. draws = [next |-> draws.next, over |-> draws.over, threw |-> draws.threw,
                pool |-> draws.pool]
  BY <1>1 DEF Drawings
<1>5. PICK d \in Draw : draws' = Drawn(draws, d)
  BY DEF DrawNext
<1>6. ~ draws.over
  BY DEF DrawNext
<1>7. CASE draws.next > 0 /\ ~ d.admitted
  <2>1. draws' = [draws EXCEPT !.over = TRUE]
    BY <1>5, <1>6, <1>7 DEF Drawn
  <2>2. draws' \in Drawings /\ draws'.pool = draws.pool /\ draws'.next = draws.next
          /\ draws'.threw = draws.threw /\ draws'.over
    BY <1>1, <2>1 DEF Drawings
  <2> QED BY <1>1, <2>2 DEF DrawInv
<1>8. CASE ~ (draws.next > 0 /\ ~ d.admitted) /\ ~ d.answers
  <2>1. draws' = [draws EXCEPT !.next = @ + 1, !.over = draws.next = 0,
                               !.threw = draws.next = 0]
    BY <1>5, <1>6, <1>8 DEF Drawn
  <2> DEFINE first == draws.next = 0
  <2>2. draws' = [next |-> draws.next + 1, over |-> first, threw |-> first,
                  pool |-> draws.pool]
    BY <1>4, <2>1
  <2>3. draws' \in Drawings /\ draws'.pool = draws.pool /\ draws'.next = draws.next + 1
          /\ draws'.threw = first /\ draws'.over = first
    <3>1. first \in BOOLEAN /\ draws.next + 1 \in Nat
      BY <1>2
    <3> HIDE DEF first
    <3> QED BY <1>2, <2>2, <3>1 DEF Drawings
  <2>4. \A i \in DOMAIN draws'.pool : draws'.pool[i].index < draws'.next
    BY <1>1, <1>2, <1>3, <2>3
  <2>5. ASSUME draws'.next > 0, ~ draws'.threw
        PROVE  draws'.pool # <<>> /\ draws'.pool[1].index = 0
    <3>1. ~ first
      BY <2>3, <2>5, Zenon
    <3>2. draws.next > 0
      BY <1>2, <3>1
    <3>3. ~ draws.threw
      BY <1>1, <1>6
    <3> QED BY <1>1, <2>3, <3>2, <3>3
  <2> QED BY <1>1, <1>2, <2>3, <2>4, <2>5 DEF DrawInv
<1>9. CASE ~ (draws.next > 0 /\ ~ d.admitted) /\ d.answers /\ d.lint = LintThrew
  <2>1. draws' = [draws EXCEPT !.over = TRUE, !.threw = TRUE]
    BY <1>5, <1>6, <1>9 DEF Drawn
  <2>2. draws' \in Drawings /\ draws'.pool = draws.pool /\ draws'.next = draws.next
          /\ draws'.threw /\ draws'.over
    BY <1>1, <2>1 DEF Drawings
  <2> QED BY <1>1, <2>2 DEF DrawInv
<1>10. CASE ~ (draws.next > 0 /\ ~ d.admitted) /\ d.answers /\ d.lint # LintThrew
  <2> DEFINE w == [index |-> draws.next, lint |-> d.lint]
             m == Len(draws.pool)
  <2>1. draws' = [draws EXCEPT !.next = @ + 1, !.pool = Append(@, w)]
    BY <1>5, <1>6, <1>10 DEF Drawn
  <2>2. w \in Drawing /\ w.index = draws.next
    <3>1. d.lint \in Lint
      BY <1>10 DEF Draw
    <3> QED BY <1>2, <3>1 DEF Drawing
  <2> HIDE DEF w
  <2>3. draws' \in Drawings /\ draws'.pool = Append(draws.pool, w)
          /\ draws'.next = draws.next + 1 /\ draws'.threw = draws.threw
          /\ draws'.over = draws.over
    <3>1. Append(draws.pool, w) \in Seq(Drawing)
      BY <1>2, <2>2
    <3>2. draws' = [next |-> draws.next + 1, over |-> draws.over, threw |-> draws.threw,
                    pool |-> Append(draws.pool, w)]
      BY <1>4, <2>1
    <3>3. draws.next + 1 \in Nat
      BY <1>2
    <3> QED BY <1>2, <3>1, <3>2, <3>3 DEF Drawings
  <2>4. /\ m \in Nat /\ DOMAIN draws.pool = 1 .. m
        /\ DOMAIN draws'.pool = 1 .. (m + 1)
        /\ \A i \in 1 .. m : draws'.pool[i] = draws.pool[i]
        /\ draws'.pool[m + 1] = w
        /\ draws'.pool \in Seq(Drawing)
    BY <1>2, <2>2, <2>3
  <2> HIDE DEF m
  <2>5. \A i \in 1 .. m : draws.pool[i].index \in Nat /\ draws.pool[i].index < draws.next
    BY <1>1, <1>3, <2>4
  <2>6. \A i \in 1 .. (m + 1) : i \in 1 .. m \/ i = m + 1
    BY <2>4
  <2>7. \A i \in DOMAIN draws'.pool : draws'.pool[i].index < draws'.next
    <3> SUFFICES ASSUME NEW i \in 1 .. (m + 1)
                 PROVE  draws'.pool[i].index < draws.next + 1
      BY <2>3, <2>4
    <3>1. CASE i \in 1 .. m
      <4>1. draws'.pool[i].index = draws.pool[i].index
        BY <2>4, <3>1
      <4>2. draws.pool[i].index \in Nat /\ draws.pool[i].index < draws.next
        BY <2>5, <3>1
      <4> QED BY <1>2, <4>1, <4>2
    <3>2. CASE i = m + 1
      BY <1>2, <2>2, <2>4, <3>2
    <3> QED BY <2>6, <3>1, <3>2
  <2>8. Pooled(draws'.pool)
    <3> SUFFICES ASSUME NEW i \in 1 .. (m + 1), NEW k \in 1 .. (m + 1), i < k
                 PROVE  draws'.pool[i].index < draws'.pool[k].index
      BY <2>4 DEF Pooled
    <3>1. i \in 1 .. m
      BY <2>4
    <3>2. CASE k \in 1 .. m
      BY <1>1, <2>4, <3>1, <3>2 DEF Pooled
    <3>3. CASE k = m + 1
      BY <2>2, <2>4, <2>5, <3>1, <3>3
    <3> QED BY <2>6, <3>2, <3>3
  <2>9. ASSUME ~ draws'.threw  PROVE draws'.pool # <<>> /\ draws'.pool[1].index = 0
    <3>1. draws'.pool # <<>>
      BY <2>4
    <3>2. CASE draws.next = 0
      <4>1. m = 0
        BY <1>1, <3>2 DEF m
      <4> QED BY <2>2, <2>4, <3>1, <3>2, <4>1
    <3>3. CASE draws.next > 0
      <4>1. draws.pool # <<>> /\ draws.pool[1].index = 0
        BY <1>1, <2>3, <2>9, <3>3
      <4>2. 1 \in 1 .. m
        BY <1>2, <2>4, <4>1 DEF m
      <4> QED BY <2>4, <3>1, <4>1, <4>2
    <3> QED BY <1>2, <3>2, <3>3
  <2>10. draws'.next # 0
    BY <1>2, <2>3
  <2> QED BY <2>3, <2>7, <2>8, <2>9, <2>10 DEF DrawInv
<1> QED BY <1>7, <1>8, <1>9, <1>10

\* What best-of-n promises of a run that has not failed: the baseline is in the pool, so
\* that the code's last error, for an empty pool, never comes; the order of the pool under
\* the comparator is one and only one, and what it puts first is what it should.
BestIsShipped(pool) ==
  /\ pool # <<>> /\ pool[1].index = 0
  /\ \E r : IsRanking(pool, r)
  /\ \A r, q : IsRanking(pool, r) /\ IsRanking(pool, q) => r = q
  /\ \A r : IsRanking(pool, r) => r[1] \in ToSet(pool) /\ EarliestBest(pool, r[1])

THEOREM BestOfNShipsTheEarliestBest ==
  ASSUME NEW n
  PROVE  DrawSpec(n) => [](draws.next > 0 /\ ~ draws.threw => BestIsShipped(draws.pool))
<1>1. ASSUME DrawInv, [DrawNext(n)]_draws  PROVE DrawInv'
  <2>1. CASE DrawNext(n)
    BY <1>1, <2>1, DrawStep
  <2>2. CASE UNCHANGED draws
    BY <1>1, <2>2 DEF DrawInv
  <2> QED BY <1>1, <2>1, <2>2
<1>2. DrawInv => (draws.next > 0 /\ ~ draws.threw => BestIsShipped(draws.pool))
  <2> SUFFICES ASSUME DrawInv, draws.next > 0, ~ draws.threw
               PROVE  BestIsShipped(draws.pool)
    OBVIOUS
  <2>1. Pooled(draws.pool) /\ draws.pool # <<>> /\ draws.pool[1].index = 0
    BY DEF DrawInv
  <2>2. \E r : IsRanking(draws.pool, r)
    BY <2>1, RankingExists
  <2>3. \A r, q : IsRanking(draws.pool, r) /\ IsRanking(draws.pool, q) => r = q
    BY <2>1, RankingIsUnique
  <2>4. \A r : IsRanking(draws.pool, r) =>
                 r[1] \in ToSet(draws.pool) /\ EarliestBest(draws.pool, r[1])
    BY <2>1, FirstIsBest
  <2> QED BY <2>1, <2>2, <2>3, <2>4 DEF BestIsShipped
<1> QED BY <1>1, <1>2, DrawStarts, PTL DEF DrawSpec

----
\* The ledger of findings (classifyDiagnostics).

\* What TakeMatch does: nothing when no free finding matches, else one of those.
LEMMA TakeMatchIs ==
  ASSUME NEW taken, NEW b, NEW cand, DOMAIN cand \subseteq Nat, NEW alike,
         NEW free, free = {j \in DOMAIN cand : j \notin taken /\ matchDiagnostic(b, cand[j], alike)}
  PROVE  /\ free = {} => TakeMatch(taken, b, cand, alike) = taken
         /\ free # {} => \E j \in free : TakeMatch(taken, b, cand, alike) = taken \union {j}
<1>1. TakeMatch(taken, b, cand, alike) = IF free = {} THEN taken ELSE taken \union {Min(free)}
  BY DEF TakeMatch
<1>2. ASSUME free # {}  PROVE Min(free) \in free
  <2>1. free \subseteq Nat
    OBVIOUS
  <2>2. \E x \in free : \A y \in free : x <= y
    BY <1>2, <2>1, LeastNat
  <2> QED BY <2>2 DEF Min
<1> QED BY <1>1, <1>2

PairingOf(base, cand) ==
  [next: 1 .. (Len(base) + 1), taken: SUBSET (DOMAIN cand), resolved: SUBSET (DOMAIN base)]

\* The findings seen so far are the resolved ones and as many as are taken.  A taken one
\* matches one that was seen; what matches a resolved one is taken.
PairInv(base, cand, alike) ==
  /\ pairing \in PairingOf(base, cand)
  /\ Cardinality(pairing.taken) + Cardinality(pairing.resolved) = pairing.next - 1
  /\ \A i \in pairing.resolved : i < pairing.next
  /\ \A j \in pairing.taken :
       \E i \in DOMAIN base : matchDiagnostic(base[i], cand[j], alike)
  /\ \A i \in pairing.resolved : \A j \in DOMAIN cand :
       matchDiagnostic(base[i], cand[j], alike) => j \in pairing.taken

LEMMA PairStarts ==
  ASSUME NEW Finding, NEW base \in Seq(Finding), NEW cand \in Seq(Finding), NEW alike,
         PairInit
  PROVE  PairInv(base, cand, alike)
<1>1. Len(base) \in Nat
  OBVIOUS
<1>2. Cardinality({}) = 0
  BY FS_EmptySet
<1>3. pairing = [next |-> 1, taken |-> {}, resolved |-> {}]
  BY DEF PairInit
<1>4. pairing \in PairingOf(base, cand)
  BY <1>1, <1>3 DEF PairingOf
<1> QED BY <1>2, <1>3, <1>4 DEF PairInv

LEMMA PairStep ==
  ASSUME NEW Finding, NEW base \in Seq(Finding), NEW cand \in Seq(Finding), NEW alike,
         PairInv(base, cand, alike), PairNext(base, cand, alike)
  PROVE  PairInv(base, cand, alike)'
<1> DEFINE n == pairing.next
           free == {j \in DOMAIN cand :
                     j \notin pairing.taken /\ matchDiagnostic(base[n], cand[j], alike)}
           taken == TakeMatch(pairing.taken, base[n], cand, alike)
<1>1. /\ pairing \in PairingOf(base, cand)
      /\ Cardinality(pairing.taken) + Cardinality(pairing.resolved) = n - 1
      /\ \A i \in pairing.resolved : i < n
      /\ \A j \in pairing.taken :
           \E i \in DOMAIN base : matchDiagnostic(base[i], cand[j], alike)
      /\ \A i \in pairing.resolved : \A j \in DOMAIN cand :
           matchDiagnostic(base[i], cand[j], alike) => j \in pairing.taken
  BY DEF PairInv
<1>2. /\ n \in 1 .. Len(base)
      /\ pairing.taken \subseteq DOMAIN cand /\ pairing.resolved \subseteq DOMAIN base
  BY <1>1 DEF PairingOf, PairNext
<1>3. pairing' = [next |-> n + 1, taken |-> taken,
                  resolved |-> pairing.resolved \union
                                 (IF taken = pairing.taken THEN {n} ELSE {})]
  BY DEF PairNext
<1>4. Len(base) \in Nat /\ Len(cand) \in Nat /\ DOMAIN base = 1 .. Len(base)
        /\ DOMAIN cand = 1 .. Len(cand)
  OBVIOUS
<1>5. IsFiniteSet(pairing.taken) /\ IsFiniteSet(pairing.resolved)
  <2>1. IsFiniteSet(DOMAIN cand) /\ IsFiniteSet(DOMAIN base)
    BY <1>4, FS_Interval
  <2> QED BY <1>2, <2>1, FS_Subset
<1>6. Cardinality(pairing.taken) \in Nat /\ Cardinality(pairing.resolved) \in Nat
  BY <1>5, FS_CardinalityType
<1>7. n \notin pairing.resolved
  BY <1>1, <1>2
<1>8. CASE free = {}
  <2>1. taken = pairing.taken
    <3> HIDE DEF free
    <3>1. free = {j \in DOMAIN cand :
                   j \notin pairing.taken /\ matchDiagnostic(base[n], cand[j], alike)}
      BY DEF free
    <3>2. DOMAIN cand \subseteq Nat
      BY <1>4
    <3> QED BY <1>8, <3>1, <3>2, TakeMatchIs
  <2>2. pairing' = [next |-> n + 1, taken |-> pairing.taken,
                    resolved |-> pairing.resolved \union {n}]
    BY <1>3, <2>1
  <2>3. Cardinality(pairing.resolved \union {n}) = Cardinality(pairing.resolved) + 1
    BY <1>5, <1>7, FS_AddElement
  <2>4. pairing' \in PairingOf(base, cand)
    BY <1>2, <1>4, <2>2 DEF PairingOf
  <2>5. Cardinality(pairing.taken') + Cardinality(pairing.resolved') = pairing.next' - 1
    <3>1. /\ Cardinality(pairing.taken') = Cardinality(pairing.taken)
          /\ Cardinality(pairing.resolved') = Cardinality(pairing.resolved) + 1
          /\ pairing.next' = n + 1
      BY <2>2, <2>3
    <3>2. Cardinality(pairing.taken) + Cardinality(pairing.resolved) = n - 1 /\ n \in Int
      BY <1>1, <1>2
    <3>3. Cardinality(pairing.taken) + (Cardinality(pairing.resolved) + 1) = (n + 1) - 1
      BY <1>6, <3>2
    <3> QED BY <3>1, <3>3, Zenon
  <2>6. \A i \in pairing.resolved' : i < pairing.next'
    BY <1>1, <1>2, <1>4, <2>2
  <2>7. \A i \in pairing.resolved' : \A j \in DOMAIN cand :
          matchDiagnostic(base[i], cand[j], alike) => j \in pairing.taken'
    BY <1>1, <1>8, <2>2
  <2>8. \A j \in pairing.taken' :
          \E i \in DOMAIN base : matchDiagnostic(base[i], cand[j], alike)
    BY <1>1, <2>2
  <2> QED BY <2>4, <2>5, <2>6, <2>7, <2>8 DEF PairInv
<1>9. CASE free # {}
  <2>1. PICK j \in free : taken = pairing.taken \union {j}
    <3> HIDE DEF free
    <3>1. free = {j \in DOMAIN cand :
                   j \notin pairing.taken /\ matchDiagnostic(base[n], cand[j], alike)}
      BY DEF free
    <3>2. DOMAIN cand \subseteq Nat
      BY <1>4
    <3> QED BY <1>9, <3>1, <3>2, TakeMatchIs, SMTT(30)
  <2>2. j \in DOMAIN cand /\ j \notin pairing.taken
          /\ matchDiagnostic(base[n], cand[j], alike)
    OBVIOUS
  <2>3. pairing' = [next |-> n + 1, taken |-> pairing.taken \union {j},
                    resolved |-> pairing.resolved]
    BY <1>3, <2>1, <2>2
  <2>4. Cardinality(pairing.taken \union {j}) = Cardinality(pairing.taken) + 1
    BY <1>5, <2>2, FS_AddElement
  <2>5. pairing' \in PairingOf(base, cand)
    BY <1>2, <1>4, <2>2, <2>3 DEF PairingOf
  <2>6. Cardinality(pairing.taken') + Cardinality(pairing.resolved') = pairing.next' - 1
    BY <1>1, <1>2, <1>6, <2>3, <2>4
  <2>7. \A i \in pairing.resolved' : i < pairing.next'
    BY <1>1, <1>2, <1>4, <2>3
  <2>8. \A i \in pairing.resolved' : \A k \in DOMAIN cand :
          matchDiagnostic(base[i], cand[k], alike) => k \in pairing.taken'
    BY <1>1, <2>3
  <2>9. \A k \in pairing.taken' :
          \E i \in DOMAIN base : matchDiagnostic(base[i], cand[k], alike)
    BY <1>1, <1>2, <1>4, <2>2, <2>3
  <2> QED BY <2>5, <2>6, <2>7, <2>8, <2>9 DEF PairInv
<1> QED BY <1>8, <1>9

LEMMA PairInvariant ==
  ASSUME NEW Finding, NEW base \in Seq(Finding), NEW cand \in Seq(Finding), NEW alike
  PROVE  PairSpec(base, cand, alike) => []PairInv(base, cand, alike)
<1>1. ASSUME PairInv(base, cand, alike), [PairNext(base, cand, alike)]_pairing
      PROVE  PairInv(base, cand, alike)'
  <2>1. CASE PairNext(base, cand, alike)
    BY <1>1, <2>1, PairStep
  <2>2. CASE UNCHANGED pairing
    BY <1>1, <2>2 DEF PairInv, PairingOf
  <2> QED BY <1>1, <2>1, <2>2
<1>2. PairInit => PairInv(base, cand, alike)
  BY PairStarts
<1> QED BY <1>1, <1>2, PTL DEF PairSpec

\* A pairing of the whole baseline: the findings of the candidate that are taken.
IsPairing(base, cand, alike, taken) ==
  /\ taken \subseteq DOMAIN cand /\ Cardinality(taken) <= Len(base)
  /\ \A j \in taken : \E i \in DOMAIN base : matchDiagnostic(base[i], cand[j], alike)

LEMMA LedgerParts ==
  ASSUME NEW Finding, NEW base \in Seq(Finding), NEW cand \in Seq(Finding), NEW alike,
         NEW taken, IsPairing(base, cand, alike, taken),
         NEW l, l = LedgerOf(base, cand, taken)
  PROVE  /\ l.persisting = Cardinality(taken) /\ l.persisting \in Nat
         /\ l.resolved = Len(base) - l.persisting /\ l.resolved \in Nat
         /\ l.introduced = {j \in DOMAIN cand \ taken :
                              \A i \in DOMAIN base : base[i].code # cand[j].code}
         /\ l.introduced = {j \in DOMAIN cand :
                              \A i \in DOMAIN base : base[i].code # cand[j].code}
         /\ l.introduced \union l.revealed = DOMAIN cand \ taken
         /\ Cardinality(l.introduced) \in Nat /\ Cardinality(l.revealed) \in Nat
         /\ l.persisting + Cardinality(l.introduced) + Cardinality(l.revealed) = Len(cand)
<1> DEFINE fresh == {j \in DOMAIN cand \ taken : \A b \in ToSet(base) : b.code # cand[j].code}
           rest == DOMAIN cand \ (taken \cup fresh)
<1>1. /\ l.persisting = Cardinality(taken) /\ l.resolved = Len(base) - Cardinality(taken)
      /\ l.introduced = fresh /\ l.revealed = rest
  BY DEF LedgerOf
<1>2. /\ taken \subseteq DOMAIN cand /\ Cardinality(taken) <= Len(base)
      /\ \A j \in taken : \E i \in DOMAIN base : base[i].code = cand[j].code
  BY DEF IsPairing, matchDiagnostic
<1>3. /\ Len(base) \in Nat /\ Len(cand) \in Nat
      /\ IsFiniteSet(DOMAIN cand) /\ Cardinality(DOMAIN cand) = Len(cand)
      /\ \A S \in SUBSET DOMAIN cand : IsFiniteSet(S) /\ Cardinality(S) \in Nat
  BY SequenceParts
<1>4. fresh = {j \in DOMAIN cand \ taken : \A i \in DOMAIN base : base[i].code # cand[j].code}
  BY DEF ToSet
<1>5. /\ fresh \subseteq DOMAIN cand /\ rest \subseteq DOMAIN cand
      /\ fresh \union rest = DOMAIN cand \ taken /\ fresh \intersect rest = {}
      /\ taken \union (fresh \union rest) = DOMAIN cand
      /\ taken \intersect (fresh \union rest) = {}
  BY <1>2
<1>6. fresh = {j \in DOMAIN cand : \A i \in DOMAIN base : base[i].code # cand[j].code}
  BY <1>2, <1>4
<1>7. Cardinality(taken) \in Nat /\ Cardinality(fresh) \in Nat /\ Cardinality(rest) \in Nat
  BY <1>2, <1>3, <1>5
<1>8. Cardinality(fresh \union rest) = Cardinality(fresh) + Cardinality(rest)
  <2> HIDE DEF fresh, rest
  <2> QED BY <1>3, <1>5, Disjoint
<1>9. Cardinality(DOMAIN cand) = Cardinality(taken) + Cardinality(fresh \union rest)
  <2> HIDE DEF fresh, rest
  <2>1. IsFiniteSet(taken) /\ IsFiniteSet(fresh \union rest)
    BY <1>2, <1>3, <1>5
  <2> QED BY <1>5, <2>1, Disjoint
<1>10. Cardinality(taken) + Cardinality(fresh) + Cardinality(rest) = Len(cand)
  <2> HIDE DEF fresh, rest
  <2> QED BY <1>3, <1>7, <1>8, <1>9
<1>11. Len(base) - Cardinality(taken) \in Nat
  BY <1>2, <1>3, <1>7
<1> HIDE DEF rest, fresh
<1>12. l.introduced \union l.revealed = DOMAIN cand \ taken
  BY <1>1, <1>5
<1> QED BY <1>1, <1>4, <1>6, <1>7, <1>10, <1>11, <1>12

\* A finding whose code the baseline does not have is introduced.
LEMMA NewCodeIsIntroduced ==
  ASSUME NEW base, NEW cand, NEW alike,
         NEW taken, IsPairing(base, cand, alike, taken),
         NEW j \in DOMAIN cand, \A i \in DOMAIN base : base[i].code # cand[j].code
  PROVE  j \in LedgerOf(base, cand, taken).introduced
<1>1. j \notin taken
  BY DEF IsPairing, matchDiagnostic
<1>2. \A b \in ToSet(base) : b.code # cand[j].code
  BY DEF ToSet
<1> QED BY <1>1, <1>2 DEF LedgerOf

\* When the baseline is done, the pairing is one of all of it, and nothing left of the
\* candidate matches a resolved finding.
LEMMA PairingIsDone ==
  ASSUME NEW Finding, NEW base \in Seq(Finding), NEW cand \in Seq(Finding), NEW alike,
         PairInv(base, cand, alike), pairing.next > Len(base)
  PROVE  /\ IsPairing(base, cand, alike, pairing.taken)
         /\ Cardinality(pairing.taken) + Cardinality(pairing.resolved) = Len(base)
         /\ Cardinality(pairing.taken) \in Nat /\ Cardinality(pairing.resolved) \in Nat
<1>1. /\ pairing.next = Len(base) + 1
      /\ pairing.taken \subseteq DOMAIN cand /\ pairing.resolved \subseteq DOMAIN base
  <2>1. Len(base) \in Nat
    OBVIOUS
  <2> QED BY <2>1 DEF PairInv, PairingOf
<1>2. Cardinality(pairing.taken) \in Nat /\ Cardinality(pairing.resolved) \in Nat
  BY <1>1, SequenceParts
<1>3. Cardinality(pairing.taken) + Cardinality(pairing.resolved) = Len(base)
  <2>1. Cardinality(pairing.taken) + Cardinality(pairing.resolved) = pairing.next - 1
    BY DEF PairInv
  <2>2. Len(base) \in Nat
    OBVIOUS
  <2> QED BY <1>1, <1>2, <2>1, <2>2
<1>4. Cardinality(pairing.taken) <= Len(base)
  <2>1. Len(base) \in Nat
    OBVIOUS
  <2> QED BY <1>2, <1>3, <2>1
<1> QED BY <1>1, <1>2, <1>3, <1>4 DEF IsPairing, PairInv

\* The resolved findings are as many as the ledger says, each finding of the candidate is
\* persisting, introduced or revealed, and none that is not persisting matches one that is
\* given as resolved.
LedgerBalances(base, cand, alike) ==
  LET l == LedgerOf(base, cand, pairing.taken) IN
  /\ l.resolved = Cardinality(pairing.resolved)
  /\ l.persisting + Cardinality(l.introduced) + Cardinality(l.revealed) = Len(cand)
  /\ \A i \in pairing.resolved : \A j \in l.introduced \union l.revealed :
       ~ matchDiagnostic(base[i], cand[j], alike)

THEOREM FindingsAreAccountedFor ==
  ASSUME NEW Finding, NEW base \in Seq(Finding), NEW cand \in Seq(Finding), NEW alike
  PROVE  PairSpec(base, cand, alike)
           => [](pairing.next > Len(base) => LedgerBalances(base, cand, alike))
<1>1. ASSUME PairInv(base, cand, alike), pairing.next > Len(base)
      PROVE  LedgerBalances(base, cand, alike)
  <2> DEFINE l == LedgerOf(base, cand, pairing.taken)
  <2>1. /\ IsPairing(base, cand, alike, pairing.taken)
        /\ Cardinality(pairing.taken) + Cardinality(pairing.resolved) = Len(base)
        /\ Cardinality(pairing.taken) \in Nat /\ Cardinality(pairing.resolved) \in Nat
    BY <1>1, PairingIsDone
  <2>2. /\ l.persisting = Cardinality(pairing.taken)
        /\ l.resolved = Len(base) - l.persisting
        /\ l.introduced \union l.revealed = DOMAIN cand \ pairing.taken
        /\ l.persisting + Cardinality(l.introduced) + Cardinality(l.revealed) = Len(cand)
    <3> HIDE DEF l
    <3>1. l = LedgerOf(base, cand, pairing.taken)
      BY DEF l
    <3> QED BY <2>1, <3>1, LedgerParts, SMTT(30)
  <2>3. l.resolved = Cardinality(pairing.resolved)
    <3> HIDE DEF l
    <3>1. Len(base) \in Nat
      OBVIOUS
    <3> QED BY <2>1, <2>2, <3>1
  <2>4. ASSUME NEW i \in pairing.resolved, NEW j \in l.introduced \union l.revealed
        PROVE  ~ matchDiagnostic(base[i], cand[j], alike)
    <3> HIDE DEF l
    <3>1. j \in DOMAIN cand /\ j \notin pairing.taken
      BY <2>2, <2>4
    <3> QED BY <1>1, <2>4, <3>1 DEF PairInv
  <2> QED BY <2>2, <2>3, <2>4 DEF LedgerBalances
<1>2. PairInv(base, cand, alike)
        => (pairing.next > Len(base) => LedgerBalances(base, cand, alike))
  BY <1>1
<1> QED BY <1>2, PairInvariant, PTL

\* LintLoop's counts of findings, for measurements of at most max.
Counts(max) == INSTANCE LintLedger WITH MaxIssues <- max

\* d says how many of the findings fs are syntax errors, other errors and warnings.
Counted(d, fs) ==
  /\ d \in [syntax: Nat, error: Nat, semantic: Nat, hygiene: Nat]
  /\ d.syntax = Cardinality({i \in DOMAIN fs : fs[i].code = "SYNTAX"})
  /\ d.error = Cardinality({i \in DOMAIN fs : fs[i].code # "SYNTAX" /\ fs[i].isError})
  /\ d.semantic + d.hygiene =
       Cardinality({i \in DOMAIN fs : fs[i].code # "SYNTAX" /\ ~ fs[i].isError})

LEMMA CountsAre ==
  ASSUME NEW Finding, NEW fs \in Seq(Finding), NEW d, Counted(d, fs), NEW max
  PROVE  /\ Counts(max)!Errors(d) \in Nat
         /\ Counts(max)!Errors(d) = Cardinality({i \in DOMAIN fs : Blocking(fs[i])})
         /\ Counts(max)!Total(d) = Len(fs)
         /\ d.syntax = 0 <=> \A i \in DOMAIN fs : fs[i].code # "SYNTAX"
<1> DEFINE syntax == {i \in DOMAIN fs : fs[i].code = "SYNTAX"}
           error == {i \in DOMAIN fs : fs[i].code # "SYNTAX" /\ fs[i].isError}
           warning == {i \in DOMAIN fs : fs[i].code # "SYNTAX" /\ ~ fs[i].isError}
           blocking == {i \in DOMAIN fs : Blocking(fs[i])}
<1>1. /\ syntax \subseteq DOMAIN fs /\ error \subseteq DOMAIN fs
      /\ warning \subseteq DOMAIN fs /\ blocking \subseteq DOMAIN fs
      /\ blocking = syntax \union error /\ syntax \intersect error = {}
      /\ DOMAIN fs = blocking \union warning /\ blocking \intersect warning = {}
  BY DEF Blocking
<1>2. /\ d.syntax = Cardinality(syntax) /\ d.error = Cardinality(error)
      /\ d.semantic + d.hygiene = Cardinality(warning)
      /\ d.syntax \in Nat /\ d.error \in Nat /\ d.semantic \in Nat /\ d.hygiene \in Nat
  BY DEF Counted
<1>3. syntax = {} <=> \A i \in DOMAIN fs : fs[i].code # "SYNTAX"
  OBVIOUS
<1>4. Counts(max)!Errors(d) = d.syntax + d.error
  BY DEF Counts!Errors
<1>5. Counts(max)!Total(d) = d.syntax + d.error + d.semantic + d.hygiene
  BY DEF Counts!Total, Counts!Errors
<1> HIDE DEF syntax, error, warning, blocking
<1>6. /\ IsFiniteSet(syntax) /\ IsFiniteSet(error) /\ IsFiniteSet(warning)
      /\ IsFiniteSet(blocking) /\ Cardinality(DOMAIN fs) = Len(fs)
  BY <1>1, SequenceParts
<1>7. Cardinality(blocking) = Cardinality(syntax) + Cardinality(error)
  BY <1>1, <1>6, Disjoint
<1>8. Cardinality(DOMAIN fs) = Cardinality(blocking) + Cardinality(warning)
  BY <1>1, <1>6, Disjoint
<1>9. Counts(max)!Errors(d) \in Nat /\ Counts(max)!Errors(d) = Cardinality(blocking)
  BY <1>2, <1>4, <1>7
<1>10. Counts(max)!Total(d) = Len(fs)
  BY <1>2, <1>5, <1>6, <1>7, <1>8
<1>11. d.syntax = 0 <=> syntax = {}
  BY <1>2, <1>6, FS_EmptySet
<1> QED BY <1>3, <1>9, <1>10, <1>11 DEF blocking

\* The ledger of the counts that belongs to one of the findings.
Counting(l) == [persisting |-> l.persisting, introduced |-> Cardinality(l.introduced)]

LEMMA CountsLoseNothing ==
  ASSUME NEW Finding, NEW base \in Seq(Finding), NEW cand \in Seq(Finding), NEW alike,
         NEW taken, IsPairing(base, cand, alike, taken),
         NEW l, l = LedgerOf(base, cand, taken),
         NEW b, Counted(b, base), NEW c, Counted(c, cand),
         NEW max \in Nat, Len(cand) <= max
  PROVE  /\ Counting(l) \in Counts(max)!Ledgers(b, c)
         /\ Counts(max)!Revealed(c, Counting(l)) = Cardinality(l.revealed)
         /\ Counts(max)!classifyDiagnostics(b, c, Counting(l)) = DecisionOn(base, cand, l)
<1>1. /\ l.persisting \in Nat
      /\ l.resolved = Len(base) - l.persisting /\ l.resolved \in Nat
      /\ l.introduced = {j \in DOMAIN cand :
                           \A i \in DOMAIN base : base[i].code # cand[j].code}
      /\ Cardinality(l.introduced) \in Nat /\ Cardinality(l.revealed) \in Nat
      /\ l.persisting + Cardinality(l.introduced) + Cardinality(l.revealed) = Len(cand)
  BY LedgerParts, SMTT(30)
<1>2. /\ Counts(max)!Errors(b) \in Nat
      /\ Counts(max)!Errors(b) = Cardinality({i \in DOMAIN base : Blocking(base[i])})
      /\ Counts(max)!Total(b) = Len(base)
      /\ b.syntax = 0 <=> \A i \in DOMAIN base : base[i].code # "SYNTAX"
  BY CountsAre
<1>3. /\ Counts(max)!Errors(c) \in Nat
      /\ Counts(max)!Errors(c) = Cardinality({i \in DOMAIN cand : Blocking(cand[i])})
      /\ Counts(max)!Total(c) = Len(cand)
      /\ c.syntax = 0 <=> \A i \in DOMAIN cand : cand[i].code # "SYNTAX"
  BY CountsAre
<1>4. b.syntax \in Nat /\ c.syntax \in Nat
        /\ c.syntax = Cardinality({j \in DOMAIN cand : cand[j].code = "SYNTAX"})
  BY DEF Counted
<1>5. /\ Len(base) \in Nat /\ Len(cand) \in Nat
      /\ DOMAIN base = 1 .. Len(base) /\ IsFiniteSet(DOMAIN cand)
      /\ Cardinality(DOMAIN cand) = Len(cand)
      /\ \A S \in SUBSET DOMAIN cand : IsFiniteSet(S)
  BY SequenceParts
<1> DEFINE k == Counting(l)
<1>6. k \in [persisting: Nat, introduced: Nat] /\ k.persisting = l.persisting
        /\ k.introduced = Cardinality(l.introduced)
  BY <1>1 DEF Counting
<1>7. Counts(max)!Revealed(c, k) = Cardinality(l.revealed)
  <2>1. Counts(max)!Revealed(c, k) = Counts(max)!Total(c) - k.persisting - k.introduced
    BY DEF Counts!Revealed
  <2> HIDE DEF k
  <2> QED BY <1>1, <1>3, <1>5, <1>6, <2>1, SMTT(30)
<1>8. k \in Counts(max)!Ledgers(b, c)
  <2>1. k \in [persisting: 0 .. max, introduced: 0 .. max]
    <3>1. l.persisting \in 0 .. max /\ Cardinality(l.introduced) \in 0 .. max
      BY <1>1, <1>5
    <3> QED BY <3>1 DEF Counting
  <2>2. k.persisting <= Counts(max)!Total(b)
          /\ k.persisting + k.introduced <= Counts(max)!Total(c)
    <3> DEFINE n == Cardinality(l.introduced)
    <3> HIDE DEF k, n
    <3>1. l.persisting \in Nat /\ n \in Nat /\ Cardinality(l.revealed) \in Nat
            /\ l.persisting + n + Cardinality(l.revealed) = Len(cand)
      BY <1>1 DEF n
    <3>2. l.persisting + n <= Len(cand)
      BY <1>5, <3>1
    <3>3. k.persisting = l.persisting /\ k.introduced = n
      BY <1>6 DEF n
    <3>4. l.persisting <= Len(base)
      <4>1. l.resolved = Len(base) - l.persisting /\ l.resolved \in Nat
        BY <1>1
      <4> QED BY <1>5, <3>1, <4>1
    <3> QED BY <1>2, <1>3, <3>2, <3>3, <3>4
  <2>3. ASSUME Counts(max)!Total(b) = 0  PROVE k.introduced = Counts(max)!Total(c)
    <3>1. DOMAIN base = {}
      BY <1>2, <1>5, <2>3
    <3>2. l.introduced = DOMAIN cand
      BY <1>1, <3>1
    <3> QED BY <1>3, <1>5, <1>6, <3>2
  <2>4. ASSUME b.syntax = 0  PROVE k.introduced >= c.syntax
    <3> DEFINE S == {j \in DOMAIN cand : cand[j].code = "SYNTAX"}
    <3>1. S \subseteq l.introduced
      BY <1>1, <1>2, <2>4
    <3>2. IsFiniteSet(l.introduced)
      BY <1>1, <1>5
    <3>3. Cardinality(S) <= Cardinality(l.introduced)
      BY <3>1, <3>2, FS_Subset
    <3> QED BY <1>1, <1>4, <1>6, <3>3
  <2> HIDE DEF k
  <2> QED BY <2>1, <2>2, <2>3, <2>4 DEF Counts!Ledgers, Counts!Count
<1>9. Counts(max)!classifyDiagnostics(b, c, k) = DecisionOn(base, cand, l)
  <2> DEFINE new == Cardinality(l.introduced)
             score == 3 * l.resolved - Cardinality(l.revealed) - 5 * new
             broke == /\ \E j \in l.introduced : cand[j].code = "SYNTAX"
                      /\ \A f \in ToSet(base) : f.code # "SYNTAX"
             more == Cardinality({i \in DOMAIN cand : Blocking(cand[i])})
                       > Cardinality({i \in DOMAIN base : Blocking(base[i])})
  <2>1. DecisionOn(base, cand, l) =
          IF broke \/ more THEN "REJECT_REGRESSION"
          ELSE IF l.resolved > 0
               THEN IF new = 0 \/ score >= -2 THEN "ACCEPT_PROGRESS"
                    ELSE "REJECT_NO_IMPROVEMENT"
               ELSE IF new = 0 THEN "ACCEPT_EQUIVALENT" ELSE "REJECT_REGRESSION"
    BY DEF DecisionOn
  <2>2. broke <=> b.syntax = 0 /\ c.syntax > 0
    <3>1. (\A f \in ToSet(base) : f.code # "SYNTAX") <=> b.syntax = 0
      BY <1>2 DEF ToSet
    <3>2. c.syntax > 0 <=> \E j \in DOMAIN cand : cand[j].code = "SYNTAX"
      BY <1>3, <1>4
    <3>3. ASSUME b.syntax = 0
          PROVE  (\E j \in l.introduced : cand[j].code = "SYNTAX")
                   <=> \E j \in DOMAIN cand : cand[j].code = "SYNTAX"
      BY <1>1, <1>2, <3>3
    <3> QED BY <3>1, <3>2, <3>3
  <2>3. more <=> Counts(max)!Errors(c) > Counts(max)!Errors(b)
    BY <1>2, <1>3
  <2>4. Counts(max)!classifyDiagnostics(b, c, k) =
          LET resolved == Counts(max)!Total(b) - k.persisting
              points == 3 * resolved - Counts(max)!Revealed(c, k) - 5 * k.introduced
          IN  IF \/ Counts(max)!Errors(c) > Counts(max)!Errors(b)
                 \/ b.syntax = 0 /\ c.syntax > 0
                 \/ resolved = 0 /\ k.introduced > 0
              THEN "REJECT_REGRESSION"
              ELSE IF resolved = 0 THEN "ACCEPT_EQUIVALENT"
              ELSE IF k.introduced = 0 \/ points >= -2 THEN "ACCEPT_PROGRESS"
              ELSE "REJECT_NO_IMPROVEMENT"
    BY DEF Counts!classifyDiagnostics
  <2>5. Counts(max)!Total(b) - k.persisting = l.resolved
    BY <1>1, <1>2, <1>6
  <2>6. Counts(max)!classifyDiagnostics(b, c, k) =
          IF more \/ broke \/ (l.resolved = 0 /\ new > 0) THEN "REJECT_REGRESSION"
          ELSE IF l.resolved = 0 THEN "ACCEPT_EQUIVALENT"
          ELSE IF new = 0 \/ score >= -2 THEN "ACCEPT_PROGRESS"
          ELSE "REJECT_NO_IMPROVEMENT"
    <3> HIDE DEF k, broke, more
    <3> QED BY <1>6, <1>7, <2>2, <2>3, <2>4, <2>5
  <2>7. l.resolved \in Nat /\ new \in Nat
    BY <1>1
  <2> HIDE DEF new, score, broke, more, k
  <2> QED BY <2>1, <2>6, <2>7
<1> QED BY <1>7, <1>8, <1>9

\* The pairing of the findings ends with one of the ledgers that LintLoop explores for
\* their counts, and the decision on the counts is the one on the findings: whatever the
\* findings are, however many, and whichever texts count as alike.
THEOREM CountsAreTheClassifiers ==
  ASSUME NEW Finding, NEW base \in Seq(Finding), NEW cand \in Seq(Finding), NEW alike,
         NEW b, Counted(b, base), NEW c, Counted(c, cand),
         NEW max \in Nat, Len(cand) <= max
  PROVE  PairSpec(base, cand, alike) =>
           [](pairing.next > Len(base) =>
                LET l == LedgerOf(base, cand, pairing.taken) IN
                /\ Counting(l) \in Counts(max)!Ledgers(b, c)
                /\ Counts(max)!Revealed(c, Counting(l)) = Cardinality(l.revealed)
                /\ Counts(max)!classifyDiagnostics(b, c, Counting(l))
                     = DecisionOn(base, cand, l))
<1> DEFINE l == LedgerOf(base, cand, pairing.taken)
           Same == /\ Counting(l) \in Counts(max)!Ledgers(b, c)
                   /\ Counts(max)!Revealed(c, Counting(l)) = Cardinality(l.revealed)
                   /\ Counts(max)!classifyDiagnostics(b, c, Counting(l))
                        = DecisionOn(base, cand, l)
<1>1. PairInv(base, cand, alike) => (pairing.next > Len(base) => Same)
  <2> SUFFICES ASSUME PairInv(base, cand, alike), pairing.next > Len(base)  PROVE Same
    OBVIOUS
  <2>1. IsPairing(base, cand, alike, pairing.taken)
    BY PairingIsDone
  <2> HIDE DEF l
  <2>2. l = LedgerOf(base, cand, pairing.taken)
    BY DEF l
  <2> QED BY <2>1, <2>2, CountsLoseNothing
<1> QED BY <1>1, PairInvariant, PTL

\* What the acceptance of a fix promises of the findings: no more of them block than
\* before, none is a syntax error where there was none, and either a finding of the
\* baseline is gone, or all persist and what is left has a code that the baseline has.
AcceptedKeepsGround(base, cand) ==
  LET d == DecisionOn(base, cand, LedgerOf(base, cand, pairing.taken)) IN
  d \in Accepting =>
    /\ Cardinality({j \in DOMAIN cand : Blocking(cand[j])})
         <= Cardinality({i \in DOMAIN base : Blocking(base[i])})
    /\ (\E j \in DOMAIN cand : cand[j].code = "SYNTAX")
         => \E i \in DOMAIN base : base[i].code = "SYNTAX"
    /\ IF d = "ACCEPT_PROGRESS" THEN pairing.resolved # {}
       ELSE /\ pairing.resolved = {}
            /\ \A j \in DOMAIN cand : \E i \in DOMAIN base : base[i].code = cand[j].code

THEOREM AcceptedFixKeepsGround ==
  ASSUME NEW Finding, NEW base \in Seq(Finding), NEW cand \in Seq(Finding), NEW alike
  PROVE  PairSpec(base, cand, alike)
           => [](pairing.next > Len(base) => AcceptedKeepsGround(base, cand))
<1>1. PairInv(base, cand, alike)
        => (pairing.next > Len(base) => AcceptedKeepsGround(base, cand))
  <2> SUFFICES ASSUME PairInv(base, cand, alike), pairing.next > Len(base)
               PROVE  AcceptedKeepsGround(base, cand)
    OBVIOUS
  <2> DEFINE l == LedgerOf(base, cand, pairing.taken)
             d == DecisionOn(base, cand, l)
             new == Cardinality(l.introduced)
             score == 3 * l.resolved - Cardinality(l.revealed) - 5 * new
             before == Cardinality({i \in DOMAIN base : Blocking(base[i])})
             after == Cardinality({j \in DOMAIN cand : Blocking(cand[j])})
             broke == /\ \E j \in l.introduced : cand[j].code = "SYNTAX"
                      /\ \A f \in ToSet(base) : f.code # "SYNTAX"
  <2>1. SUFFICES ASSUME d \in Accepting
               PROVE  /\ after <= before
                      /\ (\E j \in DOMAIN cand : cand[j].code = "SYNTAX")
                           => \E i \in DOMAIN base : base[i].code = "SYNTAX"
                      /\ IF d = "ACCEPT_PROGRESS" THEN pairing.resolved # {}
                         ELSE /\ pairing.resolved = {}
                              /\ \A j \in DOMAIN cand :
                                   \E i \in DOMAIN base : base[i].code = cand[j].code
    BY DEF AcceptedKeepsGround
  <2>2. d = IF broke \/ after > before THEN "REJECT_REGRESSION"
            ELSE IF l.resolved > 0
                 THEN IF new = 0 \/ score >= -2 THEN "ACCEPT_PROGRESS"
                      ELSE "REJECT_NO_IMPROVEMENT"
                 ELSE IF new = 0 THEN "ACCEPT_EQUIVALENT" ELSE "REJECT_REGRESSION"
    BY DEF DecisionOn
  <2>3. /\ IsPairing(base, cand, alike, pairing.taken)
        /\ Cardinality(pairing.taken) + Cardinality(pairing.resolved) = Len(base)
        /\ Cardinality(pairing.taken) \in Nat /\ Cardinality(pairing.resolved) \in Nat
    BY PairingIsDone
  <2>4. /\ l.persisting = Cardinality(pairing.taken)
        /\ l.resolved = Len(base) - l.persisting
        /\ \A j \in DOMAIN cand :
             (\A i \in DOMAIN base : base[i].code # cand[j].code) => j \in l.introduced
        /\ Cardinality(l.introduced) \in Nat
    <3> HIDE DEF l, d, new, score, before, after, broke
    <3>1. l = LedgerOf(base, cand, pairing.taken)
      BY DEF l
    <3>2. l.persisting = Cardinality(pairing.taken)
            /\ l.resolved = Len(base) - l.persisting /\ Cardinality(l.introduced) \in Nat
      BY <2>3, <3>1, LedgerParts
    <3>3. \A j \in DOMAIN cand :
            (\A i \in DOMAIN base : base[i].code # cand[j].code) => j \in l.introduced
      BY <2>3, <3>1, NewCodeIsIntroduced
    <3> QED BY <3>2, <3>3
  <2>5. IsFiniteSet(l.introduced) /\ IsFiniteSet(pairing.resolved) /\ Len(base) \in Nat
          /\ before \in Nat /\ after \in Nat
    <3> HIDE DEF l
    <3>1. l.introduced \in SUBSET DOMAIN cand
      BY DEF l, LedgerOf
    <3>2. pairing.resolved \in SUBSET DOMAIN base
      BY DEF PairInv, PairingOf
    <3>3. {i \in DOMAIN base : Blocking(base[i])} \in SUBSET DOMAIN base
            /\ {j \in DOMAIN cand : Blocking(cand[j])} \in SUBSET DOMAIN cand
      OBVIOUS
    <3> QED BY <3>1, <3>2, <3>3, SequenceParts
  <2> HIDE DEF l, d, new, score, before, after, broke
  <2>6. l.resolved = Cardinality(pairing.resolved)
    BY <2>3, <2>4, <2>5
  <2>7. ~ broke /\ ~ (after > before)
          /\ (d = "ACCEPT_PROGRESS" => l.resolved > 0)
          /\ (d # "ACCEPT_PROGRESS" => ~ (l.resolved > 0) /\ new = 0)
    BY <2>1, <2>2 DEF Accepting
  <2>8. after <= before
    BY <2>5, <2>7
  <2>9. ASSUME NEW j \in DOMAIN cand, cand[j].code = "SYNTAX",
               \A i \in DOMAIN base : base[i].code # "SYNTAX"
        PROVE  FALSE
    <3>1. j \in l.introduced
      BY <2>4, <2>9
    <3>2. \A f \in ToSet(base) : f.code # "SYNTAX"
      BY <2>9 DEF ToSet
    <3> QED BY <2>7, <2>9, <3>1, <3>2 DEF broke
  <2>10. CASE d = "ACCEPT_PROGRESS"
    <3>1. Cardinality(pairing.resolved) > 0
      BY <2>6, <2>7, <2>10
    <3>2. Cardinality(pairing.resolved) # 0
      BY <3>1
    <3>3. pairing.resolved # {}
      BY <2>5, <3>2, FS_EmptySet, Zenon
    <3> QED BY <2>8, <2>9, <2>10, <3>3
  <2>11. CASE d # "ACCEPT_PROGRESS"
    <3>1. Cardinality(pairing.resolved) = 0 /\ Cardinality(l.introduced) = 0
      BY <2>3, <2>6, <2>7, <2>11 DEF new
    <3>2. pairing.resolved = {} /\ l.introduced = {}
      BY <2>5, <3>1, FS_EmptySet
    <3> QED BY <2>4, <2>8, <2>9, <2>11, <3>2
  <2> QED BY <2>10, <2>11
<1> QED BY <1>1, PairInvariant, PTL
====
