--------------------------- MODULE LintLoop_proofs ---------------------------
(* Theorems about LintLoop, for any bounds and settings.  Spec => []IInv by  *)
(* one lemma per action; the properties follow from IInv.                    *)
EXTENDS LintLoop, TLAPS

Known == [code: Code, lint: LintResult]

\* What the steps of an iteration have at hand, and the counters' bounds.
BoundsInv ==
    /\ pc \in {"measure", "fix", "recheck"} => stagnation <= 1 /\ escalations <= 1
    /\ pc \in {"measure", "fix"} => tried < iter
    /\ pc \in {"fix", "recheck"} => lint \in LintResult /\ best \in Known
    /\ pc = "measure" => IF iter = 1 THEN best = None ELSE best \in Known
    /\ pc = "recheck" => candidate \in Code
    /\ pc \in {"stopped", "done"} => lint \in LintResult
    /\ best \in Known => base \in Diagnosis

\* Identities: a candidate's is new, so two codes of one identity are the same.
IdsInv ==
    /\ code.id <= tried
    /\ best \in Known =>
        /\ best.code.id <= tried
        /\ best.code.id = code.id => best.code = code
        /\ best.lint.of = best.code.id
    /\ pc = "recheck" =>
        candidate.id = tried /\ code.id < tried /\ best.code.id < tried
    /\ pc \in {"fix", "recheck"} => lint.of = code.id /\ ~lintConverged(lint)

\* With a strict backend a result is the truth about the code it measured; the
\* least count held is that of the best code or of the code held; and the
\* signature of an adopted candidate adds up to its count.
StrictInv ==
    cfg.mode = "strict" =>
        /\ base # None => Errors(code.diag) <= Errors(base)
        /\ best \in Known =>
            /\ best.lint.diag = best.code.diag
            /\ Errors(best.code.diag) <= Errors(base)
        /\ pc \in {"fix", "recheck"} =>
            /\ lint.diag = code.diag
            /\ Total(best.code.diag) <= Total(code.diag)
        /\ best = None => fewest = Total(code.diag)
        /\ best # None /\ pc # "done" =>
            fewest = Least(Total(best.code.diag), Total(code.diag))
        /\ /\ lastSig \in Signature
           /\ lastSig.decision # "REJECT_REGRESSION"
           /\ pc \in {"measure", "fix", "recheck"}
           => Total(code.diag) =
                lastSig.persisting + lastSig.introduced + lastSig.revealed

\* When the loop has stopped its result describes the code it holds, but for a
\* stop on a repeated outcome, where at least the counts agree.
StoppedInv ==
    pc = "stopped" =>
        /\ lint.of # code.id => stagnation = 2 /\ ~lintConverged(lint)
        /\ cfg.mode = "strict" =>
            /\ Total(lint.diag) = Total(code.diag)
            /\ lint.of = code.id => lint.diag = code.diag

DoneInv ==
    /\ ShipsBestKnown
    /\ ReportDescribesShipped
    /\ ReportCountIsTrue
    /\ LintStatusIsHonest

IInv == TypeOK /\ BoundsInv /\ IdsInv /\ StrictInv /\ StoppedInv /\ DoneInv

-----------------------------------------------------------------------------
\* Counts are natural numbers within the bound.
LEMMA Counts ==
    ASSUME NEW d \in Diagnosis
    PROVE  /\ Errors(d) \in Count /\ Total(d) \in Count
           /\ Errors(d) \in Nat /\ Total(d) \in Nat
           /\ Errors(d) <= Total(d)
  BY MaxIssuesIsNat DEF Diagnosis, Errors, Total, Count

\* Code without findings passes.
LEMMA NothingGates ==
    ASSUME NEW d \in Diagnosis, Total(d) = 0
    PROVE  ~Gating(d)
  BY MaxIssuesIsNat DEF Diagnosis, Errors, Total, Count, Gating

\* A record with other fields is not None.
LEMMA KnownIsSome == \A b \in Known : b # None
  <1> SUFFICES ASSUME NEW b \in Known, b = None PROVE FALSE
    OBVIOUS
  <1>1. DOMAIN b = {"code", "lint"}
    BY DEF Known
  <1>2. DOMAIN b = {"none"}
    BY DEF None
  <1> QED
    BY <1>1, <1>2

LEMMA DiagnosisIsSome == \A d \in Diagnosis : d # None
  <1> SUFFICES ASSUME NEW d \in Diagnosis, d = None PROVE FALSE
    OBVIOUS
  <1>1. DOMAIN d = {"syntax", "error", "semantic", "hygiene"}
    BY DEF Diagnosis
  <1>2. DOMAIN d = {"none"}
    BY DEF None
  <1> QED
    BY <1>1, <1>2

\* What step A may return: of the code held, and the truth under a strict
\* backend.
LEMMA MeasurementFacts ==
    ASSUME TypeOK, NEW l \in Measurements
    PROVE  /\ l \in LintResult /\ l.diag \in Diagnosis
           /\ l.of = code.id
           /\ cfg.mode = "strict" => l.diag = code.diag
  <1>1. CASE l \in ByModel /\ cfg.mode # "strict"
    BY <1>1, EstimatesAreDiagnoses DEF ByModel, LintResult, TypeOK, Code
  <1>2. CASE l = ByLinter
    BY <1>2 DEF ByLinter, LintResult, TypeOK, Code, Gating
  <1> QED
    BY <1>1, <1>2 DEF Measurements

LEMMA LeastOfTwo ==
    ASSUME NEW m \in Nat, NEW n \in Nat
    PROVE  /\ Least(m, n) \in {m, n}
           /\ Least(m, n) <= m /\ Least(m, n) <= n
           /\ m <= n => Least(m, n) = m
           /\ n <= m => Least(m, n) = n
  BY DEF Least

-----------------------------------------------------------------------------
\* Tracking a measurement: the best code is typed, older or this one, and under
\* a strict backend the least count held is the best's.
LEMMA Tracking ==
    ASSUME IInv, pc = "measure", NEW l \in Measurements, Track(l),
           UNCHANGED <<cfg, code, tried, fewest>>
    PROVE  /\ lint' = l /\ l \in LintResult /\ l.of = code.id
           /\ base' \in Diagnosis /\ best' \in Known
           /\ best'.code.id <= tried
           /\ best'.code.id = code.id => best'.code = code
           /\ best'.lint.of = best'.code.id
           /\ cfg.mode = "strict" =>
                /\ l.diag = code.diag
                /\ Errors(code.diag) <= Errors(base')
                /\ best'.lint.diag = best'.code.diag
                /\ Errors(best'.code.diag) <= Errors(base')
                /\ Total(best'.code.diag) <= Total(code.diag)
                /\ fewest = Total(best'.code.diag)
  <1> DEFINE b == [code |-> code, lint |-> l]
  <1>1. l \in LintResult /\ l.diag \in Diagnosis /\ l.of = code.id
        /\ (cfg.mode = "strict" => l.diag = code.diag)
    BY MeasurementFacts DEF IInv
  <1>2. code \in Code /\ code.diag \in Diagnosis /\ code.id \in Nat
    BY DEF IInv, TypeOK, Code
  <1>3. b \in Known /\ b.code = code /\ b.lint = l
    BY <1>1, <1>2 DEF Known
  <1>4. lint' = l /\ base' = (IF iter = 1 THEN l.diag ELSE base)
        /\ best' = (IF iter = 1 \/ Better(l) THEN b ELSE best)
    BY DEF Track
  <1>5. iter # 1 => best \in Known /\ base \in Diagnosis
    BY DEF IInv, TypeOK, BoundsInv
  <1>6. Total(code.diag) \in Nat /\ Errors(code.diag) \in Nat
    BY <1>2, Counts
  <1>7. CASE iter = 1
    <2>1. best' = b /\ base' = l.diag
      BY <1>4, <1>7
    <2>2. cfg.mode = "strict" => fewest = Total(code.diag)
      BY <1>7 DEF IInv, BoundsInv, StrictInv
    <2> QED
      BY <1>1, <1>2, <1>3, <1>4, <1>6, <2>1, <2>2 DEF IInv, IdsInv
  <1>8. CASE iter # 1
    <2>1. best \in Known /\ base \in Diagnosis /\ base' = base
          /\ best # None /\ base # None
      BY <1>4, <1>5, <1>8, KnownIsSome, DiagnosisIsSome
    <2>2. best.code.diag \in Diagnosis /\ best.lint \in LintResult
          /\ Total(best.code.diag) \in Nat
      <3>1. best.code \in Code /\ best.lint \in LintResult
        BY <2>1 DEF Known
      <3> QED
        BY <3>1, Counts DEF Code
    <2>3. /\ best.code.id <= tried
          /\ best.code.id = code.id => best.code = code
          /\ best.lint.of = best.code.id
          /\ code.id <= tried
      BY <2>1 DEF IInv, IdsInv
    <2>4. cfg.mode = "strict" =>
            /\ Errors(code.diag) <= Errors(base)
            /\ best.lint.diag = best.code.diag
            /\ Errors(best.code.diag) <= Errors(base)
            /\ fewest = Least(Total(best.code.diag), Total(code.diag))
      BY <2>1 DEF IInv, StrictInv
    <2>5. CASE Better(l)
      <3>1. best' = b
        BY <1>4, <2>5
      <3>2. cfg.mode = "strict" =>
                Total(code.diag) < Total(best.code.diag)
        BY <2>4, <2>5, <1>1 DEF Better
      <3>3. cfg.mode = "strict" => fewest = Total(code.diag)
        BY <2>2, <2>4, <3>2, <1>6, LeastOfTwo
      <3> QED
        BY <1>1, <1>2, <1>3, <1>4, <1>6, <2>1, <2>3, <2>4, <3>1, <3>3
    <2>6. CASE ~Better(l)
      <3>1. best' = best
        BY <1>4, <1>8, <2>6
      <3>2. cfg.mode = "strict" =>
                Total(best.code.diag) <= Total(code.diag)
        BY <2>2, <2>4, <2>6, <1>1, <1>6 DEF Better
      <3>3. cfg.mode = "strict" => fewest = Total(best.code.diag)
        BY <2>2, <2>4, <3>2, <1>6, LeastOfTwo
      <3> QED
        BY <1>1, <1>4, <2>1, <2>3, <2>4, <3>1, <3>2, <3>3
    <2> QED
      BY <2>5, <2>6
  <1> QED
    BY <1>7, <1>8

-----------------------------------------------------------------------------
\* One lemma per action.

LEMMA InitHolds == Init => IInv
  <1> SUFFICES ASSUME Init PROVE IInv
    OBVIOUS
  <1>1. PICK d \in Answers[cfg.mode] : code = [id |-> 0, diag |-> d]
    BY DEF Init
  <1>2. d \in Diagnosis
    BY AnswersAreDiagnoses DEF Init, Config
  <1>3. code \in Code /\ code.diag = d /\ code.id = 0
    BY <1>1, <1>2, MaxItersPositive DEF Code
  <1>4. Total(d) \in Count
    BY <1>2, Counts
  <1>5. TypeOK
    BY <1>3, <1>4, MaxItersPositive, MaxIssuesIsNat
       DEF Init, TypeOK, Count, Statuses
  <1>6. best \notin Known /\ lastSig \notin Signature
    <2>1. best = None
      BY DEF Init
    <2>2. ASSUME NEW g \in Signature PROVE g # None
      <3>1. DOMAIN g = {"decision", "persisting", "introduced", "revealed"}
        BY DEF Signature
      <3>2. DOMAIN None = {"none"}
        BY DEF None
      <3> QED
        BY <3>1, <3>2
    <2> QED
      BY <2>1, <2>2, KnownIsSome DEF Init
  <1>7. BoundsInv /\ IdsInv
    BY <1>3, <1>6 DEF Init, BoundsInv, IdsInv
  <1>8. StrictInv
    BY <1>6 DEF Init, StrictInv
  <1>9. StoppedInv /\ DoneInv
    BY DEF Init, StoppedInv, DoneInv, ShipsBestKnown, ReportDescribesShipped,
           ReportCountIsTrue, LintStatusIsHonest, StatusIsHonest
  <1> QED
    BY <1>5, <1>7, <1>8, <1>9 DEF IInv

\* The properties of the return concern done only.
LEMMA NotDone == pc' # "done" => DoneInv'
  BY DEF DoneInv, ShipsBestKnown, ReportDescribesShipped, ReportCountIsTrue,
         LintStatusIsHonest, StatusIsHonest

LEMMA RtlErrorsOnlyHolds == ASSUME IInv, RtlErrorsOnly PROVE IInv'
  <1>1. PICK l \in Measurements : lint' = l
    BY DEF RtlErrorsOnly
  <1>2. l \in LintResult /\ l.of = code.id
        /\ (cfg.mode = "strict" => l.diag = code.diag)
    BY MeasurementFacts DEF IInv
  <1>3. pc = "measure" /\ pc' = "stopped"
        /\ UNCHANGED <<cfg, iter, code, candidate, tried, base, best, lastSig,
                       stagnation, prevErrors, escalations, status, fewest>>
    BY DEF RtlErrorsOnly, brakes
  <1>4. TypeOK'
    BY <1>1, <1>2, <1>3 DEF IInv, TypeOK
  <1>5. BoundsInv'
    BY <1>1, <1>2, <1>3 DEF IInv, BoundsInv
  <1>6. IdsInv'
    BY <1>3 DEF IInv, IdsInv
  <1>7. StrictInv'
    BY <1>3 DEF IInv, StrictInv
  <1>8. StoppedInv'
    BY <1>1, <1>2, <1>3 DEF StoppedInv
  <1> QED
    BY <1>3, <1>4, <1>5, <1>6, <1>7, <1>8, NotDone DEF IInv

\* Converge, Diverge and AskForFix: a measurement is tracked.
LEMMA TrackedHolds ==
    ASSUME IInv, pc = "measure", NEW l \in Measurements, Track(l),
           UNCHANGED <<cfg, iter, code, candidate, tried, lastSig, stagnation,
                       status, fewest>>,
           escalations' \in 0 .. 2, prevErrors' \in Count,
           \/ pc' = "stopped"
           \/ /\ pc' = "fix" /\ ~lintConverged(l) /\ ~LastIteration
              /\ escalations' <= 1
    PROVE  IInv'
  <1>1. /\ lint' = l /\ l \in LintResult /\ l.of = code.id
        /\ base' \in Diagnosis /\ best' \in Known
        /\ best'.code.id <= tried
        /\ best'.code.id = code.id => best'.code = code
        /\ best'.lint.of = best'.code.id
    BY Tracking
  <1>2. cfg.mode = "strict" =>
            /\ l.diag = code.diag
            /\ Errors(code.diag) <= Errors(base')
            /\ best'.lint.diag = best'.code.diag
            /\ Errors(best'.code.diag) <= Errors(base')
            /\ Total(best'.code.diag) <= Total(code.diag)
            /\ fewest = Total(best'.code.diag)
    BY Tracking
  <1>3. best' # None
    BY <1>1, KnownIsSome
  <1>4. TypeOK'
    BY <1>1, MaxItersPositive
       DEF IInv, TypeOK, Known, LastIteration
  <1>5. BoundsInv'
    BY <1>1 DEF IInv, BoundsInv
  <1>6. IdsInv'
    <2>1. (lintConverged(lint))' <=> lintConverged(l)
      BY <1>1 DEF lintConverged, Gating
    <2> QED
      BY <1>1, <2>1 DEF IInv, IdsInv
  <1>7. StrictInv'
    <2>1. Total(best'.code.diag) \in Nat /\ Total(code.diag) \in Nat
      <3>1. best'.code.diag \in Diagnosis /\ code.diag \in Diagnosis
        BY <1>1 DEF Known, Code, IInv, TypeOK
      <3> QED
        BY <3>1, Counts
    <2>2. cfg.mode = "strict" =>
            fewest = Least(Total(best'.code.diag), Total(code.diag))
      BY <1>2, <2>1, LeastOfTwo
    <2> QED
      BY <1>1, <1>2, <1>3, <2>2 DEF IInv, StrictInv
  <1>8. StoppedInv'
    BY <1>1, <1>2 DEF StoppedInv
  <1> QED
    BY <1>4, <1>5, <1>6, <1>7, <1>8, NotDone DEF IInv

LEMMA ConvergeHolds == ASSUME IInv, Converge PROVE IInv'
  <1>1. PICK l \in Measurements : Track(l)
    BY DEF Converge
  <1>2. escalations' \in 0 .. 2 /\ prevErrors' \in Count
    BY DEF Converge, brakes, IInv, TypeOK
  <1> QED
    BY <1>1, <1>2, TrackedHolds DEF Converge, brakes

LEMMA DivergeHolds == ASSUME IInv, Diverge PROVE IInv'
  <1>1. PICK l \in Measurements : Track(l)
    BY DEF Diverge
  <1>2. escalations' \in 0 .. 2 /\ prevErrors' \in Count
    BY DEF Diverge, IInv, TypeOK
  <1> QED
    BY <1>1, <1>2, TrackedHolds DEF Diverge

LEMMA AskForFixHolds == ASSUME IInv, AskForFix PROVE IInv'
  <1>1. PICK l \in Measurements :
            /\ ~lintConverged(l) /\ ~LastIteration
            /\ Track(l)
            /\ escalations' = IF Rises(l) THEN 1 ELSE 0
            /\ prevErrors' = Errors(l.diag)
    BY DEF AskForFix
  <1>2. escalations' \in 0 .. 2 /\ escalations' <= 1 /\ prevErrors' \in Count
    <2>1. l.diag \in Diagnosis
      BY MeasurementFacts DEF IInv
    <2> QED
      BY <1>1, <2>1, Counts
  <1> QED
    BY <1>1, <1>2, TrackedHolds DEF AskForFix

\* The loop goes on or stops: iter stays within its bound.
LEMMA Continues ==
    ASSUME TypeOK, pc \in {"fix", "recheck"}, Continue
    PROVE  /\ \/ stagnation' >= 2 /\ pc' = "stopped" /\ iter' = iter
              \/ ~(stagnation' >= 2) /\ pc' = "measure" /\ iter' = iter + 1
           /\ iter' \in 1 .. MaxIters /\ iter' \in Nat /\ iter' >= iter
           /\ pc' = "measure" => iter' > iter /\ iter' # 1
  BY MaxItersPositive DEF Continue, TypeOK

LEMMA FruitlessHolds == ASSUME IInv, Fruitless PROVE IInv'
  <1>1. pc = "fix" /\ stagnation' = stagnation + 1
        /\ UNCHANGED <<cfg, code, candidate, tried, base, lint, best, lastSig,
                       prevErrors, escalations, status, fewest>>
    BY DEF Fruitless
  <1>2. /\ \/ stagnation' >= 2 /\ pc' = "stopped" /\ iter' = iter
           \/ ~(stagnation' >= 2) /\ pc' = "measure" /\ iter' = iter + 1
        /\ iter' \in 1 .. MaxIters /\ iter' \in Nat /\ iter' >= iter
        /\ pc' = "measure" => iter' > iter /\ iter' # 1
    BY Continues DEF Fruitless, IInv
  <1>3. stagnation \in 0 .. 1 /\ escalations <= 1 /\ tried < iter
        /\ iter \in Nat /\ tried \in Nat
        /\ lint \in LintResult /\ best \in Known /\ base \in Diagnosis
        /\ lint.of = code.id
    BY <1>1, MaxItersPositive DEF IInv, TypeOK, BoundsInv, IdsInv
  <1>4. TypeOK'
    BY <1>1, <1>2, <1>3 DEF IInv, TypeOK
  <1>5. BoundsInv'
    BY <1>1, <1>2, <1>3 DEF BoundsInv
  <1>6. IdsInv'
    BY <1>1, <1>2 DEF IInv, IdsInv
  <1>7. StrictInv'
    BY <1>1, <1>2 DEF IInv, StrictInv
  <1>8. StoppedInv'
    BY <1>1, <1>2, <1>3 DEF IInv, StrictInv, StoppedInv
  <1> QED
    BY <1>2, <1>4, <1>5, <1>6, <1>7, <1>8, NotDone DEF IInv

LEMMA FixHolds == ASSUME IInv, Fix PROVE IInv'
  <1>1. PICK d \in Answers[cfg.mode] : candidate' = [id |-> tried + 1, diag |-> d]
    BY DEF Fix
  <1>2. pc = "fix" /\ pc' = "recheck" /\ tried' = tried + 1
        /\ UNCHANGED <<cfg, iter, code, base, lint, best, lastSig, stagnation,
                       prevErrors, escalations, status, fewest>>
    BY DEF Fix, brakes
  <1>3. d \in Diagnosis
    BY AnswersAreDiagnoses DEF IInv, TypeOK, Config
  <1>4. tried \in Nat /\ tried + 1 <= iter /\ iter \in 1 .. MaxIters
    BY <1>2, MaxItersPositive DEF IInv, TypeOK, BoundsInv
  <1>5. candidate' \in Code /\ candidate'.id = tried'
    BY <1>1, <1>2, <1>3, <1>4, MaxItersPositive DEF Code
  <1>6. lint \in LintResult /\ best \in Known /\ code \in Code
        /\ best.code \in Code
    BY <1>2 DEF IInv, BoundsInv, TypeOK, Known
  <1>7. TypeOK'
    BY <1>2, <1>4, <1>5, MaxItersPositive DEF IInv, TypeOK
  <1>8. BoundsInv'
    BY <1>2, <1>5 DEF IInv, BoundsInv
  <1>9. IdsInv'
    <2>1. code.id \in Nat /\ best.code.id \in Nat
      BY <1>6 DEF Code
    <2>2. (lintConverged(lint))' <=> lintConverged(lint)
      BY <1>2 DEF lintConverged, Gating
    <2> QED
      BY <1>2, <1>4, <1>5, <1>6, <2>1, <2>2 DEF IInv, IdsInv
  <1>10. StrictInv'
    BY <1>2 DEF IInv, StrictInv
  <1>11. StoppedInv'
    BY <1>2 DEF StoppedInv
  <1> QED
    BY <1>2, <1>7, <1>8, <1>9, <1>10, <1>11, NotDone DEF IInv

\* What Recheck and Unchecked share: the candidate is adopted or not, and its
\* outcome compared.
LEMMA CheckedHolds ==
    ASSUME IInv, pc = "recheck", NEW sig \in Signature, Compare(sig),
           candidate' = None,
           UNCHANGED <<cfg, tried, base, lint, best, prevErrors, escalations,
                       status>>,
           \/ UNCHANGED <<code, fewest>> /\ sig.decision = "REJECT_REGRESSION"
           \/ /\ Adopt
              /\ sig.decision # "REJECT_REGRESSION"
              /\ cfg.mode = "strict" =>
                    /\ Errors(candidate.diag) <= Errors(base)
                    /\ Total(candidate.diag) =
                         sig.persisting + sig.introduced + sig.revealed
    PROVE  IInv'
  <1>1. /\ \/ stagnation' >= 2 /\ pc' = "stopped" /\ iter' = iter
           \/ ~(stagnation' >= 2) /\ pc' = "measure" /\ iter' = iter + 1
        /\ iter' \in 1 .. MaxIters /\ iter' \in Nat /\ iter' >= iter
        /\ pc' = "measure" => iter' > iter /\ iter' # 1
    BY Continues DEF Compare, IInv
  <1>2. stagnation' = (IF sig = lastSig THEN stagnation + 1 ELSE 0)
        /\ lastSig' = sig
    BY DEF Compare
  <1>3. stagnation \in 0 .. 1 /\ escalations <= 1 /\ tried \in Nat
        /\ tried <= iter /\ iter \in Nat
        /\ candidate \in Code /\ code \in Code /\ best.code \in Code
        /\ lint \in LintResult /\ best \in Known /\ base \in Diagnosis
    BY MaxItersPositive DEF IInv, TypeOK, BoundsInv, Known
  <1>4. /\ code.id \in Nat /\ candidate.id \in Nat /\ best.code.id \in Nat
        /\ code.diag \in Diagnosis /\ candidate.diag \in Diagnosis
        /\ best.code.diag \in Diagnosis
    BY <1>3 DEF Code
  <1>5. /\ Total(code.diag) \in Nat /\ Total(candidate.diag) \in Count
        /\ Total(candidate.diag) \in Nat /\ Total(best.code.diag) \in Nat
    BY <1>4, Counts
  <1>6. /\ candidate.id = tried /\ code.id < tried /\ best.code.id < tried
        /\ lint.of = code.id /\ ~lintConverged(lint)
        /\ best.lint.of = best.code.id
        /\ best.code.id = code.id => best.code = code
    BY <1>3 DEF IInv, IdsInv
  <1>7. best # None /\ base # None
    BY <1>3, KnownIsSome, DiagnosisIsSome
  <1>8. cfg.mode = "strict" =>
          /\ Errors(code.diag) <= Errors(base)
          /\ lint.diag = code.diag
          /\ Total(best.code.diag) <= Total(code.diag)
          /\ fewest = Total(best.code.diag)
    BY <1>3, <1>5, <1>7, LeastOfTwo DEF IInv, StrictInv
  <1>9. fewest \in Count /\ fewest \in Nat
    BY MaxIssuesIsNat DEF IInv, TypeOK, Count
  <1>10. /\ code' \in Code /\ fewest' \in Count
         /\ code' = code \/ code' = candidate
    BY <1>3, <1>5, <1>9, LeastOfTwo DEF Adopt
  <1>11. TypeOK'
    BY <1>1, <1>2, <1>3, <1>10 DEF IInv, TypeOK
  <1>12. BoundsInv'
    BY <1>1, <1>2, <1>3 DEF IInv, BoundsInv, TypeOK
  <1>13. IdsInv'
    BY <1>1, <1>3, <1>4, <1>6, <1>10 DEF IdsInv
  <1>14. StrictInv'
    <2>1. CASE UNCHANGED <<code, fewest>> /\ sig.decision = "REJECT_REGRESSION"
      BY <1>1, <1>2, <1>7, <2>1 DEF IInv, StrictInv
    <2>2. CASE /\ Adopt
               /\ sig.decision # "REJECT_REGRESSION"
               /\ cfg.mode = "strict" =>
                    /\ Errors(candidate.diag) <= Errors(base)
                    /\ Total(candidate.diag) =
                         sig.persisting + sig.introduced + sig.revealed
      <3>1. code' = candidate
            /\ fewest' = Least(fewest, Total(candidate.diag))
        BY <2>2 DEF Adopt
      <3>2. cfg.mode = "strict" =>
                fewest' = Least(Total(best.code.diag), Total(candidate.diag))
        BY <1>8, <3>1
      <3>3. best \in Known /\ cfg.mode = "strict" =>
                    /\ best.lint.diag = best.code.diag
                    /\ Errors(best.code.diag) <= Errors(base)
        BY DEF IInv, StrictInv
      <3> QED
        BY <1>1, <1>2, <1>3, <1>7, <2>2, <3>1, <3>2, <3>3 DEF StrictInv
    <2> QED
      BY <2>1, <2>2
  <1>15. StoppedInv'
    <2>1. SUFFICES ASSUME pc' = "stopped"
                   PROVE  /\ lint.of # code'.id =>
                                stagnation' = 2 /\ ~lintConverged(lint)
                          /\ cfg.mode = "strict" =>
                                /\ Total(lint.diag) = Total(code'.diag)
                                /\ lint.of = code'.id => lint.diag = code'.diag
      <3>1. (lintConverged(lint))' <=> lintConverged(lint)
        BY DEF lintConverged, Gating
      <3> QED
        BY <2>1, <3>1 DEF StoppedInv
    <2>2. stagnation' = 2 /\ sig = lastSig
      BY <1>1, <1>2, <1>3, <2>1
    <2>3. CASE UNCHANGED <<code, fewest>> /\ sig.decision = "REJECT_REGRESSION"
      BY <1>6, <1>8, <2>3
    <2>4. CASE /\ Adopt
               /\ sig.decision # "REJECT_REGRESSION"
               /\ cfg.mode = "strict" =>
                    /\ Errors(candidate.diag) <= Errors(base)
                    /\ Total(candidate.diag) =
                         sig.persisting + sig.introduced + sig.revealed
      <3>1. code' = candidate /\ lint.of # code'.id
        BY <1>4, <1>6, <2>4 DEF Adopt
      <3>2. cfg.mode = "strict" =>
                Total(code.diag) =
                    lastSig.persisting + lastSig.introduced + lastSig.revealed
        BY <2>2, <2>4 DEF IInv, StrictInv
      <3> QED
        BY <1>6, <1>8, <2>2, <2>4, <3>1, <3>2
    <2> QED
      BY <2>3, <2>4
  <1> QED
    BY <1>1, <1>11, <1>12, <1>13, <1>14, <1>15, NotDone DEF IInv

LEMMA RecheckHolds == ASSUME IInv, Recheck PROVE IInv'
  <1>1. pc = "recheck" /\ candidate' = None
        /\ UNCHANGED <<cfg, tried, base, lint, best, prevErrors, escalations,
                       status>>
    BY DEF Recheck
  <1>2. candidate \in Code /\ candidate.diag \in Diagnosis
        /\ best \in Known /\ base \in Diagnosis
    BY <1>1 DEF IInv, BoundsInv, Code
  <1> DEFINE Verdict(l) == classifyDiagnostics(base, candidate.diag, l)
             Sig(l) == [decision |-> Verdict(l), persisting |-> l.persisting,
                        introduced |-> l.introduced,
                        revealed |-> Revealed(candidate.diag, l)]
  <1>3. PICK l \in Ledgers(base, candidate.diag) :
            /\ (IF Verdict(l) = "REJECT_REGRESSION"
                THEN UNCHANGED <<code, fewest>> ELSE Adopt)
            /\ Compare(Sig(l))
    BY DEF Recheck
  <1>4. /\ l.persisting \in Count /\ l.introduced \in Count
        /\ Revealed(candidate.diag, l) \in Count
        /\ Total(candidate.diag) =
             l.persisting + l.introduced + Revealed(candidate.diag, l)
    <2>1. Total(candidate.diag) \in Count
      BY <1>2, Counts
    <2> QED
      BY <1>3, <2>1, MaxIssuesIsNat DEF Ledgers, Revealed, Count
  <1>5. Verdict(l) \in Decision
    BY DEF classifyDiagnostics, Decision
  <1>6. Sig(l) \in Signature
    BY <1>4, <1>5 DEF Signature
  <1>7. Verdict(l) # "REJECT_REGRESSION" =>
            Errors(candidate.diag) <= Errors(base)
    <2>1. Errors(candidate.diag) \in Nat /\ Errors(base) \in Nat
      BY <1>2, Counts
    <2> QED
      BY <2>1 DEF classifyDiagnostics
  <1> HIDE DEF Verdict
  <1>8. CASE Verdict(l) = "REJECT_REGRESSION"
    BY <1>1, <1>3, <1>6, <1>8, CheckedHolds
  <1>9. CASE Verdict(l) # "REJECT_REGRESSION"
    BY <1>1, <1>3, <1>4, <1>6, <1>7, <1>9, CheckedHolds
  <1> QED
    BY <1>8, <1>9

LEMMA UncheckedHolds == ASSUME IInv, Unchecked PROVE IInv'
  <1> DEFINE sig == [decision |-> "no-cli", persisting |-> Total(lint.diag),
                     introduced |-> 0, revealed |-> 0]
  <1>1. pc = "recheck" /\ candidate' = None /\ cfg.mode # "strict"
        /\ Adopt /\ Compare(sig)
        /\ UNCHANGED <<cfg, tried, base, lint, best, prevErrors, escalations,
                       status>>
    BY DEF Unchecked
  <1>2. Total(lint.diag) \in Count
    <2>1. lint.diag \in Diagnosis
      BY <1>1 DEF IInv, BoundsInv, LintResult
    <2> QED
      BY <2>1, Counts
  <1>3. sig \in Signature
    BY <1>2, MaxIssuesIsNat DEF Signature, Decision, Count
  <1>4. sig.decision # "REJECT_REGRESSION"
    OBVIOUS
  <1> HIDE DEF sig
  <1> QED
    BY <1>1, <1>3, <1>4, CheckedHolds

LEMMA FailHolds == ASSUME IInv, Fail PROVE IInv'
  <1>1. pc \in {"measure", "fix", "recheck"} /\ pc' = "thrown"
        /\ UNCHANGED <<cfg, iter, code, candidate, tried, base, lint, best,
                       lastSig, stagnation, prevErrors, escalations, status,
                       fewest>>
    BY DEF Fail, brakes
  <1>2. TypeOK' /\ BoundsInv'
    BY <1>1 DEF IInv, TypeOK, BoundsInv
  <1>3. IdsInv' /\ StoppedInv'
    BY <1>1 DEF IInv, IdsInv, StoppedInv
  <1>4. StrictInv'
    BY <1>1 DEF IInv, StrictInv
  <1> QED
    BY <1>1, <1>2, <1>3, <1>4, NotDone DEF IInv

\* What a status of completion says of the result it is given with.
LEMMA CompleteFacts ==
    ASSUME NEW l \in LintResult, NEW x \in TaskStatus(l)
    PROVE  /\ x \in Statuses
           /\ x \in {"COMPLETE", "COMPLETE_WARNINGS"} =>
                Total(l.diag) = 0 \/ lintConverged(l)
  BY DEF TaskStatus, Statuses

LEMMA ShipHolds == ASSUME IInv, Ship PROVE IInv'
  <1>1. /\ pc = "stopped" /\ pc' = "done"
        /\ code' = (IF Restored THEN best.code ELSE code)
        /\ lint' = Reported
        /\ status' \in TaskStatus(Reported)
        /\ UNCHANGED <<cfg, iter, candidate, tried, base, best, lastSig,
                       stagnation, prevErrors, escalations, fewest>>
    BY DEF Ship, brakes
  <1>2. lint \in LintResult /\ code \in Code /\ cfg \in Config
    BY <1>1 DEF IInv, BoundsInv, TypeOK
  <1>3. Restored => best \in Known
    BY DEF Restored, IInv, TypeOK, Known
  <1>4. code' \in Code /\ lint' \in LintResult
    BY <1>1, <1>2, <1>3 DEF Known, Reported
  <1>5. /\ status' \in Statuses
        /\ status' \in {"COMPLETE", "COMPLETE_WARNINGS"} =>
             Total(lint'.diag) = 0 \/ lintConverged(lint')
    <2>1. status' \in TaskStatus(lint')
      BY <1>1
    <2> QED
      BY <1>4, <2>1, CompleteFacts
  <1>6. TypeOK'
    BY <1>1, <1>4, <1>5 DEF IInv, TypeOK
  <1>7. BoundsInv'
    BY <1>1, <1>4 DEF IInv, BoundsInv
  <1>8. IdsInv'
    BY <1>1, <1>3 DEF IInv, IdsInv
  <1>9. StrictInv'
    <2>1. CASE Restored
      BY <1>1, <1>3, <2>1 DEF IInv, StrictInv, Restored
    <2>2. CASE ~Restored
      BY <1>1, <2>2 DEF IInv, StrictInv
    <2> QED
      BY <2>1, <2>2
  <1>10. StoppedInv'
    BY <1>1 DEF StoppedInv
  <1>11. DoneInv'
    <2>1. /\ lint.of # code.id => stagnation = 2 /\ ~lintConverged(lint)
          /\ cfg.mode = "strict" =>
                /\ Total(lint.diag) = Total(code.diag)
                /\ lint.of = code.id => lint.diag = code.diag
      BY <1>1 DEF IInv, StoppedInv
    <2>2. Restored => /\ best.lint.of = best.code.id
                      /\ cfg.mode = "strict" =>
                            best.lint.diag = best.code.diag
      BY <1>3 DEF IInv, IdsInv, StrictInv
    <2>3. code.diag \in Diagnosis /\ Total(code.diag) \in Nat
          /\ code'.diag \in Diagnosis /\ lint.diag \in Diagnosis
      BY <1>2, <1>4, Counts DEF Code, LintResult
    <2>4. ShipsBestKnown'
      <3>1. SUFFICES ASSUME cfg.mode = "strict"
                     PROVE  Total(code'.diag) = fewest
        BY <1>1 DEF ShipsBestKnown
      <3>2. CASE best = None
        BY <1>1, <3>1, <3>2 DEF IInv, StrictInv, Restored
      <3>3. CASE best # None
        <4>1. best \in Known
          BY <3>3 DEF IInv, TypeOK, Known
        <4>2. Total(best.code.diag) \in Nat
          BY <4>1, Counts DEF Known, Code
        <4>3. fewest = Least(Total(best.code.diag), Total(code.diag))
              /\ best.lint.diag = best.code.diag
              /\ (best.code.id = code.id => best.code = code)
          BY <1>1, <3>1, <3>3, <4>1 DEF IInv, StrictInv, IdsInv
        <4>4. CASE Total(best.code.diag) < Total(code.diag)
          <5>1. Restored
            BY <2>1, <3>1, <3>3, <4>3, <4>4, <2>3, <4>2 DEF Restored
          <5> QED
            BY <1>1, <2>3, <4>2, <4>3, <4>4, <5>1, LeastOfTwo
        <4>5. CASE ~(Total(best.code.diag) < Total(code.diag))
          <5>1. ~Restored
            BY <2>1, <3>1, <4>3, <4>5 DEF Restored
          <5> QED
            BY <1>1, <2>3, <4>2, <4>3, <4>5, <5>1, LeastOfTwo
        <4> QED
          BY <4>4, <4>5
      <3> QED
        BY <3>2, <3>3
    <2>5. ReportDescribesShipped'
      BY <1>1, <2>1, <2>2 DEF ReportDescribesShipped, Reported
    <2>6. ReportCountIsTrue'
      BY <1>1, <2>1, <2>2 DEF ReportCountIsTrue, Reported
    <2>7. LintStatusIsHonest'
      <3>1. SUFFICES ASSUME cfg.node = "lint", cfg.mode = "strict",
                            status' \in {"COMPLETE", "COMPLETE_WARNINGS"}
                     PROVE  ~(Gating(code.diag))'
        BY <1>1 DEF LintStatusIsHonest, StatusIsHonest
      <3>2. Total(lint'.diag) = Total(code'.diag)
        BY <1>1, <2>6, <3>1 DEF ReportCountIsTrue
      <3>3. CASE Total(lint'.diag) = 0
        <4>1. ~Gating(code'.diag)
          BY <2>3, <3>2, <3>3, NothingGates
        <4> QED
          BY <1>1, <4>1 DEF Gating
      <3>4. CASE lintConverged(lint')
        <4>1. lint'.diag = code'.diag
          BY <1>1, <2>1, <2>2, <3>1, <3>4 DEF Reported
        <4> QED
          BY <1>1, <3>4, <4>1 DEF lintConverged, Gating
      <3> QED
        BY <1>5, <3>1, <3>3, <3>4
    <2> QED
      BY <2>4, <2>5, <2>6, <2>7 DEF DoneInv
  <1> QED
    BY <1>6, <1>7, <1>8, <1>9, <1>10, <1>11 DEF IInv

LEMMA StutterHolds == ASSUME IInv, UNCHANGED vars PROVE IInv'
  <1>1. UNCHANGED <<cfg, pc, iter, code, candidate, tried, base, lint, best,
                    lastSig, stagnation, prevErrors, escalations, status,
                    fewest>>
    BY DEF vars, brakes
  <1>2. TypeOK' /\ BoundsInv'
    BY <1>1 DEF IInv, TypeOK, BoundsInv
  <1>3. IdsInv' /\ StoppedInv'
    BY <1>1 DEF IInv, IdsInv, StoppedInv, lintConverged, Gating
  <1>4. StrictInv'
    BY <1>1 DEF IInv, StrictInv
  <1>5. DoneInv'
    BY <1>1 DEF IInv, DoneInv, ShipsBestKnown, ReportDescribesShipped,
                ReportCountIsTrue, LintStatusIsHonest, StatusIsHonest, Gating
  <1> QED
    BY <1>2, <1>3, <1>4, <1>5 DEF IInv

LEMMA Inductive == IInv /\ [Next]_vars => IInv'
  <1> SUFFICES ASSUME IInv, [Next]_vars PROVE IInv'
    OBVIOUS
  <1>1. CASE RtlErrorsOnly BY <1>1, RtlErrorsOnlyHolds
  <1>2. CASE Converge BY <1>2, ConvergeHolds
  <1>3. CASE Diverge BY <1>3, DivergeHolds
  <1>4. CASE AskForFix BY <1>4, AskForFixHolds
  <1>5. CASE Fruitless BY <1>5, FruitlessHolds
  <1>6. CASE Fix BY <1>6, FixHolds
  <1>7. CASE Recheck BY <1>7, RecheckHolds
  <1>8. CASE Unchecked BY <1>8, UncheckedHolds
  <1>9. CASE Fail BY <1>9, FailHolds
  <1>10. CASE Ship BY <1>10, ShipHolds
  <1>11. CASE Returned \/ UNCHANGED vars
    BY <1>11, StutterHolds DEF Returned
  <1> QED
    BY <1>1, <1>2, <1>3, <1>4, <1>5, <1>6, <1>7, <1>8, <1>9, <1>10, <1>11
       DEF Next

LEMMA Invariant == Spec => []IInv
  BY InitHolds, Inductive, PTL DEF Spec

-----------------------------------------------------------------------------
\* The loop's counters stay in their bounds and a fix is only asked for when
\* an iteration is left to measure it.
THEOREM TypeCorrect == Spec => []TypeOK
  <1>1. IInv => TypeOK
    BY DEF IInv
  <1> QED
    BY <1>1, Invariant, PTL

\* Under a strict backend the loop never holds code with more errors than the
\* code it was given.
THEOREM ErrorsNeverRise == Spec => []NeverMoreErrors
  <1>1. IInv => NeverMoreErrors
    BY DEF IInv, StrictInv, NeverMoreErrors
  <1> QED
    BY <1>1, Invariant, PTL

\* Under a strict backend the node ships a code with the fewest findings of
\* all it held, whichever brake stopped it.
THEOREM BestKnownShips == Spec => []ShipsBestKnown
  <1>1. IInv => ShipsBestKnown
    BY DEF IInv, DoneInv
  <1> QED
    BY <1>1, Invariant, PTL

\* The result lint ships was measured on the code it ships, but for the stop
\* on a repeated outcome.
THEOREM ReportDescribes == Spec => []ReportDescribesShipped
  <1>1. IInv => ReportDescribesShipped
    BY DEF IInv, DoneInv
  <1> QED
    BY <1>1, Invariant, PTL

\* Under a strict backend lint reports as many findings as its code has.
THEOREM ReportCounts == Spec => []ReportCountIsTrue
  <1>1. IInv => ReportCountIsTrue
    BY DEF IInv, DoneInv
  <1> QED
    BY <1>1, Invariant, PTL

\* Under a strict backend what lint calls complete has no gating finding.
THEOREM LintIsHonest == Spec => []LintStatusIsHonest
  <1>1. IInv => LintStatusIsHonest
    BY DEF IInv, DoneInv
  <1> QED
    BY <1>1, Invariant, PTL
==============================================================================
