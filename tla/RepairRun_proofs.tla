--------------------------- MODULE RepairRun_proofs ---------------------------
(* Theorems about RepairRun, for any versions, outcomes, modes and limits.    *)
EXTENDS RepairRun, SequenceTheorems, TLAPS

\* An outcome that counts as evidence or that does not compile has a test.
Counted(o) == o.valid \/ o.blocking > 0 => o.pass + o.fail > 0

CountedSlot(v) ==
    /\ Counted(v.res)
    /\ v.champion # None => v.champion.res.pass + v.champion.res.fail > 0

\* Which loop a phase is of, and what it has at hand.
PhaseInv ==
    /\ pc = "lint" => loop = None /\ frames = <<>> /\ todo = <<>>
    /\ pc \in {"measure", "repair", "ship"} => loop # None
    /\ loop # None =>
        /\ pc \in {"measure", "repair", "ship", "walk"}
        /\ frames = <<>>
        /\ todo \in Seq(Stages \ {"judge"})
        /\ loop.best = None => pc = "measure"
    /\ pc \in {"grade", "triage", "settle"} => frames # <<>>
    /\ pc = "walk" /\ loop = None => frames # <<>>
    /\ frames # <<>> => verify # None

CountInv ==
    /\ verify # None => CountedSlot(verify)
    /\ loop # None =>
        /\ Counted(loop.data.res)
        /\ loop.best # None => Counted(loop.best.res)
    /\ \A i \in 1..Len(frames) :
        /\ CountedSlot(frames[i].given.verify)
        /\ frames[i].best # None => CountedSlot(frames[i].best.verify)

TypeInv == TypeOK /\ PhaseInv /\ CountInv

-----------------------------------------------------------------------------
(* Sequences, and the value that stands for nothing.                          *)

\* None is no record of the model.
LEMMA NoneApart ==
    /\ None \notin Loop
    /\ None \notin VerifySlot
    /\ None \notin Champion
    /\ None \notin Measured
    /\ None \notin State
    /\ None \notin Outcome
    /\ None \notin LintSlot
  BY DEF None, Loop, VerifySlot, Champion, Measured, State, Outcome, LintSlot

\* One element of a sequence replaced.
LEMMA Replaced ==
    ASSUME NEW S, NEW s \in Seq(S), NEW i \in 1..Len(s), NEW e \in S
    PROVE  /\ [s EXCEPT ![i] = e] \in Seq(S)
           /\ Len([s EXCEPT ![i] = e]) = Len(s)
           /\ [s EXCEPT ![i] = e][i] = e
           /\ \A j \in 1..Len(s) : j # i => [s EXCEPT ![i] = e][j] = s[j]
  OBVIOUS

\* One element appended.
LEMMA Pushed ==
    ASSUME NEW S, NEW s \in Seq(S), NEW e \in S
    PROVE  /\ Append(s, e) \in Seq(S)
           /\ Append(s, e) # <<>>
           /\ Len(Append(s, e)) = Len(s) + 1
           /\ Append(s, e)[Len(s) + 1] = e
           /\ \A j \in 1..Len(s) : Append(s, e)[j] = s[j]
  OBVIOUS

\* The last element removed.
LEMMA Popped ==
    ASSUME NEW S, NEW s \in Seq(S), s # <<>>
    PROVE  /\ SubSeq(s, 1, Len(s) - 1) \in Seq(S)
           /\ Len(SubSeq(s, 1, Len(s) - 1)) = Len(s) - 1
           /\ Len(s) \in Nat \ {0}
           /\ s[Len(s)] \in S
           /\ \A j \in 1..(Len(s) - 1) : SubSeq(s, 1, Len(s) - 1)[j] = s[j]
  <1>1. Len(s) \in Nat \ {0}
    BY EmptySeq
  <1>2. s[Len(s)] \in S /\ \A j \in 1..(Len(s) - 1) : s[j] \in S
    BY <1>1
  <1> DEFINE n == Len(s) - 1
             p == SubSeq(s, 1, n)
  <1>3. n \in Int /\ n >= 0
    BY <1>1
  <1>4. \A j \in 1..n : s[j] \in S
    BY <1>2
  <1> HIDE DEF n
  <1>5. /\ p \in Seq(S)
        /\ Len(p) = n
        /\ \A j \in 1..n : p[j] = s[j]
    <2>1. /\ p \in Seq(S)
          /\ Len(p) = IF 1 <= n THEN n - 1 + 1 ELSE 0
          /\ \A j \in 1..n - 1 + 1 : p[j] = s[1 + j - 1]
      BY <1>3, <1>4, SubSeqProperties
    <2> QED  BY <1>3, <2>1
  <1> QED  BY <1>1, <1>2, <1>5 DEF n

-----------------------------------------------------------------------------
(* Measurements.                                                              *)

\* A rounded quotient is a number.
LEMMA RoundedType ==
    ASSUME NEW n \in Int, NEW d \in Int, d > 0
    PROVE  Rounded(n, d) \in Int
  BY DEF Rounded

\* The gate of a state with tests has a score and names what fails.
LEMMA GateType ==
    ASSUME NEW s \in State, s.verify.res.pass + s.verify.res.fail > 0
    PROVE  GateScore(s) \in Int /\ FailingIds(s) \in SUBSET Criteria
  <1>1. s.verify.res.pass \in Nat /\ s.verify.res.fail \in Nat
    BY DEF State, VerifySlot, Outcome
  <1>2. Rate(s.verify.res) \in Int
    <2>1. /\ 100 * s.verify.res.pass \in Int
          /\ s.verify.res.pass + s.verify.res.fail \in Int
          /\ s.verify.res.pass + s.verify.res.fail > 0
      BY <1>1
    <2>2. Rounded(100 * s.verify.res.pass, s.verify.res.pass + s.verify.res.fail) \in Int
      BY ONLY <2>1, RoundedType
    <2> QED  BY <2>2 DEF Rate
  <1>3. VerifyRate(s) \in Int
    BY <1>2 DEF VerifyRate
  <1>4. GateScore(s) \in Int
    <2> DEFINE sum == Rate(s.verify.res) + VerifyRate(s)
                          + (IF LintClean(s) THEN 100 ELSE 0)
    <2>1. sum \in Int
      BY <1>2, <1>3
    <2>2. Rounded(sum, 3) \in Int
      <3> HIDE DEF sum
      <3> QED  BY <2>1, RoundedType
    <2> QED  BY <2>2 DEF GateScore
  <1>5. FailingIds(s) \in SUBSET Criteria
    BY Zenon DEF FailingIds, Criteria
  <1> QED  BY <1>4, <1>5

\* What a backend or a model answers is a counted outcome; the simulator's
\* knowledge keeps its type.
LEMMA SimulatesType ==
    ASSUME TypeOK, NEW o, NEW cli \in BOOLEAN, Simulates(o, cli)
    PROVE  /\ o \in Outcome /\ Counted(o)
           /\ sim' \in [Pair -> Outcome \cup {None}]
  BY OutcomesAreOutcomes, EstimatesAreOutcomes, OutcomesCount
     DEF Simulates, TypeOK, Outcome, Counted

\* A verify slot made of counted parts is one.
LEMMA SlotOfType ==
    ASSUME lint \in LintSlot,
           NEW c \in Pair, NEW res \in Outcome, Counted(res), NEW cli \in BOOLEAN,
           NEW champion \in Champion \cup {None},
           champion # None => champion.res.pass + champion.res.fail > 0
    PROVE  /\ VerifySlotOf(c, res, cli, champion) \in VerifySlot
           /\ CountedSlot(VerifySlotOf(c, res, cli, champion))
  <1> DEFINE cand == [code |-> c, res |-> res, lint |-> FreshOrNone(lint, c)]
  <1>1. cand \in Champion
    BY DEF Champion, FreshOrNone
  <1>2. betterChampion(cand, champion) => cand.res.pass + cand.res.fail > 0
    <2>1. Near(cand) => cand.res.blocking > 0
      BY DEF Near, Compiles, Outcome
    <2> QED  BY <2>1 DEF betterChampion, Usable, Counted
  <1>3. /\ Banked(cand, champion) \in Champion \cup {None}
        /\ Banked(cand, champion) # None =>
             Banked(cand, champion).res.pass + Banked(cand, champion).res.fail > 0
    BY <1>1, <1>2 DEF Banked
  <1>4. VerifySlotOf(c, res, cli, champion)
          = [res |-> res, cli |-> cli, of |-> c,
             champion |-> Banked(cand, champion)]
    BY DEF VerifySlotOf
  <1> HIDE DEF cand
  <1> QED  BY <1>3, <1>4 DEF VerifySlot, CountedSlot

\* So is the slot of a stage whose result was not adopted.
LEMMA UnverifiedType ==
    ASSUME NEW c \in Pair
    PROVE  /\ Unverified(c) \in VerifySlot /\ Unverified(c).champion = None
           /\ Unverified(c).cli = FALSE
           /\ CountedSlot(Unverified(c))
  BY DEF Unverified, VerifySlot, Outcome, CountedSlot, Counted

\* A champion restored makes a state of counted parts.
LEMMA ChampionStateType ==
    ASSUME NEW s \in State, CountedSlot(s.verify), s.verify.champion # None
    PROVE  /\ ChampionState(s) \in State
           /\ CountedSlot(ChampionState(s).verify)
  <1>1. s.verify \in VerifySlot /\ s.verify.champion \in Champion
    BY DEF State, VerifySlot
  <1> DEFINE v == [s.verify EXCEPT
                     !.res = [s.verify.champion.res EXCEPT !.valid = s.verify.res.valid],
                     !.of = s.verify.champion.code]
  <1>2. v \in VerifySlot /\ CountedSlot(v)
    BY <1>1 DEF VerifySlot, Champion, Outcome, CountedSlot, Counted
  <1>3. ChampionState(s).verify = v
    BY DEF ChampionState
  <1>4. ChampionState(s) \in State
    BY <1>1, <1>2, <1>3 DEF ChampionState, State, Champion
  <1> QED  BY <1>2, <1>3, <1>4

\* The chains.
LEMMA ChainType ==
    ASSUME NEW target \in Stages
    PROVE  Chain(target) \in Seq(Stages)
  <1>1. /\ <<"rtl_generate", "lint">> \in Seq(Stages)
        /\ <<"lint">> \in Seq(Stages)
        /\ <<>> \in Seq(Stages)
        /\ <<"test_generate">> \in Seq(Stages)
        /\ <<"verify", "judge">> \in Seq(Stages)
    BY DEF Stages
  <1> QED  BY <1>1 DEF Chain

\* The judge at the top of the frames, and the state held while one runs.
LEMMA TopType ==
    ASSUME TypeInv, frames # <<>>
    PROVE  /\ Len(frames) \in Nat \ {0}
           /\ Len(frames) \in 1..Len(frames)
           /\ Top \in Frame
           /\ verify \in VerifySlot
           /\ Held \in State
           /\ CountedSlot(verify)
           /\ CountedSlot(Top.given.verify)
           /\ Top.best # None => CountedSlot(Top.best.verify)
  <1>1. Len(frames) \in Nat \ {0} /\ Top \in Frame
    BY Popped DEF TypeInv, TypeOK, Top
  <1>2. verify \in VerifySlot
    BY DEF TypeInv, TypeOK, PhaseInv
  <1>3. Held \in State
    BY <1>2 DEF TypeInv, TypeOK, Held, State
  <1>4. CountedSlot(verify)
    BY <1>2, NoneApart DEF TypeInv, CountInv
  <1> QED  BY <1>1, <1>2, <1>3, <1>4 DEF TypeInv, CountInv, Top

-----------------------------------------------------------------------------
(* The type invariant: one lemma for each action.                             *)

LEMMA InitTypeInv == Init => TypeInv
  <1> SUFFICES ASSUME Init PROVE TypeInv
    OBVIOUS
  <1>1. frames \in Seq(Frame) /\ todo \in Seq(Stages)
    BY DEF Init
  <1>2. code \in Pair /\ lint \in LintSlot
    BY DEF Init, LintSlot, Pair
  <1>3. TypeOK
    BY <1>1, <1>2 DEF Init, TypeOK
  <1>4. PhaseInv
    BY DEF Init, PhaseInv
  <1>5. CountInv
    BY DEF Init, CountInv
  <1> QED  BY <1>3, <1>4, <1>5 DEF TypeInv

LEMMA LintStageTypeInv ==
    ASSUME TypeInv, LintStage
    PROVE  TypeInv'
  <1> USE DEF TypeInv
  <1>1. code' \in Pair /\ lint' \in LintSlot
    BY SMTT(30) DEF LintStage, TypeOK, Verdicts, LintAnswers, LintSlot, Pair
  <1>2. loop' \in Loop /\ loop'.best = None /\ Counted(loop'.data.res)
    BY <1>1 DEF LintStage, NewLoop, Loop, Unverified, Outcome, Counted, Stages
  <1>3. loop' # None
    BY <1>2, NoneApart
  <1>4. TypeOK'
    BY <1>1, <1>2 DEF LintStage, TypeOK, world, TimePasses
  <1>5. PhaseInv'
    <2>1. <<>> \in Seq(Stages \ {"judge"})
      OBVIOUS
    <2> QED  BY <1>2, <1>3, <2>1 DEF LintStage, PhaseInv
  <1>6. CountInv'
    BY <1>2, <1>3 DEF LintStage, PhaseInv, CountInv
  <1> QED  BY <1>4, <1>5, <1>6

LEMMA MeasureTypeInv ==
    ASSUME TypeInv, Measure
    PROVE  TypeInv'
  <1> USE DEF TypeInv
  <1>1. PICK o \in Outcomes \cup Estimates, cli \in BOOLEAN :
          /\ Simulates(o, cli)
          /\ \E decision \in DecisionsOn(o), repeats \in BOOLEAN :
               Decided([code |-> code, res |-> o, cli |-> cli], decision, repeats)
    BY DEF Measure
  <1> DEFINE now == [code |-> code, res |-> o, cli |-> cli]
  <1>0. PICK decision \in DecisionsOn(o), repeats \in BOOLEAN :
          Decided(now, decision, repeats)
    BY <1>1
  <1> DEFINE best == IF loop.best = None \/ shouldRestoreBest(now.res, loop.best.res)
                     THEN now ELSE loop.best
             sig == <<now.res.pass, now.res.fail, decision>>
             same == sig = loop.sig /\ (decision = "kept" => repeats)
             idle == IF same THEN loop.idle + 1 ELSE 0
             stop == \/ Green(now.res) \/ loop.iter >= MaxVerifyIters \/ idle >= 2
                     \/ spent'
             from == IF Rejected(decision) /\ ~stop THEN best ELSE now
  <1>2. /\ o \in Outcome /\ Counted(o)
        /\ sim' \in [Pair -> Outcome \cup {None}]
    BY <1>1, SimulatesType
  <1>3. loop \in Loop /\ pc = "measure" /\ frames = <<>>
    BY DEF Measure, TypeOK, PhaseInv
  <1>4. now \in Measured /\ Counted(now.res)
    BY <1>2 DEF Measured, TypeOK
  <1>5. best \in Measured /\ Counted(best.res)
    <2>1. loop.best = None \/ (loop.best \in Measured /\ Counted(loop.best.res))
      BY <1>3, NoneApart DEF Loop, CountInv
    <2> HIDE DEF now
    <2> QED  BY <1>4, <2>1
  <1>6. from \in Measured /\ Counted(from.res)
    BY <1>4, <1>5
  <1>7. sig \in Nat \X Nat \X Decisions
    BY <1>2 DEF Outcome, DecisionsOn, Decisions
  <1>8. idle \in Nat
    BY <1>3 DEF Loop
  <1> HIDE DEF now, best, sig, same, idle, stop, from
  <1>9. /\ loop' = [loop EXCEPT !.best = best, !.sig = sig, !.idle = idle,
                       !.data = [res |-> from.res, cli |-> from.cli]]
        /\ code' = from.code
        /\ pc' \in {"ship", "repair"}
    BY <1>0 DEF Decided, now, best, sig, same, idle, stop, from
  <1>10. /\ loop' \in Loop /\ loop'.best = best
         /\ Counted(loop'.data.res) /\ Counted(loop'.best.res)
    BY <1>3, <1>5, <1>6, <1>7, <1>8, <1>9 DEF Loop, Measured
  <1>11. loop' # None /\ loop'.best # None
    BY <1>5, <1>10, NoneApart
  <1>12. TypeOK'
    BY <1>2, <1>6, <1>9, <1>10 DEF Measure, TypeOK, Measured, TimePasses
  <1>13. PhaseInv'
    BY <1>3, <1>9, <1>11 DEF Measure, PhaseInv, TypeOK
  <1>14. CountInv'
    BY <1>3, <1>10, <1>11 DEF Measure, CountInv
  <1> QED  BY <1>12, <1>13, <1>14

LEMMA RepairTypeInv ==
    ASSUME TypeInv, Repair
    PROVE  TypeInv'
  <1> USE DEF TypeInv
  <1>1. PICK target \in {"rtl_generate", "test_generate"} :
          /\ loop' = [loop EXCEPT !.target = target, !.held = code]
          /\ todo' = (IF target = "rtl_generate" THEN <<"rtl_generate", "lint">>
                      ELSE IF LintPassing(loop.given.lint) THEN <<>>
                      ELSE <<"lint">>) \o <<"test_generate", "verify">>
    BY DEF Repair
  <1>2. loop \in Loop /\ loop # None /\ pc = "repair" /\ frames = <<>>
    BY DEF Repair, TypeOK, PhaseInv
  <1>3. /\ loop' \in Loop /\ loop'.best = loop.best /\ loop'.data = loop.data
    BY <1>1, <1>2 DEF Loop, Stages, TypeOK
  <1>4. loop' # None
    BY <1>3, NoneApart
  <1>5. todo' \in Seq(Stages \ {"judge"})
    <2>1. /\ <<"rtl_generate", "lint">> \in Seq(Stages \ {"judge"})
          /\ <<"lint">> \in Seq(Stages \ {"judge"})
          /\ <<>> \in Seq(Stages \ {"judge"})
          /\ <<"test_generate", "verify">> \in Seq(Stages \ {"judge"})
      BY DEF Stages
    <2> DEFINE head == IF target = "rtl_generate" THEN <<"rtl_generate", "lint">>
                       ELSE IF LintPassing(loop.given.lint) THEN <<>>
                       ELSE <<"lint">>
    <2>2. head \in Seq(Stages \ {"judge"})
      BY <2>1
    <2>3. todo' = head \o <<"test_generate", "verify">>
      BY <1>1
    <2> HIDE DEF head
    <2> QED  BY <2>1, <2>2, <2>3, ConcatProperties
  <1>6. todo' \in Seq(Stages)
    BY <1>5
  <1>7. lint' \in LintSlot /\ verify' = None
    BY <1>2 DEF Repair, Loop
  <1>8. TypeOK'
    BY <1>3, <1>6, <1>7 DEF Repair, TypeOK, world
  <1>9. PhaseInv'
    BY <1>2, <1>3, <1>4, <1>5 DEF Repair, PhaseInv
  <1>10. CountInv'
    BY <1>2, <1>3, <1>4, <1>7 DEF Repair, CountInv, PhaseInv
  <1> QED  BY <1>8, <1>9, <1>10

LEMMA AdoptTypeInv ==
    ASSUME TypeInv, Adopt
    PROVE  TypeInv'
  <1> USE DEF TypeInv
  <1>1. PICK tbLost \in BOOLEAN, near \in BOOLEAN :
          code' = Regained(tbLost) /\ Struck(Regained(tbLost), near)
    BY DEF Adopt
  <1>2. /\ loop \in Loop /\ loop # None /\ pc = "walk" /\ frames = <<>>
        /\ loop.best # None
    BY DEF Adopt, TypeOK, PhaseInv
  <1>3. Regained(tbLost) \in Pair
    BY <1>2 DEF Regained, TypeOK, Loop, Pair
  <1>4. WalkData \in [res: Outcome, cli: BOOLEAN] /\ Counted(WalkData.res)
    BY <1>2 DEF WalkData, TypeOK, Loop, VerifySlot, CountInv, CountedSlot
  <1>5. PICK idle \in Nat, iter \in Nat, tried \in SUBSET Pair :
          loop' = [loop EXCEPT !.idle = idle, !.iter = iter, !.tried = tried,
                               !.data = WalkData]
    <2> DEFINE after == Regained(tbLost)
               noOp == \/ after = loop.held
                       \/ loop.target # "rtl_generate" /\ after.tb = loop.held.tb
               strike == noOp \/ after \in loop.tried \/ near
               idl == IF strike THEN loop.idle + 1 ELSE loop.idle
               itr == IF idl >= 2 THEN loop.iter ELSE loop.iter + 1
               trd == IF strike THEN loop.tried ELSE loop.tried \cup {after}
    <2>1. loop' = [loop EXCEPT !.idle = idl, !.iter = itr, !.tried = trd,
                               !.data = WalkData]
      BY <1>1 DEF Struck
    <2>2. idl \in Nat /\ itr \in Nat /\ trd \in SUBSET Pair
      BY <1>2, <1>3 DEF Loop
    <2> HIDE DEF idl, itr, trd
    <2> QED  BY <2>1, <2>2
  <1>6. /\ loop' \in Loop /\ loop'.best = loop.best /\ loop'.data = WalkData
    BY <1>2, <1>4, <1>5 DEF Loop
  <1>7. loop' # None
    BY <1>6, NoneApart
  <1>8. code' \in Pair /\ pc' \in {"ship", "measure"}
    BY <1>1, <1>3 DEF Struck
  <1>9. TypeOK'
    BY <1>6, <1>8 DEF Adopt, TypeOK, world
  <1>10. PhaseInv'
    BY <1>2, <1>6, <1>7, <1>8 DEF Adopt, PhaseInv
  <1>11. CountInv'
    BY <1>2, <1>4, <1>6, <1>7 DEF Adopt, CountInv
  <1> QED  BY <1>9, <1>10, <1>11

\* A new judge's frame.
LEMMA NewFrameType ==
    ASSUME NEW s \in State, CountedSlot(s.verify)
    PROVE  /\ NewFrame(s) \in Frame
           /\ NewFrame(s).given = s /\ NewFrame(s).best = None
           /\ CountedSlot(NewFrame(s).given.verify)
  BY DEF NewFrame, Frame, State

LEMMA ShipTypeInv ==
    ASSUME TypeInv, Ship
    PROVE  TypeInv'
  <1> USE DEF TypeInv
  <1> DEFINE final == IF shouldRestoreBest(loop.best.res, loop.data.res)
                      THEN loop.best
                      ELSE [code |-> code, res |-> loop.data.res,
                            cli |-> loop.data.cli]
  <1>1. /\ loop \in Loop /\ pc = "ship" /\ loop.best # None /\ frames = <<>>
        /\ Counted(loop.data.res) /\ Counted(loop.best.res)
    BY DEF Ship, TypeOK, PhaseInv, CountInv
  <1>2. final \in Measured /\ Counted(final.res)
    BY <1>1 DEF Loop, Measured, TypeOK
  <1>3. \/ /\ code' = final.code
           /\ verify' = VerifySlotOf(final.code, final.res, final.cli, None)
           /\ lint' = Carried(lint, final.code, loop.given.lint)
        \/ /\ code' = loop.given.code
           /\ verify' = Unverified(loop.given.code)
           /\ lint' = loop.given.lint
    BY DEF Ship
  <1> HIDE DEF final
  <1>4. code' \in Pair /\ lint' \in LintSlot
    BY <1>1, <1>2, <1>3 DEF Measured, Loop, Carried, TypeOK
  <1>5. verify' \in VerifySlot /\ CountedSlot(verify')
    <2>1. /\ VerifySlotOf(final.code, final.res, final.cli, None) \in VerifySlot
          /\ CountedSlot(VerifySlotOf(final.code, final.res, final.cli, None))
      <3>1. lint \in LintSlot /\ final.code \in Pair /\ final.res \in Outcome
              /\ final.cli \in BOOLEAN
        BY <1>2 DEF Measured, TypeOK
      <3> QED  BY <1>2, <3>1, SlotOfType
    <2>2. Unverified(loop.given.code) \in VerifySlot
              /\ CountedSlot(Unverified(loop.given.code))
      BY <1>1, UnverifiedType DEF Loop
    <2> QED  BY <1>3, <2>1, <2>2
  <1>6. verify' # None
    BY <1>5, NoneApart
  <1>7. Held' \in State /\ Held'.verify = verify'
    BY <1>4, <1>5 DEF Held, State
  <1>8. frames' = <<NewFrame(Held')>> /\ NewFrame(Held') \in Frame
          /\ CountedSlot(NewFrame(Held').given.verify)
          /\ NewFrame(Held').best = None
    BY <1>5, <1>7, NewFrameType DEF Ship
  <1>9. frames' \in Seq(Frame) /\ Len(frames') = 1 /\ frames'[1] = NewFrame(Held')
          /\ frames' # <<>>
    <2> DEFINE f == NewFrame(Held')
    <2>1. f \in Frame /\ frames' = <<f>>
      BY <1>8
    <2>2. f = NewFrame(Held')
      OBVIOUS
    <2> HIDE DEF f
    <2> QED  BY <2>1, <2>2
  <1>10. TypeOK'
    BY <1>4, <1>5, <1>9 DEF Ship, TypeOK, world, TimePasses
  <1>11. PhaseInv'
    BY <1>6, <1>9 DEF Ship, PhaseInv
  <1>12. CountInv'
    BY <1>5, <1>8, <1>9 DEF Ship, CountInv
  <1> QED  BY <1>10, <1>11, <1>12

\* Entering an entry keeps the frames but for a mark on the last.
LEMMA EntersType ==
    ASSUME TypeInv, NEW stage \in Stages, Enters(stage)
    PROVE  /\ frames' \in Seq(Frame) /\ Len(frames') = Len(frames)
           /\ spent' \in BOOLEAN
           /\ \A i \in 1..Len(frames) :
                /\ frames'[i].given = frames[i].given
                /\ frames'[i].best = frames[i].best
           /\ pc = "walk" /\ todo # <<>>
           /\ Tail(todo) \in Seq(Stages)
           /\ loop # None => Tail(todo) \in Seq(Stages \ {"judge"})
  <1> USE DEF TypeInv
  <1>1. spent' \in BOOLEAN /\ pc = "walk" /\ todo # <<>>
    BY DEF Enters, TimePasses, TypeOK
  <1>2. Tail(todo) \in Seq(Stages)
    BY <1>1, HeadTailProperties DEF TypeOK
  <1>3. loop # None => Tail(todo) \in Seq(Stages \ {"judge"})
    BY <1>1, HeadTailProperties DEF PhaseInv
  <1>4. CASE loop = None /\ spent'
    <2>1. frames # <<>>
      BY <1>1, <1>4 DEF PhaseInv
    <2>2. frames' = [frames EXCEPT ![Len(frames)].halted = TRUE]
      BY <1>4 DEF Enters
    <2> DEFINE f == [Top EXCEPT !.halted = TRUE]
    <2>3. f \in Frame /\ f.given = Top.given /\ f.best = Top.best
      BY <2>1, TopType DEF Frame
    <2>4. frames' = [frames EXCEPT ![Len(frames)] = f]
      BY <2>2 DEF Top
    <2> HIDE DEF f
    <2>5. frames \in Seq(Frame) /\ Len(frames) \in 1..Len(frames)
      BY <2>1, TopType DEF TypeOK
    <2>6. /\ frames' \in Seq(Frame) /\ Len(frames') = Len(frames)
          /\ frames'[Len(frames)] = f
          /\ \A j \in 1..Len(frames) : j # Len(frames) => frames'[j] = frames[j]
      BY <2>3, <2>4, <2>5, Replaced
    <2> QED  BY <1>1, <1>2, <1>3, <2>3, <2>6 DEF Top
  <1>5. CASE ~(loop = None /\ spent')
    BY <1>1, <1>2, <1>3, <1>5 DEF Enters, TypeOK
  <1> QED  BY <1>4, <1>5

\* A walk's entry that leaves loop and verdict alone and a valid verify slot.
LEMMA EntryTypeInv ==
    ASSUME TypeInv, NEW stage \in Stages, Enters(stage),
           UNCHANGED <<mode, clean, pc, loop, walks, verdict>>,
           sim' \in [Pair -> Outcome \cup {None}],
           code' \in Pair, lint' \in LintSlot,
           todo' \in {Tail(todo), <<>>},
           \/ verify' = verify
           \/ verify' \in VerifySlot /\ CountedSlot(verify')
    PROVE  TypeInv'
  <1> USE DEF TypeInv
  <1>1. /\ frames' \in Seq(Frame) /\ Len(frames') = Len(frames)
        /\ spent' \in BOOLEAN
        /\ \A i \in 1..Len(frames) :
             /\ frames'[i].given = frames[i].given
             /\ frames'[i].best = frames[i].best
        /\ pc = "walk" /\ todo # <<>>
        /\ Tail(todo) \in Seq(Stages)
        /\ loop # None => Tail(todo) \in Seq(Stages \ {"judge"})
    <2>1. spent' \in BOOLEAN /\ pc = "walk" /\ todo # <<>>
      BY DEF Enters, TimePasses, TypeOK
    <2> QED  BY EntersType
  <1>2. todo' \in Seq(Stages) /\ (loop # None => todo' \in Seq(Stages \ {"judge"}))
    BY <1>1, EmptySeq
  <1>3. TypeOK'
    BY <1>1, <1>2 DEF TypeOK
  <1>4. frames' = <<>> <=> frames = <<>>
    BY <1>1, EmptySeq DEF TypeOK
  <1>5. verify # None => verify' # None
    BY NoneApart
  <1>6. PhaseInv'
    BY <1>1, <1>2, <1>4, <1>5 DEF PhaseInv
  <1>7. CountInv'
    BY <1>1 DEF CountInv
  <1> QED  BY <1>3, <1>6, <1>7

LEMMA EntriesTypeInv ==
    ASSUME TypeInv, EntryLost \/ RtlEntry \/ TestEntry \/ LintEntry \/ VerifyEntry
    PROVE  TypeInv'
  <1> USE DEF TypeInv
  <1>1. /\ code \in Pair /\ lint \in LintSlot
        /\ sim \in [Pair -> Outcome \cup {None}]
    BY DEF TypeOK
  <1>2. CASE EntryLost
    BY <1>1, <1>2, EntryTypeInv DEF EntryLost, world, held
  <1>3. CASE RtlEntry
    <2>1. code' \in Pair /\ todo' \in {Tail(todo), <<>>}
      BY <1>1, <1>3 DEF RtlEntry, Pair, Verdicts
    <2>2. "rtl_generate" \in Stages
      BY DEF Stages
    <2> QED  BY <1>1, <1>3, <2>1, <2>2, EntryTypeInv DEF RtlEntry, world
  <1>4. CASE TestEntry
    <2>1. code' \in Pair
      BY <1>1, <1>4 DEF TestEntry, Pair
    <2>2. "test_generate" \in Stages
      BY DEF Stages
    <2> QED  BY <1>1, <1>4, <2>1, <2>2, EntryTypeInv DEF TestEntry, world
  <1>5. CASE LintEntry
    <2>1. lint' \in LintSlot
      BY <1>1, <1>5 DEF LintEntry, LintAnswers, LintSlot, Pair
    <2>2. "lint" \in Stages
      BY DEF Stages
    <2> QED  BY <1>1, <1>5, <2>1, <2>2, EntryTypeInv DEF LintEntry, world
  <1>6. CASE VerifyEntry
    <2>1. PICK o \in Outcomes \cup Estimates, cli \in BOOLEAN :
            /\ Simulates(o, cli)
            /\ verify' = VerifySlotOf(code, o, cli,
                           IF verify = None THEN None ELSE verify.champion)
      BY <1>6 DEF VerifyEntry
    <2>2. /\ o \in Outcome /\ Counted(o)
          /\ sim' \in [Pair -> Outcome \cup {None}]
      BY <2>1, SimulatesType
    <2> DEFINE champion == IF verify = None THEN None ELSE verify.champion
    <2>3. /\ champion \in Champion \cup {None}
          /\ champion # None => champion.res.pass + champion.res.fail > 0
      BY DEF TypeOK, VerifySlot, CountInv, CountedSlot
    <2>4. verify' = VerifySlotOf(code, o, cli, champion)
      BY <2>1
    <2> HIDE DEF champion
    <2>5. verify' \in VerifySlot /\ CountedSlot(verify')
      BY <1>1, <2>2, <2>3, <2>4, SlotOfType
    <2>6. "verify" \in Stages
      BY DEF Stages
    <2>7. /\ Enters("verify") /\ todo' = Tail(todo)
          /\ UNCHANGED <<mode, clean, pc, code, lint, loop, walks, verdict>>
      BY <1>6 DEF VerifyEntry
    <2> QED  BY <1>1, <2>2, <2>5, <2>6, <2>7, EntryTypeInv
  <1> QED  BY <1>2, <1>3, <1>4, <1>5, <1>6

LEMMA JudgeEntryTypeInv ==
    ASSUME TypeInv, JudgeEntry
    PROVE  TypeInv'
  <1> USE DEF TypeInv
  <1>1. loop = None
    <2> SUFFICES ASSUME loop # None PROVE FALSE
      OBVIOUS
    <2>1. todo \in Seq(Stages \ {"judge"}) /\ todo # <<>>
      BY DEF JudgeEntry, PhaseInv
    <2>2. Head(todo) \in Stages \ {"judge"}
      BY ONLY <2>1, HeadTailProperties
    <2> QED  BY <2>2 DEF JudgeEntry
  <1>2. frames # <<>> /\ frames \in Seq(Frame)
    BY <1>1 DEF JudgeEntry, PhaseInv, TypeOK
  <1>3. NewFrame(Held) \in Frame /\ CountedSlot(NewFrame(Held).given.verify)
          /\ NewFrame(Held).best = None
    <2>1. Held \in State /\ CountedSlot(Held.verify)
      BY <1>2, TopType DEF Held
    <2> QED  BY <2>1, NewFrameType
  <1> DEFINE f == NewFrame(Held)
  <1>4. frames' = Append(frames, f)
    BY DEF JudgeEntry
  <1>5. f \in Frame /\ CountedSlot(f.given.verify) /\ f.best = None
    BY <1>3
  <1> HIDE DEF f
  <1>6. /\ frames' \in Seq(Frame) /\ frames' # <<>>
        /\ Len(frames') = Len(frames) + 1
        /\ frames'[Len(frames) + 1] = f
        /\ \A j \in 1..Len(frames) : frames'[j] = frames[j]
    BY <1>2, <1>4, <1>5, Pushed
  <1>7. Tail(todo) \in Seq(Stages)
    BY HeadTailProperties DEF JudgeEntry, TypeOK
  <1>8. TypeOK'
    BY <1>6, <1>7 DEF JudgeEntry, TypeOK, world, held
  <1>9. PhaseInv'
    BY <1>1, <1>2, <1>6 DEF JudgeEntry, PhaseInv, held
  <1>10. CountInv'
    <2>1. \A i \in 1..Len(frames') : i \in 1..Len(frames) \/ i = Len(frames) + 1
      BY <1>2, <1>6, LenProperties
    <2> QED  BY <1>1, <1>5, <1>6, <2>1 DEF JudgeEntry, CountInv, held
  <1> QED  BY <1>8, <1>9, <1>10

\* The last frame replaced by one with the same given state.
LEMMA TopReplaced ==
    ASSUME TypeInv, frames # <<>>, NEW f \in Frame,
           f.given = Top.given,
           f.best # None => CountedSlot(f.best.verify),
           frames' = [frames EXCEPT ![Len(frames)] = f]
    PROVE  /\ frames' \in Seq(Frame) /\ Len(frames') = Len(frames)
           /\ frames' # <<>>
           /\ frames'[Len(frames)] = f
           /\ \A j \in 1..Len(frames) : j # Len(frames) => frames'[j] = frames[j]
           /\ \A i \in 1..Len(frames') :
                /\ frames'[i].given = frames[i].given
                /\ CountedSlot(frames'[i].given.verify)
                /\ frames'[i].best # None => CountedSlot(frames'[i].best.verify)
  <1>1. frames \in Seq(Frame) /\ Len(frames) \in 1..Len(frames)
    BY TopType DEF TypeInv, TypeOK
  <1>2. /\ frames' \in Seq(Frame) /\ Len(frames') = Len(frames)
        /\ frames'[Len(frames)] = f
        /\ \A j \in 1..Len(frames) : j # Len(frames) => frames'[j] = frames[j]
    BY <1>1, Replaced
  <1>3. frames' # <<>>
    BY <1>1, <1>2, EmptySeq
  <1> QED  BY ZenonT(30), <1>2, <1>3 DEF TypeInv, CountInv, Top

LEMMA GradeTypeInv ==
    ASSUME TypeInv, Grade
    PROVE  TypeInv'
  <1> USE DEF TypeInv
  <1>1. /\ frames # <<>> /\ loop = None /\ pc = "grade" /\ spent' \in BOOLEAN
    BY DEF Grade, PhaseInv, TimePasses, TypeOK
  <1>2. /\ Top \in Frame /\ Held \in State /\ CountedSlot(verify)
        /\ Top.best # None => CountedSlot(Top.best.verify)
    BY <1>1, TopType
  <1>3. CASE ~verify.res.valid
    <2>1. pc' = "settle" /\ UNCHANGED frames
      BY <1>3 DEF Grade
    <2>2. TypeOK'
      BY <1>1, <2>1 DEF Grade, TypeOK, world, held
    <2>3. PhaseInv'
      BY <1>1, <2>1 DEF Grade, PhaseInv, held
    <2>4. CountInv'
      BY <1>1, <2>1 DEF Grade, CountInv, held
    <2> QED  BY <2>2, <2>3, <2>4
  <1>4. CASE verify.res.valid
    <2> DEFINE best == IF Top.best = None \/ betterJudgeState(Held, Top.best)
                       THEN Held ELSE Top.best
               sig == <<GateScore(Held), FailingIds(Held)>>
               idle == IF sig = Top.sig THEN Top.idle + 1 ELSE 0
               stop == GatePass(Held) \/ Top.iter >= MaxJudgeIters \/ idle >= 2
               f == [Top EXCEPT !.best = best, !.sig = sig, !.idle = idle,
                                !.halted = spent' /\ ~stop]
    <2>1. /\ frames' = [frames EXCEPT ![Len(frames)] = f]
          /\ pc' \in {"settle", "triage"}
      BY <1>4 DEF Grade, Top
    <2>2. best \in State /\ CountedSlot(best.verify)
      BY <1>2 DEF Frame, Held
    <2>3. sig \in Int \X SUBSET Criteria
      <3>1. Held.verify.res.pass + Held.verify.res.fail > 0
        BY <1>2, <1>4 DEF Held, CountedSlot, Counted
      <3> QED  BY <1>2, <3>1, GateType
    <2>4. idle \in Nat
      BY <1>2 DEF Frame
    <2>5. (spent' /\ ~stop) \in BOOLEAN
      OBVIOUS
    <2> HIDE DEF best, sig, idle, stop
    <2>6. f \in Frame /\ f.given = Top.given /\ f.best = best
      BY <1>2, <2>2, <2>3, <2>4, <2>5 DEF Frame
    <2> HIDE DEF f
    <2>7. /\ frames' \in Seq(Frame) /\ frames' # <<>>
          /\ \A i \in 1..Len(frames') :
                /\ CountedSlot(frames'[i].given.verify)
                /\ frames'[i].best # None => CountedSlot(frames'[i].best.verify)
      BY <1>1, <2>1, <2>2, <2>6, TopReplaced
    <2>8. TypeOK'
      BY <1>1, <2>1, <2>7 DEF Grade, TypeOK, world, held
    <2>9. PhaseInv'
      BY <1>1, <2>1, <2>7 DEF Grade, PhaseInv, held
    <2>10. CountInv'
      BY <1>1, <2>7 DEF Grade, CountInv, held
    <2> QED  BY <2>8, <2>9, <2>10
  <1> QED  BY <1>3, <1>4

LEMMA TriageTypeInv ==
    ASSUME TypeInv, Triage
    PROVE  TypeInv'
  <1> USE DEF TypeInv
  <1>1. /\ frames # <<>> /\ loop = None /\ walks' = walks + 1 /\ pc' = "walk"
    BY DEF Triage, PhaseInv
  <1>2. Top \in Frame /\ (Top.best # None => CountedSlot(Top.best.verify))
    BY <1>1, TopType
  <1> DEFINE f == [Top EXCEPT !.before = code]
  <1>3. frames' = [frames EXCEPT ![Len(frames)] = f]
    BY DEF Triage, Top
  <1>4. f \in Frame /\ f.given = Top.given /\ f.best = Top.best
    BY <1>2 DEF Frame, TypeOK
  <1> HIDE DEF f
  <1>5. /\ frames' \in Seq(Frame) /\ frames' # <<>>
        /\ \A i \in 1..Len(frames') :
              /\ CountedSlot(frames'[i].given.verify)
              /\ frames'[i].best # None => CountedSlot(frames'[i].best.verify)
    BY <1>1, <1>2, <1>3, <1>4, TopReplaced
  <1>6. todo' \in Seq(Stages)
    <2>1. triageTargetsFor(Held) \subseteq Stages
      BY DEF triageTargetsFor, StaleStages, Stages
    <2> QED  BY <2>1, ChainType DEF Triage
  <1>7. TypeOK'
    BY <1>1, <1>5, <1>6 DEF Triage, TypeOK, world, held
  <1>8. PhaseInv'
    BY <1>1, <1>5 DEF Triage, PhaseInv, held
  <1>9. CountInv'
    BY <1>1, <1>5 DEF Triage, CountInv, held
  <1> QED  BY <1>7, <1>8, <1>9

LEMMA WalkedTypeInv ==
    ASSUME TypeInv, Walked
    PROVE  TypeInv'
  <1> USE DEF TypeInv
  <1>1. frames # <<>> /\ loop = None /\ pc' \in {"settle", "grade"}
    BY DEF Walked, PhaseInv
  <1>2. Top \in Frame /\ (Top.best # None => CountedSlot(Top.best.verify))
    BY <1>1, TopType
  <1> DEFINE f == [Top EXCEPT !.iter = Top.iter + 1]
  <1>3. f \in Frame /\ f.given = Top.given /\ f.best = Top.best
    BY <1>2 DEF Frame
  <1>4. frames' = frames \/ frames' = [frames EXCEPT ![Len(frames)] = f]
    BY DEF Walked, Top
  <1> HIDE DEF f
  <1>5. /\ frames' \in Seq(Frame) /\ frames' # <<>>
        /\ \A i \in 1..Len(frames') :
              /\ CountedSlot(frames'[i].given.verify)
              /\ frames'[i].best # None => CountedSlot(frames'[i].best.verify)
    <2>1. CASE frames' = frames
      BY <1>1, <2>1 DEF TypeOK, CountInv
    <2>2. CASE frames' = [frames EXCEPT ![Len(frames)] = f]
      BY <1>1, <1>2, <1>3, <2>2, TopReplaced
    <2> QED  BY <1>4, <2>1, <2>2
  <1>6. TypeOK'
    BY <1>1, <1>5 DEF Walked, TypeOK, world, held
  <1>7. PhaseInv'
    BY <1>1, <1>5 DEF Walked, PhaseInv, held
  <1>8. CountInv'
    BY <1>1, <1>5 DEF Walked, CountInv, held
  <1> QED  BY <1>6, <1>7, <1>8

\* The last frame removed.
LEMMA TopPopped ==
    ASSUME TypeInv, frames # <<>>, frames' = SubSeq(frames, 1, Len(frames) - 1)
    PROVE  /\ frames' \in Seq(Frame)
           /\ Len(frames') = Len(frames) - 1
           /\ frames' = <<>> <=> Len(frames) = 1
           /\ \A i \in 1..Len(frames') :
                /\ i \in 1..Len(frames) /\ frames'[i] = frames[i]
                /\ CountedSlot(frames'[i].given.verify)
                /\ frames'[i].best # None => CountedSlot(frames'[i].best.verify)
  <1>1. frames \in Seq(Frame) /\ Len(frames) \in Nat \ {0}
    BY TopType DEF TypeInv, TypeOK
  <1>2. /\ frames' \in Seq(Frame)
        /\ Len(frames') = Len(frames) - 1
        /\ \A j \in 1..(Len(frames) - 1) : frames'[j] = frames[j]
    BY <1>1, Popped
  <1>3. \A j \in 1..(Len(frames) - 1) : j \in 1..Len(frames)
    BY <1>1
  <1>4. frames' = <<>> <=> Len(frames) = 1
    <2>1. frames' = <<>> <=> Len(frames') = 0
      <3>1. frames' # <<>> => Len(frames') \in Nat \ {0}
        BY <1>2, EmptySeq
      <3> QED  BY <3>1
    <2> QED  BY <1>1, <1>2, <2>1
  <1> QED  BY <1>2, <1>3, <1>4 DEF TypeInv, CountInv

\* What the judge would ship is a state of counted parts.
LEMMA ShippedType ==
    ASSUME TypeInv, frames # <<>>
    PROVE  /\ BestKnown \in State /\ CountedSlot(BestKnown.verify)
           /\ Shipped \in State /\ CountedSlot(Shipped.verify)
  <1>1. /\ Top \in Frame /\ Held \in State /\ CountedSlot(Held.verify)
        /\ Top.best # None => CountedSlot(Top.best.verify)
    BY TopType DEF Held
  <1>2. BestKnown \in State /\ CountedSlot(BestKnown.verify)
    BY <1>1 DEF BestKnown, Frame
  <1>3. championRestoreOf(BestKnown) # None => BestKnown.verify.champion # None
    BY DEF championRestoreOf
  <1> QED  BY <1>2, <1>3, ChampionStateType DEF Shipped

LEMMA SettleTypeInv ==
    ASSUME TypeInv, Settle
    PROVE  TypeInv'
  <1> USE DEF TypeInv
  <1>1. /\ frames # <<>> /\ loop = None /\ loop' = None
        /\ frames' = SubSeq(frames, 1, Len(frames) - 1)
    BY DEF Settle, PhaseInv
  <1>2. /\ Top \in Frame /\ CountedSlot(Top.given.verify)
        /\ Len(frames) \in Nat \ {0}
    BY <1>1, TopType
  <1>3. PICK accepted \in BOOLEAN :
         LET s == IF accepted THEN Shipped ELSE Top.given
             last == Len(frames) = 1
         IN  /\ code' = s.code
             /\ verify' = IF last /\ Top.given.verify.cli /\ ~s.verify.cli
                          THEN Top.given.verify ELSE s.verify
             /\ lint' = Carried(s.lint, s.code, Top.given.lint)
             /\ pc' = IF last THEN "done" ELSE "walk"
             /\ verdict' = IF ~last THEN verdict
                           ELSE IF accepted THEN Verdict(s) ELSE "UNVERIFIED"
    BY DEF Settle, Verdicts
  <1> DEFINE s == IF accepted THEN Shipped ELSE Top.given
  <1>4. s \in State /\ CountedSlot(s.verify)
    BY <1>1, <1>2, ShippedType DEF Frame
  <1>5. /\ code' = s.code /\ verify' \in {Top.given.verify, s.verify}
        /\ lint' = Carried(s.lint, s.code, Top.given.lint)
        /\ pc' = IF Len(frames) = 1 THEN "done" ELSE "walk"
        /\ verdict' \in {verdict, Verdict(s), "UNVERIFIED"}
    BY <1>3
  <1> HIDE DEF s
  <1>6. code' \in Pair /\ lint' \in LintSlot
    BY <1>2, <1>4, <1>5 DEF Carried, State, Frame
  <1>7. verify' \in VerifySlot /\ CountedSlot(verify')
    BY <1>2, <1>4, <1>5 DEF State, Frame
  <1>8. verify' # None
    BY <1>7, NoneApart
  <1>9. verdict' \in {"none", "PASS", "FAIL", "UNVERIFIED"}
    BY <1>5 DEF Verdict, TypeOK
  <1>10. /\ frames' \in Seq(Frame)
         /\ frames' = <<>> <=> Len(frames) = 1
         /\ \A i \in 1..Len(frames') :
              /\ CountedSlot(frames'[i].given.verify)
              /\ frames'[i].best # None => CountedSlot(frames'[i].best.verify)
    BY <1>1, TopPopped
  <1>11. TypeOK'
    BY <1>5, <1>6, <1>7, <1>9, <1>10 DEF Settle, TypeOK, world
  <1>12. PhaseInv'
    BY <1>1, <1>5, <1>8, <1>10 DEF PhaseInv
  <1>13. CountInv'
    BY <1>1, <1>7, <1>10 DEF CountInv
  <1> QED  BY <1>11, <1>12, <1>13

LEMMA ThrowTypeInv ==
    ASSUME TypeInv, Throw
    PROVE  TypeInv'
  <1> USE DEF TypeInv
  <1>1. loop' = None /\ UNCHANGED <<world, todo, spent, walks, verdict>>
    BY DEF Throw
  <1>2. CASE frames # <<>>
    <2>1. /\ code' = Top.given.code /\ lint' = Top.given.lint
          /\ verify' = Top.given.verify
          /\ pc' = IF Len(frames) > 1 THEN "walk" ELSE "failed"
          /\ frames' = SubSeq(frames, 1, Len(frames) - 1)
      BY <1>2 DEF Throw
    <2>2. /\ Top \in Frame /\ CountedSlot(Top.given.verify)
          /\ Len(frames) \in Nat \ {0}
      BY <1>2, TopType
    <2>3. /\ code' \in Pair /\ lint' \in LintSlot /\ verify' \in VerifySlot
          /\ CountedSlot(verify')
      BY <2>1, <2>2 DEF Frame, State
    <2>4. verify' # None
      BY <2>3, NoneApart
    <2>5. /\ frames' \in Seq(Frame)
          /\ frames' = <<>> <=> Len(frames) = 1
          /\ \A i \in 1..Len(frames') :
              /\ CountedSlot(frames'[i].given.verify)
              /\ frames'[i].best # None => CountedSlot(frames'[i].best.verify)
      BY <1>2, <2>1, TopPopped
    <2>6. TypeOK'
      BY <1>1, <2>1, <2>3, <2>5 DEF TypeOK, world
    <2>7. PhaseInv'
      BY SMTT(30), <1>1, <2>1, <2>2, <2>4, <2>5 DEF PhaseInv
    <2>8. CountInv'
      BY <1>1, <2>3, <2>5 DEF CountInv
    <2> QED  BY <2>6, <2>7, <2>8
  <1>3. CASE frames = <<>>
    <2>1. frames' = <<>> /\ pc' = "failed" /\ verify' \in {verify, None}
      <3>1. Len(frames) = 0
        BY <1>3
      <3> QED  BY <1>3, <3>1 DEF Throw, Held
    <2>2. code' \in Pair /\ lint' \in LintSlot
      <3>1. CASE loop = None
        BY <1>3, <3>1 DEF Throw, Held, TypeOK
      <3>2. CASE loop # None
        <4>1. loop.given.code \in Pair /\ loop.given.lint \in LintSlot
          BY <3>2 DEF TypeOK, Loop
        <4> QED  BY <1>3, <3>2, <4>1 DEF Throw
      <3> QED  BY <3>1, <3>2
    <2>3. frames' \in Seq(Frame) /\ \A i \in 1..Len(frames') : FALSE
      BY <2>1
    <2>4. TypeOK'
      BY <1>1, <2>1, <2>2, <2>3 DEF TypeOK, world
    <2>5. PhaseInv'
      BY <1>1, <2>1 DEF PhaseInv
    <2>6. CountInv'
      BY <1>1, <2>1, <2>3 DEF CountInv
    <2> QED  BY <2>4, <2>5, <2>6
  <1> QED  BY <1>2, <1>3

LEMMA TypeInvStep == TypeInv /\ [Next]_vars => TypeInv'
  <1> SUFFICES ASSUME TypeInv, [Next]_vars PROVE TypeInv'
    OBVIOUS
  <1>1. CASE LintStage
    BY <1>1, LintStageTypeInv
  <1>2. CASE Measure
    BY <1>2, MeasureTypeInv
  <1>3. CASE Repair
    BY <1>3, RepairTypeInv
  <1>4. CASE Adopt
    BY <1>4, AdoptTypeInv
  <1>5. CASE Ship
    BY <1>5, ShipTypeInv
  <1>6. CASE EntryLost \/ RtlEntry \/ TestEntry \/ LintEntry \/ VerifyEntry
    BY <1>6, EntriesTypeInv
  <1>7. CASE JudgeEntry
    BY <1>7, JudgeEntryTypeInv
  <1>8. CASE Grade
    BY <1>8, GradeTypeInv
  <1>9. CASE Triage
    BY <1>9, TriageTypeInv
  <1>10. CASE Walked
    BY <1>10, WalkedTypeInv
  <1>11. CASE Settle
    BY <1>11, SettleTypeInv
  <1>12. CASE Throw
    BY <1>12, ThrowTypeInv
  <1>13. CASE UNCHANGED vars
    BY <1>13 DEF vars, world, held, TypeInv, TypeOK, PhaseInv, CountInv
  <1> QED
    BY <1>1, <1>2, <1>3, <1>4, <1>5, <1>6, <1>7, <1>8, <1>9, <1>10, <1>11,
       <1>12, <1>13 DEF Next

LEMMA TypeInvariant == Spec => []TypeInv
  BY InitTypeInv, TypeInvStep, PTL DEF Spec

\* Every variable of the repair loops keeps its type: a judge at the end of a
\* walk finds a frame of its own, and the gate never divides by no tests.
THEOREM TypeCorrect == Spec => []TypeOK
  <1>1. TypeInv => TypeOK
    BY DEF TypeInv
  <1> QED  BY <1>1, TypeInvariant, PTL

-----------------------------------------------------------------------------
(* Honesty: what the strengthening says.                                      *)

\* In mode m, the simulator that knows s gave the numbers o for code c.
Says(m, s, c, o) ==
    m = "strict" => /\ s[c] # None
                    /\ o.pass = s[c].pass /\ o.fail = s[c].fail
                    /\ o.blocking = s[c].blocking

\* In mode m, the linter that knows k gave l.
LintSays(m, k, l) ==
    m = "strict" /\ l.findings # "unknown"
        => l.findings = (IF k[l.of] THEN "none" ELSE "some")

ChampionSound(m, s, k, c) ==
    c # None => /\ Says(m, s, c.code, c.res)
                /\ c.lint # None => LintSays(m, k, c.lint)

SlotSound(m, s, k, v) ==
    /\ v.cli => m # "none" /\ Says(m, s, v.of, v.res)
    /\ ChampionSound(m, s, k, v.champion)

StateSound(m, s, k, x) == SlotSound(m, s, k, x.verify) /\ LintSays(m, k, x.lint)

\* The best pair was measured, and so was the given one, which is no better.
BestSound(m, s, l) ==
    l.best # None =>
        /\ l.best.cli => m # "none"
        /\ Says(m, s, l.best.code, l.best.res)
        /\ m = "strict" => /\ s[l.given.code] # None
                           /\ ~Worse(l.best.res, s[l.given.code])

WorldInv == \A c \in Pair : sim[c] \in Outcomes \cup {None}

HeldInv ==
    /\ LintSays(mode, clean, lint)
    /\ verify # None => SlotSound(mode, sim, clean, verify)

\* The third iteration is the last and no strike survives a measurement before
\* it, so what the loop ships it has measured.
LoopInv ==
    loop # None =>
        /\ LintSays(mode, clean, loop.given.lint)
        /\ loop.data.cli => mode # "none"
        /\ BestSound(mode, sim, loop)
        /\ pc = "measure" =>
             /\ loop.iter \in 1..3
             /\ loop.best = None => loop.iter = 1
             /\ loop.iter = 1 => /\ loop.sig = None /\ loop.best = None
                                 /\ code = loop.given.code
             /\ loop.iter = 2 => loop.sig[3] = "initial"
        /\ pc \in {"repair", "walk"} =>
             /\ loop.iter \in 1..2 /\ loop.idle = 0
             /\ loop.iter = 1 => loop.sig[3] = "initial"
        /\ pc = "ship" => Says(mode, sim, code, loop.data.res)

FramesInv ==
    \A i \in 1..Len(frames) :
        /\ StateSound(mode, sim, clean, frames[i].given)
        /\ frames[i].best # None => StateSound(mode, sim, clean, frames[i].best)

SoundInv == WorldInv /\ HeldInv /\ LoopInv /\ FramesInv

-----------------------------------------------------------------------------
(* Answers are never taken back.                                              *)

Grows(s, t) == \A c \in Pair : s[c] # None => t[c] = s[c]

LEMMA SoundGrows ==
    ASSUME NEW m, NEW k, NEW s, NEW t, Grows(s, t)
    PROVE  /\ \A v \in VerifySlot : SlotSound(m, s, k, v) => SlotSound(m, t, k, v)
           /\ \A x \in State : StateSound(m, s, k, x) => StateSound(m, t, k, x)
           /\ \A l \in Loop : BestSound(m, s, l) => BestSound(m, t, l)
  <1>1. \A c \in Pair : \A o : Says(m, s, c, o) => Says(m, t, c, o)
    BY DEF Grows, Says
  <1>2. ASSUME NEW v \in VerifySlot, SlotSound(m, s, k, v)
        PROVE  SlotSound(m, t, k, v)
    <2>1. v.of \in Pair /\ (v.champion # None => v.champion.code \in Pair)
      BY DEF VerifySlot, Champion
    <2> QED  BY <1>1, <1>2, <2>1 DEF SlotSound, ChampionSound
  <1>3. ASSUME NEW x \in State, StateSound(m, s, k, x)
        PROVE  StateSound(m, t, k, x)
    BY <1>2, <1>3 DEF StateSound, State
  <1>4. ASSUME NEW l \in Loop, BestSound(m, s, l)
        PROVE  BestSound(m, t, l)
    <2>1. l.given.code \in Pair /\ (l.best # None => l.best.code \in Pair)
      BY DEF Loop, Measured
    <2> QED  BY <1>1, <1>4, <2>1 DEF BestSound, Grows
  <1> QED  BY <1>2, <1>3, <1>4

\* A measurement says what the simulator says.
LEMMA SimulatesSays ==
    ASSUME TypeInv, WorldInv, NEW o, NEW cli \in BOOLEAN, Simulates(o, cli)
    PROVE  /\ cli => mode # "none"
           /\ Says(mode, sim', code, o)
           /\ Grows(sim, sim')
           /\ WorldInv'
  <1>1. sim \in [Pair -> Outcome \cup {None}] /\ code \in Pair
    BY DEF TypeInv, TypeOK
  <1>2. CASE cli
    <2>1. /\ mode # "none" /\ o \in Outcomes /\ sim[code] \in {None, o}
          /\ sim' = [sim EXCEPT ![code] = o]
      BY <1>2 DEF Simulates
    <2>2. o # None
      BY <2>1, NoneApart, OutcomesAreOutcomes
    <2>3. sim'[code] = o /\ \A c \in Pair : c # code => sim'[c] = sim[c]
      BY <1>1, <2>1
    <2> QED  BY <2>1, <2>2, <2>3 DEF Says, Grows, WorldInv
  <1>3. CASE ~cli
    BY <1>3 DEF Simulates, Says, Grows, WorldInv
  <1> QED  BY <1>2, <1>3

\* A measured slot is sound.
LEMMA SlotOfSound ==
    ASSUME NEW m, NEW s, NEW k, NEW c, NEW res, NEW cli \in BOOLEAN, NEW champion,
           cli => m # "none", Says(m, s, c, res), LintSays(m, k, lint),
           ChampionSound(m, s, k, champion)
    PROVE  SlotSound(m, s, k, VerifySlotOf(c, res, cli, champion))
  <1> DEFINE cand == [code |-> c, res |-> res, lint |-> FreshOrNone(lint, c)]
  <1>1. ChampionSound(m, s, k, cand)
    BY DEF ChampionSound, FreshOrNone
  <1>2. ChampionSound(m, s, k, Banked(cand, champion))
    BY <1>1 DEF Banked
  <1> HIDE DEF cand
  <1>3. VerifySlotOf(c, res, cli, champion)
          = [res |-> res, cli |-> cli, of |-> c,
             champion |-> Banked(cand, champion)]
    BY DEF VerifySlotOf, cand
  <1> QED  BY <1>2, <1>3 DEF SlotSound

\* So are the slot of a stage whose result was not adopted and a champion that
\* is restored.
LEMMA UnverifiedSound ==
    ASSUME NEW m, NEW s, NEW k, NEW c
    PROVE  SlotSound(m, s, k, Unverified(c))
  BY DEF SlotSound, Unverified, ChampionSound

LEMMA ChampionStateSound ==
    ASSUME NEW m, NEW s, NEW k, NEW x \in State, StateSound(m, s, k, x),
           x.verify.champion # None
    PROVE  StateSound(m, s, k, ChampionState(x))
  <1>1. x.verify \in VerifySlot /\ x.verify.champion \in Champion
    BY DEF State, VerifySlot
  <1> DEFINE r == [x.verify.champion.res EXCEPT !.valid = x.verify.res.valid]
             v == [x.verify EXCEPT !.res = r, !.of = x.verify.champion.code]
  <1>2. /\ r.pass = x.verify.champion.res.pass /\ r.fail = x.verify.champion.res.fail
        /\ r.blocking = x.verify.champion.res.blocking
    BY <1>1 DEF Champion, Outcome
  <1> HIDE DEF r
  <1>3. /\ v.cli = x.verify.cli /\ v.of = x.verify.champion.code /\ v.res = r
        /\ v.champion = x.verify.champion
    BY <1>1 DEF VerifySlot
  <1> HIDE DEF v
  <1>4. SlotSound(m, s, k, v)
    BY <1>2, <1>3 DEF StateSound, SlotSound, ChampionSound, Says
  <1>5. ChampionState(x).verify = v
    BY DEF ChampionState, v, r
  <1>6. ChampionState(x).lint
          = IF x.verify.champion.lint = None THEN x.lint ELSE x.verify.champion.lint
    BY DEF ChampionState
  <1> QED  BY <1>4, <1>5, <1>6 DEF StateSound, SlotSound, ChampionSound

-----------------------------------------------------------------------------
(* The order of outcomes.                                                     *)

\* A pair that does not compile is reported as one failing test.
Plain(o) ==
    /\ o.pass \in Nat /\ o.fail \in Nat /\ o.blocking \in Nat
    /\ o.blocking > 0 => o.pass = 0 /\ o.fail = 1

LEMMA PlainTold ==
    ASSUME WorldInv, mode = "strict", NEW c \in Pair, NEW o,
           Says(mode, sim, c, o)
    PROVE  Plain(o) /\ Plain(sim[c])
  BY OutcomesAreOutcomes, OutcomesCount DEF WorldInv, Says, Plain, Outcome

LEMMA WorseOrder ==
    ASSUME NEW a, NEW b, NEW c, Plain(a), Plain(b), Plain(c)
    PROVE  /\ ~Worse(a, a)
           /\ ~Worse(a, b) /\ ~Worse(b, c) => ~Worse(a, c)
           /\ shouldRestoreBest(a, b) => ~Worse(a, b)
           /\ ~shouldRestoreBest(b, a) => ~Worse(a, b)
  BY DEF Plain, Worse, shouldRestoreBest, Compiles, Score

\* A signature is not nothing.
LEMMA SignatureApart == \A a, b, c : <<a, b, c>> # None
  BY DEF None

-----------------------------------------------------------------------------
(* Honesty: one lemma for each action.                                        *)

\* What the linter answers it says.
LEMMA LintAnswersSays ==
    ASSUME NEW rtl, NEW l \in LintAnswers(rtl)
    PROVE  LintSays(mode, clean, l)
  BY DEF LintAnswers, LintSays

\* Frames that keep what they were given and held best stay sound.
LEMMA FramesKept ==
    ASSUME TypeInv, FramesInv, Grows(sim, sim'), UNCHANGED <<mode, clean>>,
           frames' \in Seq(Frame),
           \A i \in 1..Len(frames') :
              /\ i \in 1..Len(frames)
              /\ frames'[i].given = frames[i].given
              /\ frames'[i].best = frames[i].best
    PROVE  FramesInv'
  <1> SUFFICES ASSUME NEW i \in 1..Len(frames')
               PROVE  /\ StateSound(mode, sim', clean, frames'[i].given)
                      /\ frames'[i].best # None
                            => StateSound(mode, sim', clean, frames'[i].best)
    BY DEF FramesInv
  <1>1. frames'[i] \in Frame
    BY LenProperties
  <1>2. frames'[i].given \in State
          /\ (frames'[i].best # None => frames'[i].best \in State)
    BY <1>1 DEF Frame
  <1>3. /\ StateSound(mode, sim, clean, frames'[i].given)
        /\ frames'[i].best # None => StateSound(mode, sim, clean, frames'[i].best)
    BY DEF FramesInv
  <1> QED  BY <1>2, <1>3, SoundGrows

\* What is held stays sound if nothing of it changes.
LEMMA HeldKept ==
    ASSUME TypeInv, HeldInv, Grows(sim, sim'),
           UNCHANGED <<mode, clean, verify, lint>>
    PROVE  HeldInv'
  BY SoundGrows DEF HeldInv, TypeInv, TypeOK

LEMMA Unasked == Grows(sim, sim)
  BY DEF Grows

LEMMA LintStageSound ==
    ASSUME TypeInv, SoundInv, LintStage
    PROVE  SoundInv'
  <1>1. /\ UNCHANGED <<mode, sim, clean, verify, frames>> /\ pc' = "measure"
        /\ frames = <<>>
        /\ loop' = NewLoop([code |-> code', lint |-> lint'])
    BY DEF LintStage, world, TypeInv, PhaseInv
  <1>2. LintSays(mode, clean, lint')
    <2>1. PICK rtl \in Rtl, accepted \in BOOLEAN :
            IF accepted THEN lint' \in LintAnswers(rtl) ELSE lint' = lint
      BY DEF LintStage, Verdicts
    <2>2. accepted => lint' \in LintAnswers(rtl)
      BY <2>1
    <2> QED  BY <2>1, <2>2, LintAnswersSays DEF SoundInv, HeldInv
  <1>3. WorldInv' /\ HeldInv' /\ FramesInv'
    BY <1>1, <1>2 DEF SoundInv, WorldInv, HeldInv, FramesInv
  <1>4. LoopInv'
    BY <1>1, <1>2 DEF LoopInv, NewLoop, BestSound
  <1> QED  BY <1>3, <1>4 DEF SoundInv

LEMMA MeasureSound ==
    ASSUME MaxVerifyIters <= 3, TypeInv, SoundInv, Measure
    PROVE  SoundInv'
  <1>1. PICK o \in Outcomes \cup Estimates, cli \in BOOLEAN :
          /\ Simulates(o, cli)
          /\ \E decision \in DecisionsOn(o), repeats \in BOOLEAN :
               Decided([code |-> code, res |-> o, cli |-> cli], decision, repeats)
    BY DEF Measure
  <1> DEFINE now == [code |-> code, res |-> o, cli |-> cli]
  <1>2. PICK decision \in DecisionsOn(o), repeats \in BOOLEAN :
          Decided(now, decision, repeats)
    BY <1>1
  <1> DEFINE best == IF loop.best = None \/ shouldRestoreBest(now.res, loop.best.res)
                     THEN now ELSE loop.best
             sig == <<now.res.pass, now.res.fail, decision>>
             same == sig = loop.sig /\ (decision = "kept" => repeats)
             idle == IF same THEN loop.idle + 1 ELSE 0
             stop == \/ Green(now.res) \/ loop.iter >= MaxVerifyIters \/ idle >= 2
                     \/ spent'
             from == IF Rejected(decision) /\ ~stop THEN best ELSE now
  <1>3. /\ cli => mode # "none"
        /\ Says(mode, sim', code, o)
        /\ Grows(sim, sim')
        /\ WorldInv'
    BY <1>1, SimulatesSays DEF SoundInv
  <1>4. /\ loop \in Loop /\ loop # None /\ pc = "measure" /\ frames = <<>>
        /\ code \in Pair /\ UNCHANGED <<mode, clean, verify, lint, frames>>
    BY DEF Measure, TypeInv, TypeOK, PhaseInv
  <1>5. /\ loop.iter \in 1..3
        /\ loop.best = None => loop.iter = 1
        /\ loop.iter = 1 => loop.sig = None /\ loop.best = None
                              /\ code = loop.given.code
        /\ loop.iter = 2 => loop.sig[3] = "initial"
        /\ LintSays(mode, clean, loop.given.lint)
        /\ BestSound(mode, sim', loop)
    BY <1>3, <1>4, SoundGrows DEF SoundInv, LoopInv
  <1>6. ~stop => idle = 0 /\ loop.iter \in 1..2
            /\ (loop.iter = 1 => decision = "initial")
    <2>1. ~stop => loop.iter \in 1..2
      BY <1>5, ItersPositive
    <2>2. loop.iter = 1 => decision = "initial" /\ ~same
      BY <1>5, SignatureApart DEF DecisionsOn
    <2>3. loop.iter = 2 => ~same
      <3>1. loop.iter = 2 => decision # "initial"
        BY DEF DecisionsOn
      <3>2. sig[3] = decision
        OBVIOUS
      <3> QED  BY <1>5, <3>1, <3>2
    <2> QED  BY <2>1, <2>2, <2>3
  <1>7. /\ now.code = code /\ now.res = o /\ now.cli = cli
    OBVIOUS
  <1> HIDE DEF now
  <1>8. /\ best.cli => mode # "none"
        /\ Says(mode, sim', best.code, best.res)
    BY <1>3, <1>5, <1>7 DEF BestSound
  <1>9. mode = "strict" => /\ sim'[loop.given.code] # None
                           /\ ~Worse(best.res, sim'[loop.given.code])
    <2> SUFFICES ASSUME mode = "strict"
                 PROVE  /\ sim'[loop.given.code] # None
                        /\ ~Worse(best.res, sim'[loop.given.code])
      OBVIOUS
    <2>1. mode' = "strict" /\ (\A c \in Pair : \A r : Says(mode, sim', c, r) =>
                                  Plain(r) /\ Plain(sim'[c]))
      BY <1>3, <1>4, OutcomesAreOutcomes, OutcomesCount
         DEF WorldInv, Says, Plain, Outcome
    <2>2. Plain(o)
      BY <1>3, <1>4, <2>1
    <2>3. CASE loop.best = None
      <3>1. best = now /\ code = loop.given.code
        BY <1>5, <2>3
      <3>2. sim'[code] # None /\ o.pass = sim'[code].pass
              /\ o.fail = sim'[code].fail /\ o.blocking = sim'[code].blocking
        BY <1>3 DEF Says
      <3>3. ~Worse(o, sim'[code])
        BY <2>2, <3>2, WorseOrder DEF Worse, Compiles, Score, Plain
      <3> QED  BY <1>7, <3>1, <3>2, <3>3
    <2>4. CASE loop.best # None
      <3>1. /\ sim'[loop.given.code] # None
            /\ ~Worse(loop.best.res, sim'[loop.given.code])
            /\ Says(mode, sim', loop.best.code, loop.best.res)
        BY <1>5, <2>4 DEF BestSound
      <3>2. Plain(loop.best.res) /\ Plain(sim'[loop.given.code])
        <4>1. loop.best.code \in Pair /\ loop.given.code \in Pair
          BY <1>4, <2>4 DEF Loop, Measured
        <4>2. Says(mode, sim', loop.given.code, sim'[loop.given.code])
          BY <3>1 DEF Says
        <4> QED  BY <2>1, <3>1, <4>1, <4>2
      <3>3. shouldRestoreBest(o, loop.best.res) => ~Worse(o, loop.best.res)
        BY <2>2, <3>2, WorseOrder
      <3>4. shouldRestoreBest(o, loop.best.res)
              => ~Worse(o, sim'[loop.given.code])
        BY <2>2, <3>1, <3>2, <3>3, WorseOrder
      <3> QED  BY <1>7, <2>4, <3>1, <3>4
    <2> QED  BY <2>3, <2>4
  <1>10. /\ from.cli => mode # "none"
         /\ Says(mode, sim', from.code, from.res)
    BY <1>3, <1>7, <1>8
  <1>11. sig[3] = decision
    OBVIOUS
  <1>12. /\ loop' = [loop EXCEPT !.best = best, !.sig = sig, !.idle = idle,
                        !.data = [res |-> from.res, cli |-> from.cli]]
         /\ code' = from.code
         /\ pc' = IF stop THEN "ship" ELSE "repair"
    BY <1>2 DEF Decided
  <1> HIDE DEF best, sig, same, idle, stop, from
  <1>13. /\ loop'.best = best /\ loop'.sig = sig /\ loop'.idle = idle
         /\ loop'.data.res = from.res /\ loop'.data.cli = from.cli
         /\ loop'.given = loop.given /\ loop'.iter = loop.iter
    BY <1>4, <1>12 DEF Loop
  <1>14. LoopInv'
    <2>1. BestSound(mode, sim', loop')
      BY <1>8, <1>9, <1>13 DEF BestSound
    <2> QED
      BY <1>4, <1>5, <1>6, <1>10, <1>11, <1>12, <1>13, <2>1 DEF LoopInv
  <1>15. HeldInv'
    BY <1>3, <1>4, HeldKept DEF SoundInv
  <1>16. FramesInv'
    BY <1>4 DEF FramesInv
  <1> QED  BY <1>3, <1>14, <1>15, <1>16 DEF SoundInv

LEMMA RepairSound ==
    ASSUME TypeInv, SoundInv, Repair
    PROVE  SoundInv'
  <1>1. /\ loop \in Loop /\ loop # None /\ pc = "repair" /\ frames = <<>>
        /\ UNCHANGED <<mode, sim, clean, code, frames>> /\ pc' = "walk"
        /\ verify' = None /\ lint' = loop.given.lint
    BY DEF Repair, TypeInv, TypeOK, PhaseInv, world
  <1>2. PICK target : loop' = [loop EXCEPT !.target = target, !.held = code]
    BY DEF Repair
  <1>3. /\ loop'.best = loop.best /\ loop'.given = loop.given
        /\ loop'.data = loop.data /\ loop'.iter = loop.iter
        /\ loop'.idle = loop.idle /\ loop'.sig = loop.sig
    BY <1>1, <1>2 DEF Loop
  <1>4. LoopInv'
    BY <1>1, <1>3 DEF SoundInv, LoopInv, BestSound
  <1>5. WorldInv' /\ HeldInv' /\ FramesInv'
    BY <1>1 DEF SoundInv, WorldInv, HeldInv, LoopInv, FramesInv
  <1> QED  BY <1>4, <1>5 DEF SoundInv

LEMMA AdoptSound ==
    ASSUME TypeInv, SoundInv, Adopt
    PROVE  SoundInv'
  <1>1. PICK tbLost \in BOOLEAN, near \in BOOLEAN :
          Struck(Regained(tbLost), near)
    BY DEF Adopt
  <1>2. /\ loop \in Loop /\ loop # None /\ pc = "walk" /\ frames = <<>>
        /\ loop.best # None
        /\ UNCHANGED <<mode, sim, clean, verify, lint, frames>>
    BY DEF Adopt, TypeInv, TypeOK, PhaseInv, world
  <1>2a. Regained(tbLost) \in Pair /\ loop.tried \in SUBSET Pair
    BY <1>2 DEF Regained, TypeInv, TypeOK, Loop, Pair
  <1>3. /\ loop.iter \in 1..2 /\ loop.idle = 0
        /\ loop.iter = 1 => loop.sig[3] = "initial"
    BY <1>2 DEF SoundInv, LoopInv
  <1>4. WalkData.cli => mode # "none"
    BY <1>2 DEF WalkData, SoundInv, HeldInv, LoopInv, SlotSound
  <1>5. PICK idle \in {0, 1}, tried \in SUBSET Pair :
          /\ loop' = [loop EXCEPT !.idle = idle, !.iter = loop.iter + 1,
                                  !.tried = tried, !.data = WalkData]
          /\ pc' = "measure"
    <2> DEFINE after == Regained(tbLost)
               noOp == \/ after = loop.held
                       \/ loop.target # "rtl_generate" /\ after.tb = loop.held.tb
               strike == noOp \/ after \in loop.tried \/ near
               idl == IF strike THEN loop.idle + 1 ELSE loop.idle
               itr == IF idl >= 2 THEN loop.iter ELSE loop.iter + 1
               trd == IF strike THEN loop.tried ELSE loop.tried \cup {after}
    <2>1. /\ loop' = [loop EXCEPT !.idle = idl, !.iter = itr, !.tried = trd,
                                  !.data = WalkData]
          /\ pc' = IF idl >= 2 THEN "ship" ELSE "measure"
      BY <1>1 DEF Struck
    <2>2. /\ idl \in {0, 1} /\ itr = loop.iter + 1
          /\ trd \in SUBSET Pair
      BY <1>2a, <1>3
    <2>3. pc' = "measure"
      BY <2>1, <2>2
    <2> HIDE DEF idl, itr, trd
    <2>4. loop' = [loop EXCEPT !.idle = idl, !.iter = loop.iter + 1,
                               !.tried = trd, !.data = WalkData]
      BY <2>1, <2>2
    <2> QED  BY <2>2, <2>3, <2>4
  <1>6. /\ loop'.best = loop.best /\ loop'.given = loop.given
        /\ loop'.data = WalkData /\ loop'.iter = loop.iter + 1
        /\ loop'.sig = loop.sig
    BY <1>2, <1>5 DEF Loop
  <1>7. LoopInv'
    <2>1. BestSound(mode, sim, loop') /\ LintSays(mode, clean, loop'.given.lint)
      BY <1>2, <1>6 DEF SoundInv, LoopInv, BestSound
    <2>2. loop'.iter \in 2..3 /\ (loop'.iter = 2 => loop'.sig[3] = "initial")
      BY <1>3, <1>6
    <2> QED  BY <1>2, <1>4, <1>5, <1>6, <2>1, <2>2 DEF LoopInv
  <1>8. WorldInv' /\ HeldInv' /\ FramesInv'
    BY <1>2 DEF SoundInv, WorldInv, HeldInv, FramesInv
  <1> QED  BY <1>7, <1>8 DEF SoundInv

LEMMA ShipSound ==
    ASSUME TypeInv, SoundInv, Ship
    PROVE  SoundInv'
  <1> DEFINE final == IF shouldRestoreBest(loop.best.res, loop.data.res)
                      THEN loop.best
                      ELSE [code |-> code, res |-> loop.data.res,
                            cli |-> loop.data.cli]
  <1>1. /\ loop \in Loop /\ loop # None /\ pc = "ship" /\ loop.best # None
        /\ UNCHANGED <<mode, sim, clean>> /\ loop' = None
        /\ frames' = <<NewFrame(Held')>>
    BY DEF Ship, TypeInv, TypeOK, PhaseInv, world
  <1>2. /\ final.cli => mode # "none"
        /\ Says(mode, sim, final.code, final.res)
        /\ LintSays(mode, clean, lint)
        /\ LintSays(mode, clean, loop.given.lint)
    BY <1>1 DEF SoundInv, LoopInv, HeldInv, BestSound
  <1>3. final.cli \in BOOLEAN
    BY <1>1 DEF Loop, Measured
  <1>4. \/ /\ verify' = VerifySlotOf(final.code, final.res, final.cli, None)
           /\ lint' = Carried(lint, final.code, loop.given.lint)
        \/ /\ verify' = Unverified(loop.given.code)
           /\ lint' = loop.given.lint
    BY DEF Ship
  <1> HIDE DEF final
  <1>5. SlotSound(mode, sim, clean, verify')
    <2>1. ChampionSound(mode, sim, clean, None)
      BY DEF ChampionSound
    <2>2. SlotSound(mode, sim, clean,
                    VerifySlotOf(final.code, final.res, final.cli, None))
      BY <1>2, <1>3, <2>1, SlotOfSound
    <2> QED  BY <1>4, <2>2, UnverifiedSound
  <1>6. LintSays(mode, clean, lint')
    BY <1>2, <1>4 DEF Carried
  <1>7. HeldInv' /\ WorldInv' /\ LoopInv'
    BY <1>1, <1>5, <1>6 DEF SoundInv, HeldInv, WorldInv, LoopInv
  <1>8. FramesInv'
    <2> DEFINE f == NewFrame(Held')
    <2>1. StateSound(mode, sim, clean, f.given) /\ f.best = None
      BY <1>5, <1>6 DEF StateSound, NewFrame, Held
    <2>2. frames' = <<f>>
      BY <1>1
    <2> HIDE DEF f
    <2>3. Len(frames') = 1 /\ frames'[1] = f
      BY <2>2
    <2> QED  BY <1>1, <2>1, <2>3 DEF FramesInv
  <1> QED  BY <1>7, <1>8 DEF SoundInv

\* A walk's entry that leaves sound slots leaves everything sound.
LEMMA EntrySound ==
    ASSUME TypeInv, SoundInv, NEW stage \in Stages, Enters(stage),
           UNCHANGED <<mode, clean, pc, loop>>,
           Grows(sim, sim'), WorldInv',
           LintSays(mode, clean, lint'),
           verify' = verify \/ SlotSound(mode, sim', clean, verify')
    PROVE  SoundInv'
  <1>1. /\ frames' \in Seq(Frame) /\ Len(frames') = Len(frames)
        /\ \A i \in 1..Len(frames) :
             /\ frames'[i].given = frames[i].given
             /\ frames'[i].best = frames[i].best
        /\ pc = "walk"
    BY EntersType
  <1>2. FramesInv'
    BY <1>1, FramesKept DEF SoundInv
  <1>3. HeldInv'
    BY SoundGrows DEF SoundInv, HeldInv, TypeInv, TypeOK
  <1>4. LoopInv'
    BY <1>1, SoundGrows DEF SoundInv, LoopInv, TypeInv, TypeOK
  <1> QED  BY <1>2, <1>3, <1>4 DEF SoundInv

LEMMA EntriesSound ==
    ASSUME TypeInv, SoundInv,
           EntryLost \/ RtlEntry \/ TestEntry \/ LintEntry \/ VerifyEntry
    PROVE  SoundInv'
  <1>1. LintSays(mode, clean, lint) /\ Grows(sim, sim)
    BY Unasked DEF SoundInv, HeldInv
  <1>2. sim' = sim => WorldInv'
    BY DEF SoundInv, WorldInv
  <1>3. \A stage \in {"rtl_generate", "lint", "test_generate", "verify"} :
          stage \in Stages
    BY DEF Stages
  <1>4. CASE EntryLost
    BY <1>1, <1>2, <1>4, EntrySound DEF EntryLost, world, held
  <1>5. CASE RtlEntry
    BY <1>1, <1>2, <1>3, <1>5, EntrySound DEF RtlEntry, world
  <1>6. CASE TestEntry
    BY <1>1, <1>2, <1>3, <1>6, EntrySound DEF TestEntry, world
  <1>7. CASE LintEntry
    <2>1. LintSays(mode, clean, lint')
      BY <1>7, LintAnswersSays DEF LintEntry
    <2> QED  BY <1>1, <1>2, <1>3, <1>7, <2>1, EntrySound DEF LintEntry, world
  <1>8. CASE VerifyEntry
    <2>1. PICK o \in Outcomes \cup Estimates, cli \in BOOLEAN :
            /\ Simulates(o, cli)
            /\ verify' = VerifySlotOf(code, o, cli,
                           IF verify = None THEN None ELSE verify.champion)
      BY <1>8 DEF VerifyEntry
    <2>2. /\ cli => mode # "none" /\ Says(mode, sim', code, o)
          /\ Says(mode, sim', code, o)
          /\ Grows(sim, sim') /\ WorldInv'
      BY <2>1, SimulatesSays DEF SoundInv
    <2> DEFINE champion == IF verify = None THEN None ELSE verify.champion
    <2>3. ChampionSound(mode, sim', clean, champion)
      <3>1. CASE verify = None
        BY <3>1 DEF ChampionSound
      <3>2. CASE verify # None
        <4>1. verify \in VerifySlot /\ SlotSound(mode, sim, clean, verify)
          BY <3>2 DEF SoundInv, HeldInv, TypeInv, TypeOK
        <4>2. SlotSound(mode, sim', clean, verify)
          BY <2>2, <4>1, SoundGrows
        <4> QED  BY <3>2, <4>2 DEF SlotSound
      <3> QED  BY <3>1, <3>2
    <2>4. verify' = VerifySlotOf(code, o, cli, champion)
      BY <2>1
    <2> HIDE DEF champion
    <2>5. SlotSound(mode, sim', clean, verify')
      BY <1>1, <2>2, <2>3, <2>4, SlotOfSound
    <2>6. /\ Enters("verify")
          /\ UNCHANGED <<mode, clean, pc, lint, loop>>
      BY <1>8 DEF VerifyEntry
    <2> QED  BY <1>1, <1>3, <2>2, <2>5, <2>6, EntrySound
  <1> QED  BY <1>4, <1>5, <1>6, <1>7, <1>8

LEMMA JudgeEntrySound ==
    ASSUME TypeInv, SoundInv, JudgeEntry
    PROVE  SoundInv'
  <1>1. UNCHANGED <<mode, sim, clean, verify, lint, loop>> /\ pc = "walk"
    BY DEF JudgeEntry, world, held
  <1>2. loop = None
    <2> SUFFICES ASSUME loop # None PROVE FALSE
      OBVIOUS
    <2>1. todo \in Seq(Stages \ {"judge"}) /\ todo # <<>>
      BY DEF JudgeEntry, TypeInv, PhaseInv
    <2>2. Head(todo) \in Stages \ {"judge"}
      BY ONLY <2>1, HeadTailProperties
    <2> QED  BY <2>2 DEF JudgeEntry
  <1>3. frames # <<>> /\ frames \in Seq(Frame) /\ verify # None
    BY <1>1, <1>2 DEF TypeInv, TypeOK, PhaseInv
  <1> DEFINE f == NewFrame(Held)
  <1>4. f \in Frame /\ frames' = Append(frames, f)
    <2>1. Held \in State /\ CountedSlot(Held.verify)
      BY <1>3, TopType DEF Held
    <2> QED  BY <2>1, NewFrameType DEF JudgeEntry
  <1>5. StateSound(mode, sim, clean, f.given) /\ f.best = None
    BY <1>3 DEF SoundInv, HeldInv, StateSound, NewFrame, Held
  <1> HIDE DEF f
  <1>6. FramesInv'
    <2>1. /\ Len(frames') = Len(frames) + 1 /\ frames'[Len(frames) + 1] = f
          /\ \A j \in 1..Len(frames) : frames'[j] = frames[j]
      BY <1>3, <1>4, Pushed
    <2>2. \A i \in 1..Len(frames') : i \in 1..Len(frames) \/ i = Len(frames) + 1
      BY <1>3, <2>1, LenProperties
    <2> QED  BY <1>1, <1>5, <2>1, <2>2 DEF SoundInv, FramesInv
  <1>7. WorldInv' /\ HeldInv' /\ LoopInv'
    BY <1>1, <1>2 DEF SoundInv, WorldInv, HeldInv, LoopInv
  <1> QED  BY <1>6, <1>7 DEF SoundInv

\* The state held while a judge runs is sound.
LEMMA HeldSound ==
    ASSUME TypeInv, SoundInv, frames # <<>>
    PROVE  /\ StateSound(mode, sim, clean, Held)
           /\ StateSound(mode, sim, clean, Top.given)
           /\ Top.best # None => StateSound(mode, sim, clean, Top.best)
  <1>1. verify # None /\ Len(frames) \in 1..Len(frames)
    BY TopType DEF TypeInv, PhaseInv
  <1> QED  BY <1>1 DEF SoundInv, HeldInv, FramesInv, StateSound, Held, Top

\* A step of a judge that replaces its frame by a sound one.
LEMMA TopReplacedSound ==
    ASSUME TypeInv, SoundInv, frames # <<>>, loop = None,
           UNCHANGED <<world, held, loop>>,
           NEW f \in Frame, f.given = Top.given,
           f.best # None => StateSound(mode, sim, clean, f.best),
           \/ frames' = frames
           \/ frames' = [frames EXCEPT ![Len(frames)] = f]
    PROVE  SoundInv'
  <1>1. UNCHANGED <<mode, sim, clean, code, verify, lint>>
    BY DEF world, held
  <1>2. FramesInv'
    <2>1. CASE frames' = frames
      BY <1>1, <2>1 DEF SoundInv, FramesInv
    <2>2. CASE frames' = [frames EXCEPT ![Len(frames)] = f]
      <3>1. frames \in Seq(Frame) /\ Len(frames) \in 1..Len(frames)
        BY TopType DEF TypeInv, TypeOK
      <3>2. /\ Len(frames') = Len(frames)
            /\ frames'[Len(frames)] = f
            /\ \A j \in 1..Len(frames) : j # Len(frames) => frames'[j] = frames[j]
        BY <2>2, <3>1, Replaced
      <3>3. StateSound(mode, sim, clean, f.given)
        BY HeldSound
      <3> QED  BY <1>1, <3>2, <3>3 DEF SoundInv, FramesInv
    <2> QED  BY <2>1, <2>2
  <1>3. WorldInv' /\ HeldInv' /\ LoopInv'
    BY <1>1 DEF SoundInv, WorldInv, HeldInv, LoopInv
  <1> QED  BY <1>2, <1>3 DEF SoundInv

LEMMA GradeSound ==
    ASSUME TypeInv, SoundInv, Grade
    PROVE  SoundInv'
  <1>1. frames # <<>> /\ loop = None /\ UNCHANGED <<world, held, loop>>
    BY DEF Grade, TypeInv, PhaseInv
  <1>2. Top \in Frame /\ Held \in State
    BY <1>1, TopType
  <1>3. CASE ~verify.res.valid
    BY <1>1, <1>2, <1>3, HeldSound, TopReplacedSound DEF Grade
  <1>4. CASE verify.res.valid
    <2> DEFINE best == IF Top.best = None \/ betterJudgeState(Held, Top.best)
                       THEN Held ELSE Top.best
               sig == <<GateScore(Held), FailingIds(Held)>>
               idle == IF sig = Top.sig THEN Top.idle + 1 ELSE 0
               stop == GatePass(Held) \/ Top.iter >= MaxJudgeIters \/ idle >= 2
               f == [Top EXCEPT !.best = best, !.sig = sig, !.idle = idle,
                                !.halted = spent' /\ ~stop]
    <2>1. frames' = [frames EXCEPT ![Len(frames)] = f]
      BY <1>4 DEF Grade, Top
    <2>2. best \in State /\ StateSound(mode, sim, clean, best)
      BY <1>1, <1>2, HeldSound DEF Frame
    <2>3. sig \in Int \X SUBSET Criteria
      <3>1. Held.verify.res.pass + Held.verify.res.fail > 0
        BY <1>1, <1>4, TopType DEF Held, CountedSlot, Counted
      <3> QED  BY <1>2, <3>1, GateType
    <2>4. idle \in Nat /\ (spent' /\ ~stop) \in BOOLEAN
      BY <1>2 DEF Frame
    <2> HIDE DEF best, sig, idle, stop
    <2>5. f \in Frame /\ f.given = Top.given /\ f.best = best
      BY <1>2, <2>2, <2>3, <2>4 DEF Frame
    <2> HIDE DEF f
    <2> QED  BY <1>1, <2>1, <2>2, <2>5, TopReplacedSound
  <1> QED  BY <1>3, <1>4

LEMMA TriageSound ==
    ASSUME TypeInv, SoundInv, Triage
    PROVE  SoundInv'
  <1>1. frames # <<>> /\ loop = None /\ UNCHANGED <<world, held, loop>>
    BY DEF Triage, TypeInv, PhaseInv
  <1> DEFINE f == [Top EXCEPT !.before = code]
  <1>2. frames' = [frames EXCEPT ![Len(frames)] = f]
    BY DEF Triage, Top
  <1>3. f \in Frame /\ f.given = Top.given /\ f.best = Top.best
    BY <1>1, TopType DEF Frame, TypeInv, TypeOK
  <1> HIDE DEF f
  <1> QED  BY <1>1, <1>2, <1>3, HeldSound, TopReplacedSound

LEMMA WalkedSound ==
    ASSUME TypeInv, SoundInv, Walked
    PROVE  SoundInv'
  <1>1. frames # <<>> /\ loop = None /\ UNCHANGED <<world, held, loop>>
    BY DEF Walked, TypeInv, PhaseInv
  <1> DEFINE f == [Top EXCEPT !.iter = Top.iter + 1]
  <1>2. frames' = frames \/ frames' = [frames EXCEPT ![Len(frames)] = f]
    BY DEF Walked, Top
  <1>3. f \in Frame /\ f.given = Top.given /\ f.best = Top.best
    BY <1>1, TopType DEF Frame
  <1> HIDE DEF f
  <1> QED  BY <1>1, <1>2, <1>3, HeldSound, TopReplacedSound

\* What the judge would ship is sound.
LEMMA ShippedSound ==
    ASSUME TypeInv, SoundInv, frames # <<>>
    PROVE  /\ StateSound(mode, sim, clean, BestKnown)
           /\ StateSound(mode, sim, clean, Shipped)
  <1>1. StateSound(mode, sim, clean, BestKnown) /\ BestKnown \in State
    BY HeldSound, ShippedType DEF BestKnown
  <1>2. championRestoreOf(BestKnown) # None => BestKnown.verify.champion # None
    BY DEF championRestoreOf
  <1> QED  BY <1>1, <1>2, ChampionStateSound DEF Shipped

\* A judge that ends leaves the frames under it as they were.
LEMMA FramesPopped ==
    ASSUME TypeInv, SoundInv, frames # <<>>, UNCHANGED world,
           frames' = SubSeq(frames, 1, Len(frames) - 1)
    PROVE  FramesInv'
  <1>1. \A i \in 1..Len(frames') : i \in 1..Len(frames) /\ frames'[i] = frames[i]
    BY TopPopped
  <1> QED  BY <1>1 DEF SoundInv, FramesInv, world

LEMMA SettleSound ==
    ASSUME TypeInv, SoundInv, Settle
    PROVE  SoundInv'
  <1>1. /\ frames # <<>> /\ loop' = None /\ UNCHANGED world
        /\ frames' = SubSeq(frames, 1, Len(frames) - 1)
    BY DEF Settle, TypeInv, PhaseInv
  <1>2. PICK x \in {Shipped, Top.given} :
          /\ verify' \in {Top.given.verify, x.verify}
          /\ lint' = Carried(x.lint, x.code, Top.given.lint)
    BY DEF Settle
  <1>3. /\ StateSound(mode, sim, clean, x)
        /\ StateSound(mode, sim, clean, Top.given)
    BY <1>1, HeldSound, ShippedSound
  <1>4. HeldInv'
    BY <1>1, <1>2, <1>3 DEF HeldInv, StateSound, Carried, world
  <1>5. FramesInv'
    BY <1>1, FramesPopped
  <1> QED  BY <1>1, <1>4, <1>5 DEF SoundInv, WorldInv, LoopInv, world

LEMMA ThrowSound ==
    ASSUME TypeInv, SoundInv, Throw
    PROVE  SoundInv'
  <1>1. loop' = None /\ UNCHANGED world
    BY DEF Throw
  <1>2. CASE frames # <<>>
    <2>1. /\ lint' = Top.given.lint /\ verify' = Top.given.verify
          /\ frames' = SubSeq(frames, 1, Len(frames) - 1)
      BY <1>2 DEF Throw
    <2>2. HeldInv'
      BY <1>1, <1>2, <2>1, HeldSound DEF HeldInv, StateSound, world
    <2>3. FramesInv'
      BY <1>1, <1>2, <2>1, FramesPopped
    <2> QED  BY <1>1, <2>2, <2>3 DEF SoundInv, WorldInv, LoopInv, world
  <1>3. CASE frames = <<>>
    <2>1. frames' = <<>> /\ verify' \in {verify, None}
            /\ lint' \in {lint, loop.given.lint}
            /\ (loop = None => lint' = lint)
      BY <1>3 DEF Throw, Held
    <2>2. HeldInv'
      BY <1>1, <2>1 DEF SoundInv, HeldInv, LoopInv, world
    <2>3. FramesInv'
      BY <2>1 DEF FramesInv
    <2> QED  BY <1>1, <2>2, <2>3 DEF SoundInv, WorldInv, LoopInv, world
  <1> QED  BY <1>2, <1>3

LEMMA InitSound == Init => SoundInv
  BY DEF Init, SoundInv, WorldInv, HeldInv, LoopInv, FramesInv, LintSays

LEMMA SoundStep ==
    ASSUME MaxVerifyIters <= 3
    PROVE  TypeInv /\ SoundInv /\ [Next]_vars => SoundInv'
  <1> SUFFICES ASSUME TypeInv, SoundInv, [Next]_vars PROVE SoundInv'
    OBVIOUS
  <1>1. CASE LintStage
    BY <1>1, LintStageSound
  <1>2. CASE Measure
    BY <1>2, MeasureSound
  <1>3. CASE Repair
    BY <1>3, RepairSound
  <1>4. CASE Adopt
    BY <1>4, AdoptSound
  <1>5. CASE Ship
    BY <1>5, ShipSound
  <1>6. CASE EntryLost \/ RtlEntry \/ TestEntry \/ LintEntry \/ VerifyEntry
    BY <1>6, EntriesSound
  <1>7. CASE JudgeEntry
    BY <1>7, JudgeEntrySound
  <1>8. CASE Grade
    BY <1>8, GradeSound
  <1>9. CASE Triage
    BY <1>9, TriageSound
  <1>10. CASE Walked
    BY <1>10, WalkedSound
  <1>11. CASE Settle
    BY <1>11, SettleSound
  <1>12. CASE Throw
    BY <1>12, ThrowSound
  <1>13. CASE UNCHANGED vars
    BY <1>13 DEF vars, world, held, SoundInv, WorldInv, HeldInv, LoopInv, FramesInv
  <1> QED
    BY <1>1, <1>2, <1>3, <1>4, <1>5, <1>6, <1>7, <1>8, <1>9, <1>10, <1>11,
       <1>12, <1>13 DEF Next

LEMMA Honesty ==
    ASSUME MaxVerifyIters <= 3
    PROVE  Spec => [](TypeInv /\ SoundInv)
  <1>1. Init => TypeInv /\ SoundInv
    BY InitTypeInv, InitSound
  <1>2. TypeInv /\ SoundInv /\ [Next]_vars => (TypeInv /\ SoundInv)'
    BY TypeInvStep, SoundStep
  <1> QED  BY <1>1, <1>2, PTL DEF Spec

\* Numbers that agree are what was told, but for the validity.
LEMMA SaysTold ==
    ASSUME TypeInv, mode = "strict", NEW c \in Pair, NEW o \in Outcome,
           Says(mode, sim, c, o)
    PROVE  Told(c, o)
  <1>1. sim[c] \in Outcome
    BY DEF TypeInv, TypeOK, Says
  <1> QED  BY <1>1 DEF Told, Says, Outcome

\* With a strict backend and at most three iterations (the default), the
\* numbers of every slot and champion are what the tools said of the code they
\* are stamped with, through every repair, rejection, restore and failure: a
\* fourth iteration could end the verify loop on a pair it has not measured.
THEOREM SlotsHonest ==
    ASSUME MaxVerifyIters <= 3
    PROVE  Spec => []SlotsAreHonest
  <1>1. TypeInv /\ SoundInv => SlotsAreHonest
    <2> SUFFICES ASSUME TypeInv, SoundInv, mode = "strict"
                 PROVE  /\ lint.findings # "unknown" => LintTold(lint)
                        /\ verify # None =>
                             /\ verify.cli => Told(verify.of, verify.res)
                             /\ verify.champion # None =>
                                  /\ Told(verify.champion.code, verify.champion.res)
                                  /\ (/\ verify.champion.lint # None
                                      /\ verify.champion.lint.findings # "unknown")
                                        => LintTold(verify.champion.lint)
      BY DEF SlotsAreHonest
    <2>1. lint.findings # "unknown" => LintTold(lint)
      BY DEF SoundInv, HeldInv, LintSays, LintTold
    <2>2. ASSUME verify # None
          PROVE  /\ verify.cli => Told(verify.of, verify.res)
                 /\ verify.champion # None =>
                      /\ Told(verify.champion.code, verify.champion.res)
                      /\ (/\ verify.champion.lint # None
                          /\ verify.champion.lint.findings # "unknown")
                            => LintTold(verify.champion.lint)
      <3>1. verify \in VerifySlot /\ SlotSound(mode, sim, clean, verify)
        BY <2>2 DEF SoundInv, HeldInv, TypeInv, TypeOK
      <3>2. verify.cli => Told(verify.of, verify.res)
        BY <3>1, SaysTold DEF SlotSound, VerifySlot
      <3>3. verify.champion # None =>
                Told(verify.champion.code, verify.champion.res)
        BY <3>1, SaysTold DEF SlotSound, ChampionSound, VerifySlot, Champion
      <3>4. (/\ verify.champion # None /\ verify.champion.lint # None
             /\ verify.champion.lint.findings # "unknown")
               => LintTold(verify.champion.lint)
        BY <3>1 DEF SlotSound, ChampionSound, LintSays, LintTold
      <3> QED  BY <3>2, <3>3, <3>4
    <2> QED  BY <2>1, <2>2
  <1> QED  BY <1>1, Honesty, PTL

-----------------------------------------------------------------------------
(* The verdict.                                                               *)

VerdictInv == (verdict # "none" => pc = "done") /\ PassIsEarned

\* Below 200 tests a rate rounded to 100 means that none fails.
LEMMA FullRate ==
    ASSUME NEW p \in Nat, NEW f \in Nat, p + f > 0, p + f < 200,
           Rounded(100 * p, p + f) >= 100
    PROVE  f = 0 /\ p > 0
  <1> DEFINE d == 2 * (p + f)
             n == 2 * (100 * p) + (p + f)
  <1>1. n \in Int /\ d \in Nat /\ d > 0 /\ n \div d >= 100
    BY DEF Rounded
  <1>2. n >= 100 * d
    <2> HIDE DEF n, d
    <2> QED  BY <1>1
  <1> QED  BY <1>2

\* A state judged PASS is stamped with its code and all its tests pass.
LEMMA PassingState ==
    ASSUME NEW s \in State, CountedSlot(s.verify), s.verify.res.valid,
           GatePass(s), s.verify.res.pass + s.verify.res.fail < 200
    PROVE  s.verify.of = s.code /\ s.verify.res.fail = 0 /\ s.verify.res.pass > 0
  <1>1. s.verify.res.pass \in Nat /\ s.verify.res.fail \in Nat
          /\ s.verify.res.pass + s.verify.res.fail > 0
    BY DEF State, VerifySlot, Outcome, CountedSlot, Counted
  <1>2. "verify_pass_rate" \notin FailingIds(s) /\ "req_func_must" \notin FailingIds(s)
    BY DEF GatePass
  <1>3. ~(VerifyRate(s) < 100) /\ ~(Rate(s.verify.res) < 100)
    BY <1>2 DEF FailingIds
  <1>4. FreshVerify(s)
    BY <1>3 DEF VerifyRate
  <1>5. Rounded(100 * s.verify.res.pass, s.verify.res.pass + s.verify.res.fail) \in Int
    <2>1. 100 * s.verify.res.pass \in Int /\ s.verify.res.pass + s.verify.res.fail \in Int
      BY <1>1
    <2> QED  BY ONLY <1>1, <2>1, RoundedType
  <1>6. Rounded(100 * s.verify.res.pass, s.verify.res.pass + s.verify.res.fail) >= 100
    BY <1>3, <1>5 DEF Rate
  <1> DEFINE p == s.verify.res.pass
             f == s.verify.res.fail
  <1>7. /\ p \in Nat /\ f \in Nat /\ p + f > 0 /\ p + f < 200
        /\ Rounded(100 * p, p + f) >= 100
    BY <1>1, <1>6
  <1> HIDE DEF p, f
  <1>8. f = 0 /\ p > 0
    BY ONLY <1>7, FullRate
  <1> QED  BY <1>4, <1>8 DEF FreshVerify, p, f

LEMMA SettleVerdict ==
    ASSUME \A o \in Outcomes : o.pass + o.fail < 200,
           TypeInv, SoundInv, VerdictInv, Settle
    PROVE  VerdictInv'
  <1>1. /\ frames # <<>> /\ pc = "settle" /\ UNCHANGED world /\ verdict = "none"
    BY DEF Settle, TypeInv, PhaseInv, VerdictInv
  <1>2. PICK accepted \in BOOLEAN :
         LET s == IF accepted THEN Shipped ELSE Top.given
             last == Len(frames) = 1
         IN  /\ code' = s.code
             /\ verify' = IF last /\ Top.given.verify.cli /\ ~s.verify.cli
                          THEN Top.given.verify ELSE s.verify
             /\ lint' = Carried(s.lint, s.code, Top.given.lint)
             /\ pc' = IF last THEN "done" ELSE "walk"
             /\ verdict' = IF ~last THEN verdict
                           ELSE IF accepted THEN Verdict(s) ELSE "UNVERIFIED"
    BY DEF Settle, Verdicts
  <1>3. verdict' # "none" => pc' = "done"
    BY <1>1, <1>2
  <1>4. ASSUME verdict' = "PASS"
        PROVE  mode # "none" /\ (mode = "strict" => sim[code'] # None /\ Green(sim[code']))
    <2>1. Verdict(Shipped) = "PASS" /\ code' = Shipped.code
      BY <1>1, <1>2, <1>4
    <2>2. /\ Shipped.verify.res.valid /\ GatePass(Shipped) /\ Shipped.verify.cli
      BY <2>1 DEF Verdict
    <2>3. /\ Shipped \in State /\ CountedSlot(Shipped.verify)
          /\ StateSound(mode, sim, clean, Shipped)
      BY <1>1, ShippedType, ShippedSound
    <2>4. mode # "none" /\ Says(mode, sim, Shipped.verify.of, Shipped.verify.res)
      BY <2>2, <2>3 DEF StateSound, SlotSound
    <2>5. ASSUME mode = "strict"
          PROVE  sim[Shipped.code] # None /\ Green(sim[Shipped.code])
      <3> DEFINE o == sim[Shipped.verify.of]
      <3>1. /\ o # None /\ Shipped.verify.res.pass = o.pass
            /\ Shipped.verify.res.fail = o.fail
        BY <2>4, <2>5 DEF Says
      <3>2. o \in Outcomes
        <4>1. Shipped.verify.of \in Pair
          BY <2>3 DEF State, VerifySlot
        <4> QED  BY <3>1, <4>1 DEF SoundInv, WorldInv
      <3>3. Shipped.verify.res.pass + Shipped.verify.res.fail < 200
        BY <3>1, <3>2
      <3>4. /\ Shipped.verify.of = Shipped.code
            /\ Shipped.verify.res.fail = 0 /\ Shipped.verify.res.pass > 0
        BY <2>2, <2>3, <3>3, PassingState
      <3> QED  BY <3>1, <3>4 DEF Green
    <2> QED  BY <2>1, <2>4, <2>5
  <1>5. PassIsEarned'
    BY <1>1, <1>4 DEF PassIsEarned, world
  <1> QED  BY <1>3, <1>5 DEF VerdictInv

LEMMA VerdictStep ==
    ASSUME \A o \in Outcomes : o.pass + o.fail < 200
    PROVE  TypeInv /\ SoundInv /\ VerdictInv /\ [Next]_vars => VerdictInv'
  <1> SUFFICES ASSUME TypeInv, SoundInv, VerdictInv, [Next]_vars PROVE VerdictInv'
    OBVIOUS
  <1>1. CASE Settle
    BY <1>1, SettleVerdict
  <1>2. CASE UNCHANGED vars
    BY <1>2 DEF vars, world, held, VerdictInv, PassIsEarned
  <1>3. CASE Next /\ ~Settle
    <2>1. verdict' = verdict /\ pc # "done"
      <3>1. CASE LintStage \/ Measure \/ Repair \/ Adopt \/ Ship
        BY <3>1 DEF LintStage, Measure, Repair, Adopt, Ship
      <3>2. CASE EntryLost \/ RtlEntry \/ TestEntry \/ LintEntry \/ VerifyEntry
        BY <3>2 DEF EntryLost, RtlEntry, TestEntry, LintEntry, VerifyEntry, Enters
      <3>3. CASE JudgeEntry \/ Grade \/ Triage \/ Walked \/ Throw
        BY <3>3 DEF JudgeEntry, Grade, Triage, Walked, Throw
      <3> QED  BY <1>3, <3>1, <3>2, <3>3 DEF Next
    <2> QED  BY <2>1 DEF VerdictInv, PassIsEarned
  <1> QED  BY <1>1, <1>2, <1>3

\* PASS is earned, with at most three iterations and suites below 200 tests
\* (above, one failing test is rounded away): with a strict backend the
\* simulator ran the pair shipped and every test passed.
THEOREM PassEarned ==
    ASSUME MaxVerifyIters <= 3, \A o \in Outcomes : o.pass + o.fail < 200
    PROVE  Spec => []PassIsEarned
  <1>1. Init => VerdictInv
    BY DEF Init, VerdictInv, PassIsEarned
  <1>2. TypeInv /\ SoundInv /\ VerdictInv /\ [Next]_vars => VerdictInv'
    BY VerdictStep
  <1>3. VerdictInv => PassIsEarned
    BY DEF VerdictInv
  <1> QED  BY <1>1, <1>2, <1>3, Honesty, PTL DEF Spec

-----------------------------------------------------------------------------
(* What verify ships.                                                         *)

LEMMA ShipNoWorse ==
    ASSUME TypeInv, SoundInv, Ship, mode = "strict", verify'.cli
    PROVE  /\ ~Worse(sim[code'], sim[loop.given.code])
           /\ ~Worse(sim[code'], sim[loop.best.code])
  <1> DEFINE final == IF shouldRestoreBest(loop.best.res, loop.data.res)
                      THEN loop.best
                      ELSE [code |-> code, res |-> loop.data.res,
                            cli |-> loop.data.cli]
             given == loop.given.code
             best == loop.best
  <1>1. /\ loop \in Loop /\ loop # None /\ pc = "ship" /\ best # None
        /\ best \in Measured /\ given \in Pair /\ code \in Pair
    <2>1. loop \in Loop /\ loop # None /\ pc = "ship" /\ best # None /\ code \in Pair
      BY DEF Ship, TypeInv, TypeOK, PhaseInv
    <2> QED  BY <2>1 DEF Loop
  <1>2. /\ Says(mode, sim, best.code, best.res) /\ sim[given] # None
        /\ ~Worse(best.res, sim[given])
        /\ Says(mode, sim, code, loop.data.res)
    BY <1>1 DEF SoundInv, LoopInv, BestSound
  <1>3. code' = final.code
    BY UnverifiedType, <1>1 DEF Ship
  <1>4. final.code \in Pair /\ Says(mode, sim, final.code, final.res)
    BY <1>1, <1>2 DEF Measured
  <1>5. /\ Plain(final.res) /\ Plain(sim[final.code])
        /\ Plain(best.res) /\ Plain(sim[best.code]) /\ Plain(sim[given])
    <2>1. Says(mode, sim, given, sim[given])
      BY <1>2 DEF Says
    <2>2. best.code \in Pair /\ WorldInv
      BY <1>1 DEF Measured, SoundInv
    <2> QED  BY <1>1, <1>2, <1>4, <2>1, <2>2, PlainTold
  <1>6. ~Worse(final.res, best.res)
    <2>1. CASE shouldRestoreBest(best.res, loop.data.res)
      BY <1>5, <2>1, WorseOrder
    <2>2. CASE ~shouldRestoreBest(best.res, loop.data.res)
      <3>1. final.res = loop.data.res
        BY <2>2
      <3> QED  BY <1>5, <2>2, <3>1, WorseOrder
    <2> QED  BY <2>1, <2>2
  <1> HIDE DEF final, given, best
  <1>7. ~Worse(final.res, sim[given])
    BY <1>2, <1>5, <1>6, WorseOrder
  <1>8. \A r, t, u : Says(mode, sim, r, t) /\ Plain(t) /\ Plain(sim[r])
                       => (Worse(sim[r], u) <=> Worse(t, u))
                            /\ (Worse(u, sim[r]) <=> Worse(u, t))
    BY DEF Says, Worse, Compiles, Score
  <1> QED  BY <1>2, <1>3, <1>4, <1>5, <1>6, <1>7, <1>8 DEF given, best

\* With a strict backend and at most three iterations verify never ships a
\* worse pair than the one it was given, nor than the best it measured.
THEOREM VerifyNoWorse ==
    ASSUME MaxVerifyIters <= 3
    PROVE  Spec => VerifyNeverWorsens
  <1>1. TypeInv /\ SoundInv /\ [Next]_vars =>
          [mode = "strict" /\ pc = "ship" /\ verify'.cli =>
             /\ ~Worse(sim[code'], sim[loop.given.code])
             /\ ~Worse(sim[code'], sim[loop.best.code])]_vars
    <2> SUFFICES ASSUME TypeInv, SoundInv, Next, mode = "strict", pc = "ship",
                        verify'.cli
                 PROVE  /\ ~Worse(sim[code'], sim[loop.given.code])
                        /\ ~Worse(sim[code'], sim[loop.best.code])
      OBVIOUS
    <2>1. Ship
      BY DEF Next, LintStage, Measure, Repair, Adopt, EntryLost, RtlEntry,
             TestEntry, LintEntry, VerifyEntry, Enters, JudgeEntry, Grade,
             Triage, Walked, Settle, Throw
    <2> QED  BY <2>1, ShipNoWorse
  <1> QED  BY <1>1, Honesty, PTL DEF Spec, VerifyNeverWorsens

-----------------------------------------------------------------------------
(* The champion of the stage is never lost.                                   *)

\* Champion c is at least as good as c0.
Keeps(c, c0) == Usable(c0) => Usable(c) /\ c.res.pass >= c0.res.pass

BankInv ==
    frames # <<>> =>
        LET c0 == frames[1].given.verify.champion
        IN  /\ Keeps(verify.champion, c0)
            /\ Usable(c0) => c0.code = frames[1].given.code
            /\ \A i \in 1..Len(frames) :
                 /\ Keeps(frames[i].given.verify.champion, c0)
                 /\ frames[i].best # None =>
                      /\ frames[i].best.verify.res.valid
                      /\ Keeps(frames[i].best.verify.champion, c0)

\* A contest keeps the champion or replaces it by a better one.
LEMMA BankedKeeps ==
    ASSUME NEW cand \in Champion, NEW champ \in Champion \cup {None},
           NEW c0 \in Champion \cup {None}, Keeps(champ, c0)
    PROVE  Keeps(Banked(cand, champ), c0)
  <1>1. \A c \in Champion : c.res.pass \in Nat /\ c.res.fail \in Nat
                              /\ c.res.blocking \in Nat
    BY DEF Champion, Outcome
  <1> QED  BY <1>1 DEF Keeps, Banked, betterChampion, Usable, Near, Compiles

LEMMA GivenChampion ==
    ASSUME TypeInv, frames # <<>>
    PROVE  /\ 1 \in 1..Len(frames)
           /\ frames[1].given.verify.champion \in Champion \cup {None}
           /\ frames[1].given.code \in Pair
           /\ Keeps(frames[1].given.verify.champion, frames[1].given.verify.champion)
  <1>1. Len(frames) \in Nat \ {0} /\ frames \in Seq(Frame)
    BY TopType DEF TypeInv, TypeOK
  <1>2. 1 \in 1..Len(frames) /\ frames[1] \in Frame
    BY <1>1
  <1>3. frames[1].given.verify \in VerifySlot /\ frames[1].given.code \in Pair
    BY <1>2 DEF Frame, State
  <1> QED
    BY SMTT(30), <1>2, <1>3 DEF Keeps, VerifySlot, Usable, Champion, Outcome

\* A judge's step that keeps what its frame was given, with a sound best.
LEMMA BankReplaced ==
    ASSUME TypeInv, BankInv, frames # <<>>, verify' = verify,
           NEW f \in Frame, f.given = Top.given,
           f.best \in {Top.best, Held, None},
           f.best = Held => verify.res.valid,
           \/ frames' = frames
           \/ frames' = [frames EXCEPT ![Len(frames)] = f]
    PROVE  BankInv'
  <1>1. CASE frames' = frames
    BY <1>1 DEF BankInv
  <1>2. CASE frames' = [frames EXCEPT ![Len(frames)] = f]
    <2>1. frames \in Seq(Frame) /\ Len(frames) \in 1..Len(frames)
            /\ 1 \in 1..Len(frames)
      BY TopType, GivenChampion DEF TypeInv, TypeOK
    <2>2. /\ Len(frames') = Len(frames)
          /\ frames'[Len(frames)] = f
          /\ \A j \in 1..Len(frames) : j # Len(frames) => frames'[j] = frames[j]
      BY <1>2, <2>1, Replaced
    <2>3. \A i \in 1..Len(frames) : frames'[i].given = frames[i].given
      BY <2>2 DEF Top
    <2> DEFINE c0 == frames[1].given.verify.champion
    <2>4. /\ Keeps(verify.champion, c0)
          /\ Usable(c0) => c0.code = frames[1].given.code
          /\ \A i \in 1..Len(frames) :
               /\ Keeps(frames[i].given.verify.champion, c0)
               /\ frames[i].best # None =>
                    /\ frames[i].best.verify.res.valid
                    /\ Keeps(frames[i].best.verify.champion, c0)
      BY DEF BankInv
    <2>5. f.best # None => f.best.verify.res.valid /\ Keeps(f.best.verify.champion, c0)
      <3>1. CASE f.best = Top.best
        BY <2>1, <2>4, <3>1 DEF Top
      <3>2. CASE f.best = Held
        BY <2>4, <3>2 DEF Held
      <3> QED  BY <3>1, <3>2
    <2>6. frames'[1].given = frames[1].given
      BY <2>1, <2>3
    <2> HIDE DEF c0
    <2>7. \A i \in 1..Len(frames') :
            /\ Keeps(frames'[i].given.verify.champion, c0)
            /\ frames'[i].best # None =>
                 /\ frames'[i].best.verify.res.valid
                 /\ Keeps(frames'[i].best.verify.champion, c0)
      <3> TAKE i \in 1..Len(frames')
      <3>1. i \in 1..Len(frames)
        BY <2>2
      <3>2. CASE i = Len(frames)
        BY <2>2, <2>3, <2>4, <2>5, <3>1, <3>2
      <3>3. CASE i # Len(frames)
        BY <2>2, <2>4, <3>1, <3>3
      <3> QED  BY <3>2, <3>3
    <2> QED  BY <2>4, <2>6, <2>7 DEF BankInv, c0
  <1> QED  BY <1>1, <1>2

\* A walk's entry that leaves a verify slot with as good a champion.
LEMMA BankEntry ==
    ASSUME TypeInv, BankInv, NEW stage \in Stages, Enters(stage),
           frames # <<>> =>
               Keeps(verify'.champion, frames[1].given.verify.champion)
    PROVE  BankInv'
  <1> SUFFICES ASSUME frames' # <<>> PROVE BankInv'
    BY DEF BankInv
  <1>1. /\ frames' \in Seq(Frame) /\ Len(frames') = Len(frames)
        /\ \A i \in 1..Len(frames) :
             /\ frames'[i].given = frames[i].given
             /\ frames'[i].best = frames[i].best
    BY EntersType
  <1>2. frames # <<>>
    <2>1. Len(frames') \in Nat \ {0}
      BY <1>1, EmptySeq
    <2> QED  BY <1>1, <2>1
  <1> DEFINE c0 == frames[1].given.verify.champion
  <1>3. 1 \in 1..Len(frames) /\ frames'[1].given = frames[1].given
    BY <1>1, <1>2, GivenChampion
  <1>4. Keeps(verify'.champion, c0)
    BY <1>2
  <1>5. /\ Usable(c0) => c0.code = frames[1].given.code
        /\ \A i \in 1..Len(frames) :
             /\ Keeps(frames[i].given.verify.champion, c0)
             /\ frames[i].best # None =>
                  /\ frames[i].best.verify.res.valid
                  /\ Keeps(frames[i].best.verify.champion, c0)
    BY <1>2 DEF BankInv
  <1>6. c0' = c0
    BY <1>3
  <1> HIDE DEF c0
  <1>7. \A i \in 1..Len(frames') :
          /\ Keeps(frames'[i].given.verify.champion, c0)
          /\ frames'[i].best # None =>
               /\ frames'[i].best.verify.res.valid
               /\ Keeps(frames'[i].best.verify.champion, c0)
    BY <1>1, <1>5
  <1> QED  BY <1>3, <1>4, <1>5, <1>6, <1>7 DEF BankInv, c0

LEMMA BankEntries ==
    ASSUME TypeInv, BankInv,
           EntryLost \/ RtlEntry \/ TestEntry \/ LintEntry \/ VerifyEntry
    PROVE  BankInv'
  <1> DEFINE c0 == frames[1].given.verify.champion
  <1>1. frames # <<>> => Keeps(verify.champion, c0)
    BY DEF BankInv
  <1>2. \A stage \in {"rtl_generate", "lint", "test_generate", "verify"} :
          stage \in Stages
    BY DEF Stages
  <1>3. CASE EntryLost
    BY <1>1, <1>3, BankEntry DEF EntryLost, held
  <1>4. CASE RtlEntry \/ TestEntry \/ LintEntry
    BY <1>1, <1>2, <1>4, BankEntry DEF RtlEntry, TestEntry, LintEntry
  <1>5. CASE VerifyEntry
    <2>1. PICK o \in Outcomes \cup Estimates, cli \in BOOLEAN :
            /\ Simulates(o, cli)
            /\ verify' = VerifySlotOf(code, o, cli,
                           IF verify = None THEN None ELSE verify.champion)
      BY <1>5 DEF VerifyEntry
    <2>2. ASSUME frames # <<>>
          PROVE  Keeps(verify'.champion, c0)
      <3> DEFINE cand == [code |-> code, res |-> o, lint |-> FreshOrNone(lint, code)]
      <3>1. o \in Outcome /\ code \in Pair /\ lint \in LintSlot
        BY <2>1, SimulatesType DEF TypeInv, TypeOK
      <3>2. cand \in Champion
        BY <3>1 DEF Champion, FreshOrNone
      <3>3. verify \in VerifySlot /\ verify # None
        BY <2>2, TopType DEF TypeInv, PhaseInv
      <3>4. verify'.champion = Banked(cand, verify.champion)
        BY <2>1, <3>3 DEF VerifySlotOf
      <3>5. c0 \in Champion \cup {None} /\ verify.champion \in Champion \cup {None}
        BY <2>2, <3>3, GivenChampion DEF VerifySlot
      <3> HIDE DEF cand, c0
      <3> QED  BY <1>1, <2>2, <3>2, <3>4, <3>5, BankedKeeps
    <2> QED  BY <1>2, <1>5, <2>2, BankEntry DEF VerifyEntry
  <1> QED  BY <1>3, <1>4, <1>5

LEMMA BankShip ==
    ASSUME TypeInv, Ship
    PROVE  BankInv'
  <1> DEFINE final == IF shouldRestoreBest(loop.best.res, loop.data.res)
                      THEN loop.best
                      ELSE [code |-> code, res |-> loop.data.res,
                            cli |-> loop.data.cli]
             f == NewFrame(Held')
  <1>1. frames' = <<f>> /\ f.given.verify = verify' /\ f.given.code = code'
          /\ f.best = None
    BY DEF Ship, NewFrame, Held
  <1>2. Usable(verify'.champion) => verify'.champion.code = code'
    <2>1. CASE code' = final.code
               /\ verify' = VerifySlotOf(final.code, final.res, final.cli, None)
      <3>1. verify'.champion \in
              {None, [code |-> final.code, res |-> final.res,
                      lint |-> FreshOrNone(lint, final.code)]}
        BY <2>1 DEF VerifySlotOf, Banked
      <3> HIDE DEF final
      <3> QED  BY <2>1, <3>1 DEF Usable
    <2>2. CASE verify' = Unverified(loop.given.code)
      BY <2>2 DEF Unverified, Usable
    <2> QED  BY <2>1, <2>2 DEF Ship
  <1>3. verify' \in VerifySlot
    <2>1. TypeInv' /\ frames' # <<>>
      BY <1>1, ShipTypeInv
    <2> QED  BY <2>1, NoneApart DEF TypeInv, TypeOK, PhaseInv
  <1>4. Keeps(verify'.champion, verify'.champion)
    BY <1>3 DEF Keeps, VerifySlot, Usable, Champion, Outcome
  <1> HIDE DEF f, final
  <1>5. Len(frames') = 1 /\ frames'[1] = f
    BY <1>1
  <1> QED  BY <1>1, <1>2, <1>4, <1>5 DEF BankInv

LEMMA BankJudgeEntry ==
    ASSUME TypeInv, BankInv, JudgeEntry, loop = None
    PROVE  BankInv'
  <1> DEFINE f == NewFrame(Held)
             c0 == frames[1].given.verify.champion
  <1>1. frames # <<>> /\ frames \in Seq(Frame)
    BY DEF JudgeEntry, TypeInv, TypeOK, PhaseInv
  <1>2. f \in Frame /\ frames' = Append(frames, f)
    <2>1. Held \in State /\ CountedSlot(Held.verify)
      BY <1>1, TopType DEF Held
    <2> QED  BY <2>1, NewFrameType DEF JudgeEntry
  <1>3. f.given.verify = verify /\ f.best = None /\ verify' = verify
    BY DEF NewFrame, Held, JudgeEntry, held
  <1>4. 1 \in 1..Len(frames)
    BY <1>1, GivenChampion
  <1>5. /\ Keeps(verify.champion, c0)
        /\ Usable(c0) => c0.code = frames[1].given.code
        /\ \A i \in 1..Len(frames) :
             /\ Keeps(frames[i].given.verify.champion, c0)
             /\ frames[i].best # None =>
                  /\ frames[i].best.verify.res.valid
                  /\ Keeps(frames[i].best.verify.champion, c0)
    BY <1>1 DEF BankInv
  <1> HIDE DEF f
  <1>6. /\ Len(frames') = Len(frames) + 1 /\ frames'[Len(frames) + 1] = f
        /\ \A j \in 1..Len(frames) : frames'[j] = frames[j]
    BY <1>1, <1>2, Pushed
  <1>7. frames'[1] = frames[1]
    BY <1>4, <1>6
  <1> HIDE DEF c0
  <1>8. \A i \in 1..Len(frames') :
          /\ Keeps(frames'[i].given.verify.champion, c0)
          /\ frames'[i].best # None =>
               /\ frames'[i].best.verify.res.valid
               /\ Keeps(frames'[i].best.verify.champion, c0)
    <2> TAKE i \in 1..Len(frames')
    <2>1. i \in 1..Len(frames) \/ i = Len(frames) + 1
      BY <1>1, <1>6, LenProperties
    <2> QED  BY <1>3, <1>5, <1>6, <2>1
  <1> QED  BY <1>3, <1>5, <1>7, <1>8 DEF BankInv, c0

LEMMA BankJudge ==
    ASSUME TypeInv, BankInv, Grade \/ Triage \/ Walked
    PROVE  BankInv'
  <1>1. frames # <<>> /\ verify' = verify
    BY DEF Grade, Triage, Walked, TypeInv, PhaseInv, held
  <1>2. Top \in Frame /\ Held \in State
    BY <1>1, TopType
  <1>3. CASE frames' = frames
    BY <1>1, <1>3 DEF BankInv
  <1>4. CASE Grade /\ verify.res.valid
    <2> DEFINE best == IF Top.best = None \/ betterJudgeState(Held, Top.best)
                       THEN Held ELSE Top.best
               sig == <<GateScore(Held), FailingIds(Held)>>
               idle == IF sig = Top.sig THEN Top.idle + 1 ELSE 0
               stop == GatePass(Held) \/ Top.iter >= MaxJudgeIters \/ idle >= 2
               f == [Top EXCEPT !.best = best, !.sig = sig, !.idle = idle,
                                !.halted = spent' /\ ~stop]
    <2>1. frames' = [frames EXCEPT ![Len(frames)] = f]
      BY <1>4 DEF Grade, Top
    <2>2. best \in {Top.best, Held} /\ best \in State
      BY <1>2 DEF Frame
    <2>3. sig \in Int \X SUBSET Criteria
      <3>1. Held.verify.res.pass + Held.verify.res.fail > 0
        BY <1>1, <1>2, <1>4, TopType DEF Held, CountedSlot, Counted
      <3> QED  BY <1>2, <3>1, GateType
    <2>4. idle \in Nat /\ (spent' /\ ~stop) \in BOOLEAN
      BY <1>2 DEF Frame
    <2> HIDE DEF best, sig, idle, stop
    <2>5. f \in Frame /\ f.given = Top.given /\ f.best = best
      BY <1>2, <2>2, <2>3, <2>4 DEF Frame
    <2> HIDE DEF f
    <2> QED  BY <1>1, <1>4, <2>1, <2>2, <2>5, BankReplaced
  <1>5. CASE Triage
    <2> DEFINE f == [Top EXCEPT !.before = code]
    <2>1. frames' = [frames EXCEPT ![Len(frames)] = f]
      BY <1>5 DEF Triage, Top
    <2>2. f \in Frame /\ f.given = Top.given /\ f.best = Top.best
      BY <1>2 DEF Frame, TypeInv, TypeOK
    <2>3. f.best = Held => verify.res.valid
      BY <1>1, <1>2, <2>2, NoneApart, TopType DEF BankInv, Top, Held
    <2> HIDE DEF f
    <2> QED  BY <1>1, <2>1, <2>2, <2>3, BankReplaced
  <1>6. CASE Walked
    <2> DEFINE f == [Top EXCEPT !.iter = Top.iter + 1]
    <2>1. frames' = frames \/ frames' = [frames EXCEPT ![Len(frames)] = f]
      BY <1>6 DEF Walked, Top
    <2>2. f \in Frame /\ f.given = Top.given /\ f.best = Top.best
      BY <1>2 DEF Frame
    <2>3. f.best = Held => verify.res.valid
      BY <1>1, <1>2, <2>2, NoneApart, TopType DEF BankInv, Top, Held
    <2> HIDE DEF f
    <2> QED  BY <1>1, <2>1, <2>2, <2>3, BankReplaced
  <1> QED  BY <1>3, <1>4, <1>5, <1>6 DEF Grade

\* What the judge would ship keeps the champion.
LEMMA ShippedKeeps ==
    ASSUME TypeInv, BankInv, frames # <<>>
    PROVE  /\ Keeps(BestKnown.verify.champion, frames[1].given.verify.champion)
           /\ Keeps(Shipped.verify.champion, frames[1].given.verify.champion)
           /\ verify.res.valid => BestKnown.verify.res.valid
  <1> DEFINE c0 == frames[1].given.verify.champion
  <1>1. Len(frames) \in 1..Len(frames)
    BY TopType
  <1>2. /\ Keeps(Held.verify.champion, c0)
        /\ Top.best # None => /\ Top.best.verify.res.valid
                              /\ Keeps(Top.best.verify.champion, c0)
    BY <1>1 DEF BankInv, Top, Held
  <1>3. /\ Keeps(BestKnown.verify.champion, c0)
        /\ verify.res.valid => BestKnown.verify.res.valid
    BY <1>2 DEF BestKnown, Held
  <1>4. BestKnown.verify \in VerifySlot
    BY ShippedType DEF State
  <1>5. ChampionState(BestKnown).verify.champion = BestKnown.verify.champion
    BY <1>4 DEF ChampionState, VerifySlot
  <1> QED  BY <1>3, <1>5 DEF Shipped

\* A judge that ends on a walk hands over a slot with as good a champion.
LEMMA BankPopped ==
    ASSUME TypeInv, BankInv, frames # <<>>,
           frames' = SubSeq(frames, 1, Len(frames) - 1),
           Len(frames) > 1 =>
               Keeps(verify'.champion, frames[1].given.verify.champion)
    PROVE  BankInv'
  <1> SUFFICES ASSUME frames' # <<>> PROVE BankInv'
    BY DEF BankInv
  <1> DEFINE c0 == frames[1].given.verify.champion
  <1>1. /\ Len(frames') = Len(frames) - 1 /\ Len(frames) # 1
        /\ \A i \in 1..Len(frames') : i \in 1..Len(frames) /\ frames'[i] = frames[i]
    BY TopPopped
  <1>2. Len(frames) \in Nat \ {0}
    BY TopType
  <1>3. Len(frames) > 1 /\ frames'[1] = frames[1]
    BY <1>1, <1>2
  <1>4. /\ Usable(c0) => c0.code = frames[1].given.code
        /\ \A i \in 1..Len(frames) :
             /\ Keeps(frames[i].given.verify.champion, c0)
             /\ frames[i].best # None =>
                  /\ frames[i].best.verify.res.valid
                  /\ Keeps(frames[i].best.verify.champion, c0)
    BY DEF BankInv
  <1>5. Keeps(verify'.champion, c0)
    BY <1>3
  <1> HIDE DEF c0
  <1>6. \A i \in 1..Len(frames') :
          /\ Keeps(frames'[i].given.verify.champion, c0)
          /\ frames'[i].best # None =>
               /\ frames'[i].best.verify.res.valid
               /\ Keeps(frames'[i].best.verify.champion, c0)
    BY <1>1, <1>4
  <1> QED  BY <1>3, <1>4, <1>5, <1>6 DEF BankInv, c0

LEMMA BankSettle ==
    ASSUME TypeInv, BankInv, Settle
    PROVE  BankInv'
  <1>1. frames # <<>> /\ frames' = SubSeq(frames, 1, Len(frames) - 1)
    BY DEF Settle, TypeInv, PhaseInv
  <1>2. Len(frames) > 1 => verify' \in {Shipped.verify, Top.given.verify}
    BY DEF Settle
  <1>3. Keeps(Top.given.verify.champion, frames[1].given.verify.champion)
    <2>1. Len(frames) \in 1..Len(frames)
      BY <1>1, TopType
    <2> QED  BY <1>1, <2>1 DEF BankInv, Top
  <1> QED  BY <1>1, <1>2, <1>3, ShippedKeeps, BankPopped

LEMMA BankThrow ==
    ASSUME TypeInv, BankInv, Throw
    PROVE  BankInv'
  <1>1. CASE frames = <<>>
    BY <1>1 DEF Throw, BankInv
  <1>2. CASE frames # <<>>
    <2>1. /\ verify' = Top.given.verify
          /\ frames' = SubSeq(frames, 1, Len(frames) - 1)
      BY <1>2 DEF Throw
    <2>2. Len(frames) \in 1..Len(frames)
      BY <1>2, TopType
    <2>3. Keeps(Top.given.verify.champion, frames[1].given.verify.champion)
      BY <1>2, <2>2 DEF BankInv, Top
    <2> QED  BY <1>2, <2>1, <2>3, BankPopped
  <1> QED  BY <1>1, <1>2

LEMMA BankStep == TypeInv /\ BankInv /\ [Next]_vars => BankInv'
  <1> SUFFICES ASSUME TypeInv, BankInv, [Next]_vars PROVE BankInv'
    OBVIOUS
  <1>1. CASE LintStage \/ Measure \/ Repair \/ Adopt
    <2>1. frames = <<>> /\ frames' = frames
      BY <1>1 DEF LintStage, Measure, Repair, Adopt, TypeInv, PhaseInv
    <2> QED  BY <2>1 DEF BankInv
  <1>2. CASE Ship
    BY <1>2, BankShip
  <1>3. CASE EntryLost \/ RtlEntry \/ TestEntry \/ LintEntry \/ VerifyEntry
    BY <1>3, BankEntries
  <1>4. CASE JudgeEntry
    <2>1. loop = None
      <3> SUFFICES ASSUME loop # None PROVE FALSE
        OBVIOUS
      <3>1. todo \in Seq(Stages \ {"judge"}) /\ todo # <<>>
        BY <1>4 DEF JudgeEntry, TypeInv, PhaseInv
      <3>2. Head(todo) \in Stages \ {"judge"}
        BY ONLY <3>1, HeadTailProperties
      <3> QED  BY <1>4, <3>2 DEF JudgeEntry
    <2> QED  BY <1>4, <2>1, BankJudgeEntry
  <1>5. CASE Grade \/ Triage \/ Walked
    BY <1>5, BankJudge
  <1>6. CASE Settle
    BY <1>6, BankSettle
  <1>7. CASE Throw
    BY <1>7, BankThrow
  <1>8. CASE UNCHANGED vars
    BY <1>8 DEF vars, held, BankInv
  <1> QED  BY <1>1, <1>2, <1>3, <1>4, <1>5, <1>6, <1>7, <1>8 DEF Next

LEMMA SettleKeeps ==
    ASSUME TypeInv, SoundInv, BankInv, Settle, mode = "strict", Len(frames) = 1,
           verify.res.valid, Usable(Top.given.verify.champion)
    PROVE  /\ sim[code'] # None
           /\ sim[code'].pass >= Top.given.verify.champion.res.pass
  <1> DEFINE c0 == Top.given.verify.champion
  <1>1. /\ frames # <<>> /\ Top = frames[1]
        /\ c0.code = Top.given.code /\ c0 \in Champion
        /\ BestKnown \in State /\ BestKnown.verify.res.valid
        /\ Keeps(BestKnown.verify.champion, c0)
    <2>1. frames # <<>> /\ Top = frames[1]
      BY DEF Settle, TypeInv, PhaseInv, Top
    <2>2. c0 \in Champion \cup {None}
      BY <2>1, GivenChampion
    <2>3. c0 # None
      BY DEF Usable
    <2> QED  BY <2>1, <2>2, <2>3, ShippedType, ShippedKeeps DEF BankInv
  <1>2. code' \in {Shipped.code, Top.given.code}
    BY DEF Settle
  <1>3. CASE code' = Top.given.code
    <2>1. Says(mode, sim, c0.code, c0.res)
      BY <1>1, HeldSound DEF StateSound, SlotSound, ChampionSound, Usable
    <2>2. c0.res.pass \in Nat
      BY <1>1 DEF Champion, Outcome
    <2> QED  BY <1>1, <1>3, <2>1, <2>2 DEF Says
  <1>4. CASE code' = Shipped.code
    <2> DEFINE c == BestKnown.verify.champion
    <2>1. Usable(c) /\ c.res.pass >= c0.res.pass
      BY <1>1 DEF Keeps
    <2>2. Says(mode, sim, c.code, c.res)
      BY <1>1, <2>1, ShippedSound DEF StateSound, SlotSound, ChampionSound, Usable
    <2>3. Shipped.code = c.code
      <3>1. CASE championRestoreOf(BestKnown) = None
        <4>1. c # None /\ Compiles(c.res)
          BY <2>1 DEF Usable
        <4>2. championRestoreOf(BestKnown) = None => c.code = BestKnown.code
          BY <1>1, <4>1 DEF championRestoreOf
        <4> QED  BY <3>1, <4>2 DEF Shipped
      <3>2. CASE championRestoreOf(BestKnown) # None
        BY <3>2 DEF Shipped, ChampionState
      <3> QED  BY <3>1, <3>2
    <2> QED  BY <1>4, <2>1, <2>2, <2>3 DEF Says
  <1> QED  BY <1>2, <1>3, <1>4

\* With a strict backend and at most three iterations the judge never ships
\* fewer passing tests than the champion verify left it, nor code nobody
\* measured, if its evidence holds to the end.
THEOREM NeverFewer ==
    ASSUME MaxVerifyIters <= 3
    PROVE  Spec => NeverFewerThanGiven
  <1>1. Init => BankInv
    BY DEF Init, BankInv
  <1>2. TypeInv /\ BankInv /\ [Next]_vars => BankInv'
    BY BankStep
  <1>3. TypeInv /\ SoundInv /\ BankInv /\ [Next]_vars =>
          [(/\ mode = "strict"
            /\ pc = "settle" /\ Len(frames) = 1
            /\ verify.res.valid
            /\ Usable(Top.given.verify.champion)) =>
              /\ sim[code'] # None
              /\ sim[code'].pass >= Top.given.verify.champion.res.pass]_vars
    <2> SUFFICES ASSUME TypeInv, SoundInv, BankInv, Next, mode = "strict",
                        pc = "settle", Len(frames) = 1, verify.res.valid,
                        Usable(Top.given.verify.champion)
                 PROVE  /\ sim[code'] # None
                        /\ sim[code'].pass >= Top.given.verify.champion.res.pass
      OBVIOUS
    <2>1. Settle
      BY DEF Next, LintStage, Measure, Repair, Adopt, Ship, EntryLost, RtlEntry,
             TestEntry, LintEntry, VerifyEntry, Enters, JudgeEntry, Grade,
             Triage, Walked, Throw
    <2> QED  BY <2>1, SettleKeeps
  <1> QED  BY <1>1, <1>2, <1>3, Honesty, PTL DEF Spec, NeverFewerThanGiven
=============================================================================
