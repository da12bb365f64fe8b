------------------------------ MODULE RepairRun ------------------------------
(* One run of the lint, verify and judge stages on a module and the repairs   *)
(* between them: verify measures the pair of RTL and testbench it holds and   *)
(* repairs it by walking a chain of stages back to itself; judge grades what  *)
(* verify shipped and, while the gate fails, walks a chain that ends with a   *)
(* judge of its own.  A stage invoked by a walk measures once (the default    *)
(* nestedLintIters and nestedVerifyIters).  Both loops remember the best they *)
(* held, verify banks the champion, judge restores it before it ships.        *)
(*                                                                            *)
(* Simulator and linter answer the same of the same code; what they answer    *)
(* is discovered by running them.  A model's estimate answers anything.       *)
EXTENDS Measurement, Sequences

CONSTANTS
    Modes,          \* strict (backend, strictCli), lenient (backend), none
    MaxVerifyIters, \* config.maxVerifyIters
    MaxJudgeIters,  \* config.maxJudgeIters
    MaxWalks        \* bound: reflow walks of a run

ASSUME ModesKnown == Modes \subseteq {"strict", "lenient", "none"}
ASSUME ItersPositive ==
    MaxVerifyIters \in Nat \ {0} /\ MaxJudgeIters \in Nat \ {0}
ASSUME MaxWalksIsNat == MaxWalks \in Nat

VARIABLES
    mode,       \* whether a backend simulates and lints
    sim,        \* what the simulator says of each pair, once it was run
    clean,      \* what the linter says of each RTL
    pc,         \* lint, measure, repair, ship, grade, triage, walk, settle,
                \* done, failed
    code,       \* the RTL and the testbench held
    verify,     \* the verify slot held: st.verify, or the walk's
    lint,       \* the lint slot held
    loop,       \* verify's loop while it runs, else None
    frames,     \* the judges running: the last was invoked by a walk of the
                \* one before it
    todo,       \* the entries left in the current walk
    spent,      \* the run budget is exhausted
    walks,      \* walks begun
    verdict     \* judge.overall of the stage, or "none"

world == <<mode, sim, clean>>
held == <<code, verify, lint>>
vars == <<world, pc, held, loop, frames, todo, spent, walks, verdict>>

-----------------------------------------------------------------------------
(* Types. *)

Stages == {"rtl_generate", "lint", "test_generate", "verify", "judge"}
Decisions == {"initial", "compile", "regression", "kept"}

State == [code: Pair, verify: VerifySlot, lint: LintSlot]

Measured == [code: Pair, res: Outcome, cli: BOOLEAN]

\* given: the code and the lint slot the stage was given; data: the numbers of
\* the iteration; held: the code before its walk; tried: the candidates of the
\* churn tracker.
Loop == [iter: Nat, given: [code: Pair, lint: LintSlot],
         data: [res: Outcome, cli: BOOLEAN], best: Measured \cup {None},
         sig: (Nat \X Nat \X Decisions) \cup {None}, idle: Nat,
         held: Pair, target: Stages, tried: SUBSET Pair]

\* before: the code at the start of its walk; halted: the budget stopped it.
Frame == [iter: Nat, given: State, best: State \cup {None},
          sig: (Int \X SUBSET Criteria) \cup {None}, idle: Nat,
          before: Pair, halted: BOOLEAN]

Top == frames[Len(frames)]
Held == [code |-> code, verify |-> verify, lint |-> lint]

\* The budget may run out at any time, and stays so.
TimePasses == spent' \in {spent, TRUE}

\* A stage that changed the RTL may have its result rejected: the replacement
\* guard compares the two under the frozen checker.
Verdicts(rtl, given) == IF rtl = given THEN {TRUE} ELSE BOOLEAN

-----------------------------------------------------------------------------
(* Measurements. *)

\* Running the code held gives o; cli tells a simulator from an estimate.
Simulates(o, cli) ==
    \/ /\ cli /\ mode # "none"
       /\ o \in Outcomes
       /\ sim[code] \in {None, o}
       /\ sim' = [sim EXCEPT ![code] = o]
    \/ /\ ~cli /\ mode # "strict"
       /\ o \in Estimates
       /\ UNCHANGED sim

LintAnswers(rtl) ==
    IF mode = "strict"
    THEN {[of |-> rtl, findings |-> IF clean[rtl] THEN "none" ELSE "some"]}
    ELSE [of: {rtl}, findings: {"none", "some"}]

\* What a measurement leaves: the pair enters the contest for champion with the
\* lint slot held, if that was taken on its RTL.
VerifySlotOf(c, res, cli, champion) ==
    [res |-> res, cli |-> cli, of |-> c,
     champion |-> Banked([code |-> c, res |-> res, lint |-> FreshOrNone(lint, c)],
                         champion)]

\* A loop's last lint result comes with the code it ships only if it was taken
\* on that code.
Carried(l, c, given) == IF FreshLint(l, c) THEN l ELSE given

-----------------------------------------------------------------------------
(* The lint stage, whose repaired RTL may be rejected, and verify's loop.     *)

Init ==
    /\ mode \in Modes
    /\ sim = [p \in Pair |-> None]
    /\ clean \in [Rtl -> BOOLEAN]
    /\ pc = "lint"
    /\ code \in Pair
    /\ verify = None
    /\ lint = [of |-> code.rtl, findings |-> "unknown"]
    /\ loop = None
    /\ frames = <<>>
    /\ todo = <<>>
    /\ spent = FALSE
    /\ walks = 0
    /\ verdict = "none"

NewLoop(given) ==
    [iter |-> 1, given |-> given,
     data |-> [res |-> Unverified(given.code).res, cli |-> FALSE],
     best |-> None, sig |-> None, idle |-> 0, held |-> given.code,
     target |-> "verify", tried |-> {}]

LintStage ==
    /\ pc = "lint"
    /\ \E rtl \in Rtl : \E accepted \in Verdicts(rtl, code.rtl) :
         IF accepted
         THEN code' = [code EXCEPT !.rtl = rtl] /\ lint' \in LintAnswers(rtl)
         ELSE UNCHANGED <<code, lint>>
    /\ loop' = NewLoop([code |-> code', lint |-> lint'])
    /\ pc' = "measure"
    /\ TimePasses
    /\ UNCHANGED <<world, verify, frames, todo, walks, verdict>>

\* The decision on an iteration's outcome: a pair that does not compile is
\* rejected, any other may break what passed at the first iteration.
DecisionsOn(o) ==
    IF loop.iter = 1 THEN {"initial"}
    ELSE IF ~Compiles(o) THEN {"compile"} ELSE {"regression", "kept"}

Rejected(decision) == decision \in {"compile", "regression"}

\* What follows a measurement: track the best, stop when green or braked, and
\* otherwise go on to repair, from the best when the candidate is rejected.
Decided(now, decision, repeats) ==
    LET best == IF loop.best = None \/ shouldRestoreBest(now.res, loop.best.res)
                THEN now ELSE loop.best
        sig == <<now.res.pass, now.res.fail, decision>>
        \* Two decisions that keep the candidate may differ in kind.
        same == sig = loop.sig /\ (decision = "kept" => repeats)
        idle == IF same THEN loop.idle + 1 ELSE 0
        stop == \/ Green(now.res) \/ loop.iter >= MaxVerifyIters \/ idle >= 2
                \/ spent'
        from == IF Rejected(decision) /\ ~stop THEN best ELSE now
    IN  /\ loop' = [loop EXCEPT !.best = best, !.sig = sig, !.idle = idle,
                       !.data = [res |-> from.res, cli |-> from.cli]]
        /\ code' = from.code
        /\ pc' = IF stop THEN "ship" ELSE "repair"

\* One iteration's measurement, and what the loop decides on it.
Measure ==
    /\ pc = "measure"
    /\ TimePasses
    /\ \E o \in Outcomes \cup Estimates, cli \in BOOLEAN :
         /\ Simulates(o, cli)
         /\ \E decision \in DecisionsOn(o), repeats \in BOOLEAN :
              Decided([code |-> code, res |-> o, cli |-> cli], decision, repeats)
    /\ UNCHANGED <<mode, clean, verify, lint, frames, todo, walks, verdict>>

LintPassing(l) == FreshLint(l, code) /\ l.findings = "none"

\* The chain back to verify from the side the triage blames; a chain that only
\* regenerates the testbench lints the RTL first if that does not pass.
Repair ==
    /\ pc = "repair"
    /\ walks < MaxWalks
    /\ \E target \in {"rtl_generate", "test_generate"} :
         /\ loop' = [loop EXCEPT !.target = target, !.held = code]
         /\ todo' = (IF target = "rtl_generate" THEN <<"rtl_generate", "lint">>
                     ELSE IF LintPassing(loop.given.lint) THEN <<>>
                     ELSE <<"lint">>) \o <<"test_generate", "verify">>
    /\ verify' = None
    /\ lint' = loop.given.lint
    /\ pc' = "walk"
    /\ walks' = walks + 1
    /\ UNCHANGED <<world, code, frames, spent, verdict>>

\* The code taken from a walk: a testbench that lost its infrastructure is not.
Regained(tbLost) == IF tbLost THEN [code EXCEPT !.tb = loop.held.tb] ELSE code

\* The numbers taken from it: those of its last measurement, if it had one.
WalkData ==
    IF verify = None THEN loop.data ELSE [res |-> verify.res, cli |-> verify.cli]

\* Back from its walk: a repair that changed nothing or that was tried before
\* is a strike, and the second ends the loop.
Struck(after, near) ==
    LET noOp == \/ after = loop.held
                \/ loop.target # "rtl_generate" /\ after.tb = loop.held.tb
        strike == noOp \/ after \in loop.tried \/ near
        idle == IF strike THEN loop.idle + 1 ELSE loop.idle
    IN  /\ loop' = [loop EXCEPT
                       !.idle = idle,
                       !.iter = IF idle >= 2 THEN @ ELSE @ + 1,
                       !.tried = IF strike THEN @ ELSE @ \cup {after},
                       !.data = WalkData]
        /\ pc' = IF idle >= 2 THEN "ship" ELSE "measure"

Adopt ==
    /\ pc = "walk" /\ todo = <<>> /\ loop # None
    /\ \E tbLost, near \in BOOLEAN :
         /\ tbLost => code.tb # loop.held.tb
         /\ near => loop.tried # {}
         /\ code' = Regained(tbLost)
         /\ Struck(Regained(tbLost), near)
    /\ UNCHANGED <<world, verify, lint, frames, todo, spent, walks, verdict>>

NewFrame(given) ==
    [iter |-> 1, given |-> given, best |-> None, sig |-> None, idle |-> 0,
     before |-> given.code, halted |-> FALSE]

\* The loop's result: the best pair if the last is worse, banked as champion
\* with the lint taken on its RTL.  A rejected repair leaves the given code.
Ship ==
    /\ pc = "ship"
    /\ LET final == IF shouldRestoreBest(loop.best.res, loop.data.res)
                    THEN loop.best
                    ELSE [code |-> code, res |-> loop.data.res,
                          cli |-> loop.data.cli]
       IN  \E accepted \in Verdicts(final.code.rtl, loop.given.code.rtl) :
             IF accepted
             THEN /\ code' = final.code
                  /\ verify' = VerifySlotOf(final.code, final.res, final.cli,
                                            None)
                  /\ lint' = Carried(lint, final.code, loop.given.lint)
             ELSE /\ code' = loop.given.code
                  /\ verify' = Unverified(loop.given.code)
                  /\ lint' = loop.given.lint
    /\ loop' = None
    /\ frames' = <<NewFrame(Held')>>
    /\ pc' = "grade"
    /\ TimePasses
    /\ UNCHANGED <<world, todo, walks, verdict>>

-----------------------------------------------------------------------------
(* The walk of a chain.                                                       *)

\* Entering an entry while the budget is spent stops the judge that owns the
\* walk once it is over.
Enters(stage) ==
    /\ pc = "walk" /\ todo # <<>> /\ Head(todo) = stage
    /\ TimePasses
    /\ frames' = IF loop = None /\ spent'
                 THEN [frames EXCEPT ![Len(frames)].halted = TRUE] ELSE frames

\* Without a backend a measurement costs calls of its own.
Affordable(stage) ==
    ~spent' \/ (stage \in {"lint", "verify"} /\ mode # "none")

\* An entry the budget leaves out, or that fails: the walk goes on without it.
EntryLost ==
    /\ \E stage \in Stages : Enters(stage)
    /\ todo' = Tail(todo)
    /\ UNCHANGED <<world, pc, held, loop, walks, verdict>>

\* A new RTL; when it is rejected the walk goes no further.
RtlEntry ==
    /\ Enters("rtl_generate") /\ Affordable("rtl_generate")
    /\ \E rtl \in Rtl : \E accepted \in Verdicts(rtl, code.rtl) :
         /\ code' = IF accepted THEN [code EXCEPT !.rtl = rtl] ELSE code
         /\ todo' = IF accepted THEN Tail(todo) ELSE <<>>
    /\ UNCHANGED <<world, pc, verify, lint, loop, walks, verdict>>

TestEntry ==
    /\ Enters("test_generate") /\ Affordable("test_generate")
    /\ \E tb \in Tb : code' = [code EXCEPT !.tb = tb]
    /\ todo' = Tail(todo)
    /\ UNCHANGED <<world, pc, verify, lint, loop, walks, verdict>>

LintEntry ==
    /\ Enters("lint") /\ Affordable("lint")
    /\ lint' \in LintAnswers(code.rtl)
    /\ todo' = Tail(todo)
    /\ UNCHANGED <<world, pc, code, verify, loop, walks, verdict>>

\* One measurement; the champion is carried from the slot it replaces.
VerifyEntry ==
    /\ Enters("verify") /\ Affordable("verify")
    /\ \E o \in Outcomes \cup Estimates, cli \in BOOLEAN :
         /\ Simulates(o, cli)
         /\ verify' = VerifySlotOf(code, o, cli,
                          IF verify = None THEN None ELSE verify.champion)
    /\ todo' = Tail(todo)
    /\ UNCHANGED <<mode, clean, pc, code, lint, loop, walks, verdict>>

\* The judge at the end of a judge's chain is one more judge.
JudgeEntry ==
    /\ pc = "walk" /\ todo # <<>> /\ Head(todo) = "judge"
    /\ UNCHANGED spent /\ ~spent
    /\ frames' = Append(frames, NewFrame(Held))
    /\ todo' = Tail(todo)
    /\ pc' = "grade"
    /\ UNCHANGED <<world, held, loop, walks, verdict>>

-----------------------------------------------------------------------------
(* The judge.                                                                 *)

\* Grade the state: track the best, and stop when it passes, when its evidence
\* is none, or when a brake says so.
Grade ==
    /\ pc = "grade"
    /\ TimePasses
    /\ IF ~verify.res.valid
       THEN pc' = "settle" /\ UNCHANGED frames
       ELSE LET best == IF Top.best = None \/ betterJudgeState(Held, Top.best)
                        THEN Held ELSE Top.best
                sig == <<GateScore(Held), FailingIds(Held)>>
                idle == IF sig = Top.sig THEN Top.idle + 1 ELSE 0
                stop == GatePass(Held) \/ Top.iter >= MaxJudgeIters \/ idle >= 2
            IN  /\ frames' = [frames EXCEPT ![Len(frames)] =
                                [@ EXCEPT !.best = best, !.sig = sig,
                                          !.idle = idle,
                                          !.halted = spent' /\ ~stop]]
                /\ pc' = IF stop \/ spent' THEN "settle" ELSE "triage"
    /\ UNCHANGED <<world, held, loop, todo, walks, verdict>>

Chain(target) ==
    (IF target = "rtl_generate" THEN <<"rtl_generate", "lint">>
     ELSE IF target = "lint" THEN <<"lint">> ELSE <<>>)
    \o (IF target = "verify" THEN <<>> ELSE <<"test_generate">>)
    \o <<"verify", "judge">>

Triage ==
    /\ pc = "triage"
    /\ walks < MaxWalks
    /\ \E target \in triageTargetsFor(Held) : todo' = Chain(target)
    /\ frames' = [frames EXCEPT ![Len(frames)].before = code]
    /\ pc' = "walk"
    /\ walks' = walks + 1
    /\ UNCHANGED <<world, held, loop, spent, verdict>>

\* Back from a walk: without evidence, over budget or without a change there
\* is nothing left to grade.
Walked ==
    /\ pc = "walk" /\ todo = <<>> /\ loop = None
    /\ IF ~verify.res.valid \/ Top.halted \/ code = Top.before
       THEN pc' = "settle" /\ UNCHANGED frames
       ELSE pc' = "grade" /\ frames' = [frames EXCEPT ![Len(frames)].iter = @ + 1]
    /\ UNCHANGED <<world, held, loop, todo, spent, walks, verdict>>

\* The state to ship: the best graded if the last is worse, then its champion.
BestKnown ==
    IF /\ verify.res.valid
       /\ Top.best # None
       /\ betterJudgeState(Top.best, Held)
    THEN Top.best ELSE Held

Shipped ==
    IF championRestoreOf(BestKnown) = None THEN BestKnown
    ELSE ChampionState(BestKnown)

\* Mutant of Verdict: an estimate counts like a simulation.
VerdictOfEstimates(s) ==
    IF ~s.verify.res.valid THEN "UNVERIFIED"
    ELSE IF ~GatePass(s) THEN "FAIL"
    ELSE IF ~Top.halted THEN "PASS" ELSE "UNVERIFIED"

Verdict(s) ==
    IF ~s.verify.res.valid THEN "UNVERIFIED"
    ELSE IF ~GatePass(s) THEN "FAIL"
    ELSE IF s.verify.cli /\ ~Top.halted THEN "PASS" ELSE "UNVERIFIED"

\* The judge ends: an invoked one returns its state to the walk that invoked
\* it; the stage's replaces the verify slot, except a simulator's by an
\* estimate.  A rejected repair leaves the given state.
Settle ==
    /\ pc = "settle"
    /\ \E accepted \in Verdicts(Shipped.code.rtl, Top.given.code.rtl) :
         LET s == IF accepted THEN Shipped ELSE Top.given
             last == Len(frames) = 1
         IN  /\ code' = s.code
             /\ verify' = IF last /\ Top.given.verify.cli /\ ~s.verify.cli
                          THEN Top.given.verify ELSE s.verify
             /\ lint' = Carried(s.lint, s.code, Top.given.lint)
             /\ pc' = IF last THEN "done" ELSE "walk"
             /\ verdict' = IF ~last THEN verdict
                           ELSE IF accepted THEN Verdict(s) ELSE "UNVERIFIED"
    /\ frames' = SubSeq(frames, 1, Len(frames) - 1)
    /\ UNCHANGED <<world, loop, todo, spent, walks>>

\* The stage throws.  An invoked judge takes its work with it, a stage of the
\* run leaves the slots it was given.
Throw ==
    /\ pc \in {"lint", "measure", "repair", "triage"}
    /\ LET given == IF frames # <<>> THEN Top.given
                    ELSE IF loop = None THEN Held
                    ELSE [code |-> loop.given.code, verify |-> None,
                          lint |-> loop.given.lint]
       IN  /\ code' = given.code
           /\ lint' = given.lint
           /\ verify' = given.verify
    /\ pc' = IF Len(frames) > 1 THEN "walk" ELSE "failed"
    /\ frames' = IF frames = <<>> THEN frames ELSE SubSeq(frames, 1, Len(frames) - 1)
    /\ loop' = None
    /\ UNCHANGED <<world, todo, spent, walks, verdict>>

Next ==
    \/ LintStage \/ Measure \/ Repair \/ Adopt \/ Ship
    \/ EntryLost \/ RtlEntry \/ TestEntry \/ LintEntry \/ VerifyEntry
    \/ JudgeEntry
    \/ Grade \/ Triage \/ Walked \/ Settle
    \/ Throw

Spec == Init /\ [][Next]_vars

-----------------------------------------------------------------------------
(* Properties. *)

TypeOK ==
    /\ mode \in Modes
    /\ sim \in [Pair -> Outcome \cup {None}]
    /\ clean \in [Rtl -> BOOLEAN]
    /\ pc \in {"lint", "measure", "repair", "ship", "grade", "triage", "walk",
              "settle", "done", "failed"}
    /\ code \in Pair
    /\ verify \in VerifySlot \cup {None}
    /\ lint \in LintSlot
    /\ loop \in Loop \cup {None}
    /\ frames \in Seq(Frame)
    /\ todo \in Seq(Stages)
    /\ spent \in BOOLEAN
    /\ walks \in Nat
    /\ verdict \in {"none", "PASS", "FAIL", "UNVERIFIED"}

\* What the simulator said of a pair and what the linter says of an RTL; a
\* restored champion keeps the validity of the slot it is restored into.
Told(c, o) == sim[c] # None /\ o = [sim[c] EXCEPT !.valid = o.valid]
LintTold(l) == l.findings = (IF clean[l.of] THEN "none" ELSE "some")

\* With a strict backend the numbers of a slot, of the champion it carries and
\* of the lint slots are what the tools said of the code they are stamped with,
\* whatever was regenerated, rejected or restored meanwhile: runStage and
\* reflowRunner stamp what a stage returns, and the gate trusts the stamp.
SlotsAreHonest ==
    mode = "strict" =>
        /\ lint.findings # "unknown" => LintTold(lint)
        /\ verify # None =>
             /\ verify.cli => Told(verify.of, verify.res)
             /\ verify.champion # None =>
                  LET champ == verify.champion
                  IN  /\ Told(champ.code, champ.res)
                      /\ champ.lint # None /\ champ.lint.findings # "unknown"
                            => LintTold(champ.lint)

\* PASS is earned: with a strict backend the simulator ran the pair shipped and
\* every test passed, through every restore and every stop (the provenance gate
\* of judge.js); without a backend nothing passes.
PassIsEarned ==
    verdict = "PASS" =>
        /\ mode # "none"
        /\ mode = "strict" => sim[code] # None /\ Green(sim[code])

\* The RTL of a PASS has no lint finding.
PassMeansLintClean == mode = "strict" /\ verdict = "PASS" => clean[code.rtl]

\* One outcome is worse than another: it does not compile and the other does,
\* it is further from compiling, or it fails more than it passes.
Worse(a, b) ==
    \/ Compiles(b) /\ (~Compiles(a) \/ Score(a) < Score(b))
    \/ ~Compiles(b) /\ ~Compiles(a) /\ a.blocking > b.blocking

\* Verify never ships a worse pair than the one it was given, nor than the
\* best one it measured: rejected candidates, strikes and the end of the budget
\* leave the best-known pair.
VerifyNeverWorsens ==
    [][mode = "strict" /\ pc = "ship" /\ verify'.cli =>
        /\ ~Worse(sim[code'], sim[loop.given.code])
        /\ ~Worse(sim[code'], sim[loop.best.code])]_vars

\* The judge never ships fewer passing tests than the champion verify left it,
\* nor code nobody measured, if its evidence holds to the end: best-known and
\* champion restores, rejected walks and invoked judges between them.
NeverFewerThanGiven ==
    [][(/\ mode = "strict"
        /\ pc = "settle" /\ Len(frames) = 1
        /\ verify.res.valid
        /\ Usable(Top.given.verify.champion)) =>
        /\ sim[code'] # None
        /\ sim[code'].pass >= Top.given.verify.champion.res.pass]_vars
=============================================================================
