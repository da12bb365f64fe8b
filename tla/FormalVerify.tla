---------------------------- MODULE FormalVerify ----------------------------
(* The formal_verify stage (src/pipeline/nodes/formal_verify.js): bounded     *)
(* model checking of the RTL with its properties, the loop that repairs what  *)
(* a counterexample refutes, and the attempt to prove what passed.  A run is  *)
(* folded over its solver jobs and the repairs that follow the refuting ones. *)
EXTENDS Naturals

\* What a stage needs before it starts a solver: RTL, no pending conflict about
\* the specification, no issue of its sources, properties made for this contract
\* and compiled, some that can be bound and translated, and all of them; a runner
\* and its solver; RTL that compiles with them; properties that their examples
\* qualify.
Preconditions ==
    {"rtl", "noConflict", "sources", "contract", "propsCompiled", "bindable",
     "translatable", "allTranslated", "runner", "sby", "compiles", "qualified"}

\* What becomes of a counterexample: the model fails or returns the same text; its
\* candidate uses clocked functions elsewhere, does not compile, is refused by the
\* acceptance of reviews, or is adopted.
Repair == {"threw", "identical", "misuse", "noCompile", "refused", "adopted"}

\* rtl: how many candidates were adopted before the current text.  refuted: those
\* with a counterexample; violated: the last of them.  fixIterations counts what
\* is adopted and what is misused.
Entered(met) ==
    [end |-> IF met = Preconditions THEN "none" ELSE "skipped",
     iter |-> 0, rtl |-> 0, fixIterations |-> 0, jobs |-> 0, asked |-> 0,
     refuted |-> {}, violated |-> "none", status |-> "none", checked |-> 0,
     proveStatus |-> "none"]

\* A job checks the current text; without a counterexample, or without a repair
\* left, its status is the stage's.
Checked(st, status, maxFixIters) ==
    LET seen == [st EXCEPT !.jobs = @ + 1, !.status = status, !.checked = st.rtl]
        bad == [seen EXCEPT !.refuted = @ \cup {st.rtl}, !.violated = st.rtl]
    IN  IF status # "FAIL" THEN [seen EXCEPT !.end = "done"]
        ELSE IF st.iter >= maxFixIters THEN [bad EXCEPT !.end = "done"]
        ELSE bad

Repaired(st, repair) ==
    LET asked == [st EXCEPT !.asked = @ + 1] IN
    CASE repair = "adopted" ->
            [asked EXCEPT !.rtl = @ + 1, !.iter = @ + 1, !.fixIterations = @ + 1]
      [] repair = "misuse" -> [asked EXCEPT !.iter = @ + 1, !.fixIterations = @ + 1]
      [] repair = "threw" -> [asked EXCEPT !.end = "threw"]
      [] OTHER -> [asked EXCEPT !.end = "done"]

\* One turn: a job, and the repair of what it refutes.
Turn(st, status, repair, maxFixIters) ==
    LET c == Checked(st, status, maxFixIters)
    IN  IF st.end # "none" THEN st
        ELSE IF c.end = "none" THEN Repaired(c, repair) ELSE c

\* The proof is attempted for what passed, unless it is turned off.
Proved(st, status, formalProve) ==
    IF st.end = "done" /\ st.status = "PASS" /\ formalProve
    THEN [st EXCEPT !.proveStatus = status, !.jobs = @ + 1] ELSE st

proven(st) == st.proveStatus = "PASS"

\* The repaired text goes to the RTL slot.
Forwarded(st) == st.end = "done" /\ st.fixIterations > 0 /\ st.status = "PASS"

\* What the next stages have as RTL: the last text, or that of before.
Shipped(st) == IF Forwarded(st) THEN st.rtl ELSE 0

-----------------------------------------------------------------------------
(* Properties of a run of the stage.                                          *)

\* "Every unavailable precondition SKIPs": it starts no solver and asks no model.
SkipIsFree(st) == st.end = "skipped" => st.jobs = 0 /\ st.asked = 0

\* The loop is bounded, also by what is rejected: one repair for each of the
\* iterations, a job more, and the proof's.
RunIsBounded(st, maxFixIters) ==
    st.asked <= maxFixIters /\ st.jobs <= maxFixIters + 2

\* "forward the repaired RTL only when the proof now PASSES": what is forwarded is
\* a repaired text that its last job passed, though fixIterations counts texts that
\* were never adopted; and a proof is of the text that ships.
ForwardedHolds(st) ==
    /\ Forwarded(st) => st.rtl > 0 /\ st.checked = st.rtl /\ st.rtl \notin st.refuted
    /\ st.status = "PASS" => st.checked = Shipped(st)
    /\ proven(st) => st.status = "PASS" /\ Shipped(st) \notin st.refuted
=============================================================================
