--------------------------- MODULE MCFormalVerify ---------------------------
(* FormalRunner on every order of a job's events, and FormalVerify on every  *)
(* sequence of jobs and repairs.                                             *)
EXTENDS Naturals
LOCAL INSTANCE Sequences
LOCAL INSTANCE SequencesExt
LOCAL INSTANCE FormalRunner
LOCAL INSTANCE FormalVerify

Modes == {"bmc", "prove"}

\* Events of a job: its start, the exit of the solver, a stop, the two timers,
\* the error and the end of the child.
MaxEvents == 7

\* The states of a job after so many events, in whatever order.
JobsAfter(n, mode) ==
    LET Grow(jobs, i) == jobs \cup UNION {Due(j, mode) \cup Possible(j) : j \in jobs}
    IN  FoldLeft(Grow, {SpawnedJob("alive"), SpawnedJob("unborn")},
                 [i \in 1 .. n |-> i])

JobStates == [mode \in Modes |-> JobsAfter(MaxEvents, mode)]

ASSUME EventsSuffice ==
    \A mode \in Modes : JobsAfter(MaxEvents - 1, mode) = JobStates[mode]

\* What holds of every job, in each order of its events.
ASSUME EveryJobResolves ==
    \A mode \in Modes : \A j \in JobStates[mode] :
        LeavesNothing(j) /\ HasAnEventToCome(j, mode) /\ PassIsEvidence(j, mode)

\* The signals of the parent are listened to exactly while a job is active.
ASSUME HooksFollowJobs ==
    LET Grow(cs, i) == cs \cup {registerParentCancellation(c, j) : c \in cs, j \in 1 .. 3}
                          \cup {unregister(c, j) : c \in cs, j \in 1 .. 3}
    IN  \A c \in FoldLeft(Grow, {NoCancellation}, [i \in 1 .. 6 |-> i]) :
            c.installed <=> c.active # {}

-----------------------------------------------------------------------------
MaxFixIters == 2

\* What runBmc answers, by mode.
Answers == [mode \in Modes |-> {j.settled : j \in JobStates[mode]} \ {"none"}]

\* A solver does not pass what it refuted before: its verdicts are of the text.
Coherent(st) ==
    IF st.rtl \in st.refuted THEN Answers["bmc"] \ {"PASS"} ELSE Answers["bmc"]

\* The runs of the stage after so many turns, with what they entered with.
RunsAfter(n) ==
    LET Grow(sts, i) == sts \cup UNION {{Turn(st, a, r, MaxFixIters) :
                            a \in Coherent(st), r \in Repair} : st \in sts}
    IN  FoldLeft(Grow, {Entered(met) : met \in {Preconditions} \cup
                            {Preconditions \ {p} : p \in Preconditions}},
                 [i \in 1 .. n |-> i])

\* Those that ended, with the proof's attempt, made or not.
Ended ==
    {Proved(st, a, on) : st \in {s \in RunsAfter(MaxFixIters + 1) : s.end # "none"},
                         a \in Answers["prove"], on \in BOOLEAN}

\* What holds of every run that ended, and that no run goes on.
ASSUME EveryRunEnds ==
    /\ RunsAfter(MaxFixIters + 1) = RunsAfter(MaxFixIters + 2)
    /\ \A st \in Ended :
         SkipIsFree(st) /\ RunIsBounded(st, MaxFixIters) /\ ForwardedHolds(st)

\* A refuted design may ship with a status other than FAIL: a job that times out
\* after a misused or an adopted repair overwrites the verdict on the text that
\* stays.  The fixers of later stages, which ask formalEvidenceOf, are not told.
ASSUME RefutedShipsUnsaid ==
    \E st \in Ended : /\ st.end = "done"
                      /\ Shipped(st) \in st.refuted
                      /\ st.status = "TIMEOUT"

\* And the property quoted as violated may be that of a candidate no slot keeps.
ASSUME EvidenceOfDiscarded ==
    \E st \in Ended : st.end = "done" /\ st.status = "FAIL" /\ st.violated # Shipped(st)
=============================================================================
