---------------------------- MODULE FormalRunner ----------------------------
(* A solver job: runBmc of src/cli/formalRunner.js.  sby is spawned as the    *)
(* leader of a process group; a timeout, an abort or a signal to the parent   *)
(* asks the group to stop and kills it a second later; the job resolves once. *)
(* Each event of Node's loop is an operator from job to job.                  *)
EXTENDS Naturals, Sequences

Marker == {"PASS", "FAIL", "TIMEOUT", "UNKNOWN"}

\* What sby leaves behind: its DONE markers, and whether it exits with 0.
SbyOutput == [done: UNION {[1 .. n -> Marker] : n \in 0 .. 2}, zero: BOOLEAN]

\* One marker decides; only an exit code of 0 makes a PASS, only a prove task
\* has an UNKNOWN.
parseSbyOutput(out, mode) ==
    CASE out.done \in {<<"FAIL">>, <<"TIMEOUT">>} -> out.done[1]
      [] out.done = <<"PASS">> /\ out.zero -> "PASS"
      [] out.done = <<"UNKNOWN">> /\ mode = "prove" -> "UNKNOWN"
      [] OTHER -> "TOOL_ERROR"

\* group: the process group is alive, gone or unborn (it could not be started).
\* stop, closed, hard, settled: stopRequested, childClosed, hardKilled and the
\* status resolved with; killTimer, hardTimer: armed; heard: the abort listener
\* is attached and the job is in activeCancellation.
SpawnedJob(group) ==
    [group |-> group, out |-> [done |-> <<>>, zero |-> FALSE], errored |-> FALSE,
     stop |-> FALSE, closed |-> FALSE, hard |-> FALSE, settled |-> "none",
     killTimer |-> TRUE, hardTimer |-> FALSE, heard |-> TRUE]

finish(j, status) ==
    IF j.settled # "none" THEN j
    ELSE [j EXCEPT !.settled = status, !.killTimer = FALSE, !.hardTimer = FALSE,
                   !.heard = FALSE]

\* A stopped job waits for the end of its child and for the kill of its group.
finishStopped(j) == IF j.closed /\ j.hard THEN finish(j, "TIMEOUT") ELSE j

requestStop(j) ==
    IF j.stop \/ j.settled # "none" THEN j
    ELSE [j EXCEPT !.stop = TRUE, !.killTimer = FALSE, !.hardTimer = TRUE]

OnClose(j, mode) ==
    LET c == [j EXCEPT !.closed = TRUE]
    IN  IF j.stop THEN finishStopped(c) ELSE finish(c, parseSbyOutput(j.out, mode))

\* sby could not be started.
OnError(j) ==
    LET e == [j EXCEPT !.errored = TRUE]
    IN  IF j.stop THEN e ELSE finish(e, "TOOL_ERROR")

OnHardKill(j) ==
    finishStopped([j EXCEPT !.hard = TRUE, !.hardTimer = FALSE,
                            !.group = IF @ = "alive" THEN "gone" ELSE @])

-----------------------------------------------------------------------------
When(condition, j) == IF condition THEN {j} ELSE {}

\* The end of a child is reported when its group is gone, or after the error of
\* one that was never started.
ClosePending(j) ==
    ~j.closed /\ (j.group = "gone" \/ (j.group = "unborn" /\ j.errored))

\* The events that will come of themselves: reports of the child, armed timers.
Due(j, mode) ==
    UNION {When(ClosePending(j), OnClose(j, mode)),
           When(j.group = "unborn" /\ ~j.errored, OnError(j)),
           When(j.killTimer, requestStop(j)),
           When(j.hardTimer, OnHardKill(j))}

\* Those that may: sby exits with some output, on its own or asked to; the user
\* or a signal to the parent stops a job that listens.
Possible(j) ==
    {[j EXCEPT !.group = "gone", !.out = o] :
        o \in {p \in SbyOutput : j.group = "alive"}}
    \cup When(j.heard, requestStop(j))

-----------------------------------------------------------------------------
\* The jobs to cancel on a signal to the parent, which its listeners are
\* installed for while there is one.
NoCancellation == [active |-> {}, installed |-> FALSE]

registerParentCancellation(c, job) ==
    [active |-> c.active \cup {job}, installed |-> TRUE]

unregister(c, job) ==
    [active |-> c.active \ {job},
     installed |-> c.installed /\ c.active \ {job} # {}]
-----------------------------------------------------------------------------
(* Properties of a job.                                                       *)

\* A job that has resolved leaves nothing behind: no timer, no listener and none of
\* the group's processes.
LeavesNothing(j) ==
    j.settled # "none" => ~j.killTimer /\ ~j.hardTimer /\ ~j.heard /\ j.group # "alive"

\* No job waits forever: one that has not resolved has a timer armed or an event of
\* its child to come, whatever the order of a stop, an error and an exit.
HasAnEventToCome(j, mode) ==
    j.settled = "none" => \E k \in Due(j, mode) : k # j

\* "It is diagnostic context, never PASS evidence": a stopped job resolves as a
\* TIMEOUT whatever its solver printed, and a PASS has its one marker and an exit
\* code of 0.
PassIsEvidence(j, mode) ==
    /\ j.stop => j.settled \in {"none", "TIMEOUT"}
    /\ j.settled = "PASS" => j.out = [done |-> <<"PASS">>, zero |-> TRUE]
    /\ j.settled = "UNKNOWN" => mode = "prove"
=============================================================================
