---- MODULE BackendExec ----
\* The tool backend at work: clients (src/cli/runCli.js) that post a command
\* bundle, retry it under the same task id and may hang up; the server's execute
\* and abort handlers (backend.js); the command loop that runs the bundle
\* (src/cli/localExecutor.js); and the task registry between them.
\*
\* One step is one event-loop turn of the server: from resolve() of an admission to
\* spawn() of the first command only microtasks run, so nothing comes between.
EXTENDS TaskRegistry

CONSTANT Commands  \* Commands[i]: number of commands in the bundle of call i

ASSUME CommandsArePositive == Commands \in [Id -> Nat \ {0}]

VARIABLES request,  \* the server's handler of each request
          child,    \* the shell a request's kill() would signal
          left,     \* commands of the bundle not started yet
          revoked,  \* the registry aborted this executing task (history)
          hangup,   \* the client dropped the connection, the server has not seen it
          client,   \* the runCli call
          attempt,  \* requests the call has made
          ahead     \* the tasks parked when a request came in (history)

server == <<request, child, left, revoked>>
vars == <<running, queue, server, hangup, client, attempt, ahead>>

RequestState == {"none", "parked", "executing", "answered"}
\* "alive": SIGTERM reaches the shell.  "signalled": it did.  "exited": the shell
\* is gone with code 0 but its close event has not been handled, so SIGTERM is lost.
ChildState == {"none", "alive", "signalled", "exited"}
ClientState == {"idle", "waiting", "backoff", "settled"}

TypeOK ==
  /\ running \in [Id -> Task \union {NoTask}]
  /\ queue \in Seq(Task)
  /\ request \in [Task -> RequestState]
  /\ child \in [Task -> ChildState]
  /\ left \in [Task -> Nat]
  /\ revoked \in [Task -> BOOLEAN]
  /\ hangup \in [Task -> BOOLEAN]
  /\ client \in [Id -> ClientState]
  /\ attempt \in [Id -> 0..Attempts]
  /\ ahead \in [Task -> SUBSET Task]

Init ==
  /\ RegistryInit
  /\ request = [t \in Task |-> "none"]
  /\ child = [t \in Task |-> "none"]
  /\ left = [t \in Task |-> 0]
  /\ revoked = [t \in Task |-> FALSE]
  /\ hangup = [t \in Task |-> FALSE]
  /\ client = [i \in Id |-> "idle"]
  /\ attempt = [i \in Id |-> 0]
  /\ ahead = [t \in Task |-> {}]

----
\* The tasks S are admitted: executeLocal spawns the first command of each.  kill()
\* of the tasks K sends SIGTERM to their current shell, if it is still there.
Serve(S, K) ==
  /\ request' = [t \in Task |-> IF t \in S THEN "executing" ELSE request[t]]
  /\ left' = [t \in Task |-> IF t \in S THEN Commands[t[1]] - 1 ELSE left[t]]
  /\ child' = [t \in Task |-> IF t \in S THEN "alive"
                             ELSE IF t \in K /\ child[t] = "alive" THEN "signalled"
                             ELSE child[t]]
  /\ revoked' = [t \in Task |-> revoked[t] \/ t \in K]

\* Responses to the requests D: the calls that wait for them settle.
Settle(D) ==
  client' = [i \in Id |->
    IF client[i] = "waiting" /\ <<i, attempt[i]>> \in D THEN "settled" ELSE client[i]]

\* The close event of a request is handled once, and not after its response was
\* written (res.writableEnded).
Heard(D) == hangup' = [t \in Task |-> hangup[t] /\ t \notin D]

\* ahead[t]: what was parked when t came, less what has left the queue since.
History ==
  ahead' = [t \in Task |-> IF request[t] = "none" /\ request'[t] # "none"
                           THEN Parked ELSE ahead[t] \intersect Range(queue')]

----
\* runCli: the first request, or a retry after the backoff, with the same task id;
\* the server's execute handler reads it and asks the registry for a slot.
Post(i) ==
  LET t == <<i, attempt[i] + 1>> IN
  /\ client[i] \in {"idle", "backoff"}
  /\ attempt[i] < Attempts
  /\ client' = [client EXCEPT ![i] = "waiting"]
  /\ attempt' = [attempt EXCEPT ![i] = @ + 1]
  /\ \/ /\ AdmitNow(t)
        /\ Serve({t}, {})
     \/ /\ Park(t)
        /\ request' = [request EXCEPT ![t] = "parked"]
        /\ UNCHANGED <<child, left, revoked>>
  /\ UNCHANGED hangup
  /\ History

\* The attempt times out, its connection breaks or the user aborts the call: the
\* connection is dropped.  The call backs off and retries, or settles (the user's
\* abort, the last attempt).
GiveUp(i) ==
  /\ client[i] = "waiting"
  /\ hangup' = [hangup EXCEPT ![<<i, attempt[i]>>] = TRUE]
  /\ \/ /\ attempt[i] < Attempts
        /\ client' = [client EXCEPT ![i] = "backoff"]
     \/ client' = [client EXCEPT ![i] = "settled"]
  /\ UNCHANGED <<running, queue, server, attempt>>
  /\ History

\* The call settles between two requests: the user aborts it, or no further attempt
\* reaches the server.
Cancel(i) ==
  /\ client[i] \in {"idle", "backoff"}
  /\ client' = [client EXCEPT ![i] = "settled"]
  /\ UNCHANGED <<running, queue, server, hangup, attempt>>
  /\ History

\* abort(i) of a running id: its entry's task is killed, the queue drains.
KillEntry(i) ==
  /\ AbortRunning(i)
  /\ Serve(Parked \ Range(queue'), {running[i]})
  /\ UNCHANGED client

\* abort(i) of a parked id: the rejected admission answers "aborted".
DropParked(i, n) ==
  /\ AbortParked(i, n)
  /\ request' = [request EXCEPT ![queue[n]] = "answered"]
  /\ Settle({queue[n]})
  /\ UNCHANGED <<child, left, revoked>>

\* req "close": the hangup of request t is seen while its response is unwritten,
\* and the task registered under its id is aborted, if any is.
SeeHangup(t) ==
  /\ hangup[t]
  /\ \/ KillEntry(t[1]) /\ Heard({t})
     \/ \E n \in DOMAIN queue : DropParked(t[1], n) /\ Heard({t, queue[n]})
     \/ AbortUnknown(t[1]) /\ Heard({t}) /\ UNCHANGED <<server, client>>
  /\ UNCHANGED attempt
  /\ History

\* POST /api/abort with a task id that is registered.
AbortOne(i) ==
  /\ \/ KillEntry(i) /\ UNCHANGED hangup
     \/ \E n \in DOMAIN queue : DropParked(i, n) /\ Heard({queue[n]})
  /\ UNCHANGED attempt
  /\ History

\* POST /api/abort without one: everything, running and parked.
AbortEverything ==
  /\ Occupied(running) # {}
  /\ AbortAll
  /\ request' = [t \in Task |-> IF t \in Parked THEN "answered" ELSE request[t]]
  /\ child' = [t \in Task |-> IF t \in Range(running) /\ child[t] = "alive"
                               THEN "signalled" ELSE child[t]]
  /\ revoked' = [t \in Task |-> revoked[t] \/ t \in Range(running)]
  /\ Settle(Parked)
  /\ Heard(Parked)
  /\ UNCHANGED <<left, attempt>>
  /\ History

\* The shell of the current command ends with code 0; its close event is pending.
Exit(t) ==
  /\ child[t] = "alive"
  /\ child' = [child EXCEPT ![t] = "exited"]
  /\ UNCHANGED <<running, queue, request, left, revoked, hangup, client, attempt>>
  /\ History

\* Mutant of NextCommand: one command too many.
NextCommandOffByOne(t) ==
  /\ child[t] = "exited"
  /\ left[t] >= 0
  /\ child' = [child EXCEPT ![t] = "alive"]
  /\ left' = [left EXCEPT ![t] = @ - 1]
  /\ UNCHANGED <<running, queue, request, revoked, hangup, client, attempt>>
  /\ History

\* close after code 0 with commands left: the loop spawns the next one.
NextCommand(t) ==
  /\ child[t] = "exited"
  /\ left[t] > 0
  /\ child' = [child EXCEPT ![t] = "alive"]
  /\ left' = [left EXCEPT ![t] = @ - 1]
  /\ UNCHANGED <<running, queue, request, revoked, hangup, client, attempt>>
  /\ History

\* The loop is over: the last command closed, a command failed (the close, error
\* and timeout handlers), or staging the files threw.
LoopOver(t) == child[t] \in {"alive", "signalled"} \/ left[t] = 0

\* The finally block completes the task's id and the response is sent.
Finish(t) ==
  LET S == Parked \ Range(queue') IN
  /\ request[t] = "executing"
  /\ LoopOver(t)
  /\ Complete(t[1])
  /\ request' = [u \in Task |-> IF u = t THEN "answered"
                                ELSE IF u \in S THEN "executing" ELSE request[u]]
  /\ left' = [u \in Task |-> IF u = t THEN 0
                             ELSE IF u \in S THEN Commands[u[1]] - 1 ELSE left[u]]
  /\ child' = [u \in Task |-> IF u = t THEN "none"
                              ELSE IF u \in S THEN "alive" ELSE child[u]]
  /\ revoked' = [revoked EXCEPT ![t] = FALSE]
  /\ Settle({t})
  /\ Heard({t})
  /\ UNCHANGED attempt
  /\ History

Next ==
  \/ \E i \in Id : Post(i) \/ GiveUp(i) \/ Cancel(i) \/ AbortOne(i)
  \/ \E t \in Task : SeeHangup(t) \/ Exit(t) \/ NextCommand(t) \/ Finish(t)
  \/ AbortEverything

\* A command ends by itself or by the executor's own timeout, so its close event
\* is handled.  Nothing is assumed of the clients or of the hangup event.
Fairness == \A t \in Task : WF_vars(NextCommand(t)) /\ WF_vars(Finish(t))

Spec == Init /\ [][Next]_vars /\ Fairness

----
\* Properties.

\* The registry never holds more entries than it has slots (drain and admit both
\* test running.size < maxConcurrent), whatever ids the clients reuse.
SlotsBounded == Cardinality(Occupied(running)) <= MaxConcurrent

\* No task is parked while a slot is free: every release drains the queue, and a
\* drained task that replaces an entry of its own id does not stop the drain early.
WorkConserving == queue # <<>> => Cardinality(Occupied(running)) = MaxConcurrent

\* An entry of the registry belongs to a request that is still executing, under
\* that request's id, and the queue holds exactly the parked requests: no slot is
\* stranded by a hangup, an abort or a failed command (backend.js, the finally block).
NoStrandedSlot ==
  /\ \A i \in Id : running[i] # NoTask =>
       running[i][1] = i /\ request[running[i]] = "executing"
  /\ \A t \in Task : request[t] = "parked" <=> t \in Parked

\* Requests the server executes that the registry has not aborted.
Executing == {t \in Task : request[t] = "executing" /\ ~ revoked[t]}

\* At most maxConcurrent bundles execute at once, aborted ones apart
\* (docs/backend-task-registry.md: "concurrency bounded by MAX_CONCURRENT").
ConcurrencyBounded == Cardinality(Executing) <= MaxConcurrent

\* Admission is FIFO: while a request executes, none of those that were parked
\* before it came is parked still (admit() never overtakes the queue, drain() and
\* the removal of an aborted task keep its order).
FifoAdmission ==
  \A t \in Task : request[t] = "executing" =>
    \A u \in ahead[t] : request[u] # "parked"

\* Every request the server took is answered, however many hangups, aborts and
\* retries under the same id go by: a parked task cannot be forgotten.
EveryRequestAnswered ==
  \A t \in Task : request[t] # "none" ~> request[t] = "answered"
====
