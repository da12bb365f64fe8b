---- MODULE TaskRegistry ----
\* The bounded FIFO task registry of the HTTP tool backend: backend/taskRegistry.js.
\* A task is one request that asked for a slot.  The id it is registered under is
\* chosen by the client, so several tasks may carry the same id: a task is written
\* <<id, n>>, the n-th request that carries that id.
EXTENDS Naturals, Sequences, FiniteSets, FiniteSetsExt, Functions

CONSTANTS Id,             \* task ids, one per runCli call
          Attempts,       \* bound: requests that may carry one id
          MaxConcurrent,  \* the registry's slots
          NoTask          \* a free entry of `running`

ASSUME IdIsFinite == IsFiniteSet(Id)
ASSUME AttemptsIsNat == Attempts \in Nat
ASSUME MaxConcurrentPositive == MaxConcurrent \in Nat \ {0}

Task == Id \X (1..Attempts)

ASSUME NoTaskIsNoTask == NoTask \notin Task

VARIABLES running,  \* Map id -> entry: the task whose kill() the entry holds
          queue     \* parked tasks, oldest first

registry == <<running, queue>>

----
\* The ids with an entry in the Map `running`, whose number is running.size.
Occupied(r) == {i \in Id : r[i] # NoTask}

\* Mutant of SlotFree: off by one.
SlotFreeOffByOne(r) == Cardinality(Occupied(r)) <= MaxConcurrent

SlotFree(r) == Cardinality(Occupied(r)) < MaxConcurrent

\* running.set(task.id, ...): an entry already there under that id is replaced.
SetEntry(r, t) == [r EXCEPT ![t[1]] = t]

\* The places of the first k tasks of q that carry the id i.
Carrying(q, k, i) == {j \in 1..k : q[j][1] = i}

\* running after set() of the first k tasks of q, in order: the last one wins.
SetPrefix(r, q, k) ==
  [i \in Id |-> IF Carrying(q, k, i) = {} THEN r[i] ELSE q[Max(Carrying(q, k, i))]]

\* Mutant of Drain: the free slot is tested once, not for each task shifted.
DrainAll(r, q) ==
  IF SlotFree(r) THEN running' = SetPrefix(r, q, Len(q)) /\ queue' = <<>>
                 ELSE running' = r /\ queue' = q

\* drain(): shift tasks into slots while one is free and one is parked.  It
\* takes the k tasks at the head of q.  (Naming k instead of looping keeps the
\* definition free of recursion; exactly one k qualifies.)
Drain(r, q) ==
  \E k \in 0..Len(q) :
    /\ \A j \in 0..(k - 1) : SlotFree(SetPrefix(r, q, j))
    /\ k = Len(q) \/ ~ SlotFree(SetPrefix(r, q, k))
    /\ running' = SetPrefix(r, q, k)
    /\ queue' = SubSeq(q, k + 1, Len(q))

----
RegistryInit ==
  /\ running = [i \in Id |-> NoTask]
  /\ queue = <<>>

\* admit(task): a free slot now, otherwise the end of the queue.
AdmitNow(t) ==
  /\ SlotFree(running)
  /\ running' = SetEntry(running, t)
  /\ queue' = queue

\* Mutant of Park: the newcomer is parked at the head.
ParkFirst(t) ==
  /\ ~ SlotFree(running)
  /\ queue' = <<t>> \o queue
  /\ running' = running

Park(t) ==
  /\ ~ SlotFree(running)
  /\ queue' = Append(queue, t)
  /\ running' = running

\* Mutant of Complete: the slot is released, the queue is not drained.
CompleteWithoutDrain(i) ==
  /\ running' = [running EXCEPT ![i] = NoTask]
  /\ queue' = queue

\* complete(id): the entry under id goes, whoever put it there.
Complete(i) == Drain([running EXCEPT ![i] = NoTask], queue)

\* Mutant of AbortRunning: the slot is freed, the queue is not drained.
AbortRunningWithoutDrain(i) ==
  /\ running[i] # NoTask
  /\ running' = [running EXCEPT ![i] = NoTask]
  /\ queue' = queue

\* abort(id) of a running id: kill() of the entry's task, then its slot is freed.
AbortRunning(i) ==
  /\ running[i] # NoTask
  /\ Drain([running EXCEPT ![i] = NoTask], queue)

\* abort(id) of an id that is only parked: the first such task leaves the queue.
FirstParked(i, n) ==
  /\ n \in DOMAIN queue
  /\ queue[n][1] = i
  /\ \A j \in 1..(n - 1) : queue[j][1] # i

AbortParked(i, n) ==
  /\ running[i] = NoTask
  /\ FirstParked(i, n)
  /\ queue' = SubSeq(queue, 1, n - 1) \o SubSeq(queue, n + 1, Len(queue))
  /\ running' = running

\* abort(id) of an unknown id returns false and changes nothing.
AbortUnknown(i) ==
  /\ running[i] = NoTask
  /\ \A n \in DOMAIN queue : queue[n][1] # i
  /\ UNCHANGED registry

\* Mutant of AbortAll: parked tasks are rejected but stay in the queue.
AbortAllKeepsQueue ==
  /\ running' = [i \in Id |-> NoTask]
  /\ queue' = queue

\* abortAll(): every entry is killed and dropped, every parked task rejected.
AbortAll ==
  /\ running' = [i \in Id |-> NoTask]
  /\ queue' = <<>>

Parked == Range(queue)
====
