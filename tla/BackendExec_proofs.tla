---- MODULE BackendExec_proofs ----
\* Proofs about the tool backend: the slot bound, work conservation and the
\* absence of stranded slots hold for any number of calls, retries and slots.
EXTENDS BackendExec, FiniteSetTheorems, WellFoundedInduction, TLAPS

\* Every nonempty set of naturals has a least element.
LEMMA LeastNat ==
  ASSUME NEW T, T \subseteq Nat, T # {}
  PROVE  \E x \in T : \A y \in T : x <= y
<1> DEFINE Less == {ss \in Nat \X Nat : ss[1] < ss[2]}
<1>1. IsWellFoundedOn(Less, Nat)
  BY NatLessThanWellFounded DEF OpToRel
<1>2. \E x \in T : \A y \in T : ~ (<<y, x>> \in Less)
  <2> HIDE DEF Less
  <2> QED BY <1>1, WFMin
<1>3. PICK x \in T : \A y \in T : ~ (<<y, x>> \in Less)
  BY <1>2
<1>4. ASSUME NEW y \in T  PROVE x <= y
  <2>1. ~ (y < x)
    BY <1>3
  <2> QED BY <2>1
<1> QED BY <1>4

\* A nonempty set of places has a last one: set() overwrites in order.
LEMMA LastPlace ==
  ASSUME NEW k \in Nat, NEW P, P \subseteq 1..k, P # {}
  PROVE  Max(P) \in P
<1> DEFINE T == {m \in 0..k : k - m \in P}
<1>1. T \subseteq Nat
  OBVIOUS
<1>2. T # {}
  <2>1. PICK j \in P : TRUE
    OBVIOUS
  <2>2. k - j \in T
    OBVIOUS
  <2> QED BY <2>2
<1>3. PICK m \in T : \A y \in T : m <= y
  <2> HIDE DEF T
  <2> QED BY <1>1, <1>2, LeastNat
<1>4. ASSUME NEW n \in P  PROVE k - m >= n
  <2>1. k - n \in T
    OBVIOUS
  <2>2. m <= k - n
    BY <2>1, <1>3
  <2> QED BY <2>2
<1>5. k - m \in P /\ \A n \in P : k - m >= n
  BY <1>4
<1> QED BY <1>5 DEF Max

\* The entry of id i is one of the first k parked tasks, of that id.
FromQueue(r, q, k, i) == \E n \in 1..k : q[n][1] = i /\ SetPrefix(r, q, k)[i] = q[n]

\* Setting entries keeps running a map from ids to tasks.
LEMMA SetPrefixEntry ==
  ASSUME NEW r, NEW q, NEW k \in 0..Len(q), Len(q) \in Nat, NEW i \in Id,
         Carrying(q, k, i) # {}
  PROVE  FromQueue(r, q, k, i)
<1>1. Max(Carrying(q, k, i)) \in Carrying(q, k, i)
  <2>1. k \in Nat /\ Carrying(q, k, i) \subseteq 1..k
    BY DEF Carrying
  <2> QED BY <2>1, LastPlace
<1>2. SetPrefix(r, q, k)[i] = q[Max(Carrying(q, k, i))]
  BY DEF SetPrefix
<1>3. /\ Max(Carrying(q, k, i)) \in 1..k
      /\ q[Max(Carrying(q, k, i))][1] = i
  BY <1>1 DEF Carrying
<1> QED BY <1>2, <1>3 DEF FromQueue

LEMMA SetPrefixType ==
  ASSUME NEW r \in [Id -> Task \union {NoTask}], NEW q \in Seq(Task), NEW k \in 0..Len(q)
  PROVE  SetPrefix(r, q, k) \in [Id -> Task \union {NoTask}]
<1>1. SetPrefix(r, q, k) = [i \in Id |-> SetPrefix(r, q, k)[i]]
  BY DEF SetPrefix
<1>2. ASSUME NEW i \in Id  PROVE SetPrefix(r, q, k)[i] \in Task \union {NoTask}
  <2>1. CASE Carrying(q, k, i) # {}
    <3>1. \A n \in 1..k : q[n] \in Task
      OBVIOUS
    <3>a. Len(q) \in Nat /\ FromQueue(r, q, k, i)
      BY <2>1, SetPrefixEntry
    <3>2. PICK n \in 1..k : q[n][1] = i /\ SetPrefix(r, q, k)[i] = q[n]
      BY <3>a DEF FromQueue
    <3> QED BY <3>1, <3>2
  <2>2. CASE Carrying(q, k, i) = {}
    BY <2>2 DEF SetPrefix
  <2> QED BY <2>1, <2>2
<1> QED BY <1>1, <1>2

LEMMA SetPrefixZero ==
  ASSUME NEW r \in [Id -> Task \union {NoTask}], NEW q \in Seq(Task)
  PROVE  SetPrefix(r, q, 0) = r
BY DEF SetPrefix, Carrying

\* One more entry occupies at most one more slot.
LEMMA OccupiedStep ==
  ASSUME NEW r, NEW q \in Seq(Task), NEW k \in 1..Len(q), NEW p \in 0..Len(q), p = k - 1
  PROVE  Occupied(SetPrefix(r, q, k)) \subseteq Occupied(SetPrefix(r, q, p)) \union {q[k][1]}
<1> SUFFICES ASSUME NEW i \in Id, SetPrefix(r, q, k)[i] # NoTask, i # q[k][1]
             PROVE  SetPrefix(r, q, p)[i] # NoTask
  BY DEF Occupied
<1>1. Carrying(q, k, i) = Carrying(q, p, i)
  BY DEF Carrying
<1> QED BY <1>1 DEF SetPrefix

LEMMA OccupiedFinite ==
  ASSUME NEW r
  PROVE  IsFiniteSet(Occupied(r)) /\ Cardinality(Occupied(r)) \in Nat
<1>1. Occupied(r) \in SUBSET Id
  BY DEF Occupied
<1> QED BY <1>1, IdIsFinite, FS_Subset, FS_CardinalityType

----
\* No task is parked twice.
Distinct(q) == \A m, n \in DOMAIN q : q[m] = q[n] => m = n

\* drain() fills the slots it may fill and no more.
LEMMA DrainFills ==
  ASSUME NEW r \in [Id -> Task \union {NoTask}], NEW q \in Seq(Task),
         Cardinality(Occupied(r)) <= MaxConcurrent, Drain(r, q)
  PROVE  /\ running' \in [Id -> Task \union {NoTask}]
         /\ queue' \in Seq(Task)
         /\ Cardinality(Occupied(running')) <= MaxConcurrent
         /\ queue' # <<>> => Cardinality(Occupied(running')) = MaxConcurrent
<1>1. PICK k \in 0..Len(q) :
        /\ \A j \in 0..(k - 1) : SlotFree(SetPrefix(r, q, j))
        /\ k = Len(q) \/ ~ SlotFree(SetPrefix(r, q, k))
        /\ running' = SetPrefix(r, q, k)
        /\ queue' = SubSeq(q, k + 1, Len(q))
  BY DEF Drain
<1>2. running' \in [Id -> Task \union {NoTask}]
  BY <1>1, SetPrefixType
<1>3. queue' \in Seq(Task)
  BY <1>1
<1>4. Cardinality(Occupied(running')) <= MaxConcurrent
  <2>1. CASE k = 0
    BY <2>1, <1>1, SetPrefixZero
  <2>2. CASE k # 0
    <3> DEFINE p == k - 1
               before == Occupied(SetPrefix(r, q, p))
               after == Occupied(SetPrefix(r, q, k))
    <3>1. p \in 0..Len(q) /\ p \in 0..(k - 1) /\ k \in 1..Len(q)
      BY <2>2
    <3>2. after \subseteq before \union {q[k][1]}
      BY <3>1, OccupiedStep
    <3>3. Cardinality(before) < MaxConcurrent
      BY <3>1, <1>1 DEF SlotFree
    <3>4. IsFiniteSet(before) /\ Cardinality(before) \in Nat /\ Cardinality(after) \in Nat
      BY OccupiedFinite
    <3> HIDE DEF before, after, p
    <3>5. /\ IsFiniteSet(before \union {q[k][1]})
          /\ Cardinality(before \union {q[k][1]}) <= Cardinality(before) + 1
      <4>1. /\ IsFiniteSet(before \union {q[k][1]})
            /\ Cardinality(before \union {q[k][1]}) =
                 IF q[k][1] \in before THEN Cardinality(before) ELSE Cardinality(before) + 1
        BY <3>4, FS_AddElement
      <4> QED BY <4>1, <3>4
    <3>6. Cardinality(after) <= Cardinality(before \union {q[k][1]})
      BY <3>2, <3>5, FS_Subset
    <3>7. Cardinality(before \union {q[k][1]}) \in Nat
      BY <3>5, FS_CardinalityType
    <3>8. Cardinality(after) <= MaxConcurrent
      BY <3>3, <3>4, <3>5, <3>6, <3>7, MaxConcurrentPositive
    <3> QED BY <3>8, <1>1 DEF after
  <2> QED BY <2>1, <2>2
<1>5. queue' # <<>> => Cardinality(Occupied(running')) = MaxConcurrent
  <2>1. SUFFICES ASSUME queue' # <<>>
                 PROVE  Cardinality(Occupied(running')) = MaxConcurrent
    OBVIOUS
  <2>2. k # Len(q)
    BY <2>1, <1>1
  <2>3. ~ Cardinality(Occupied(running')) < MaxConcurrent
    BY <2>2, <1>1 DEF SlotFree
  <2>4. Cardinality(Occupied(running')) \in Nat
    BY OccupiedFinite
  <2> QED BY <2>3, <2>4, <1>4, MaxConcurrentPositive
<1> QED BY <1>2, <1>3, <1>4, <1>5

\* drain() moves parked tasks from the queue into entries of their own id.
LEMMA DrainMoves ==
  ASSUME NEW r \in [Id -> Task \union {NoTask}], NEW q \in Seq(Task),
         Distinct(q), Drain(r, q)
  PROVE  /\ Distinct(queue')
         /\ Range(queue') \subseteq Range(q)
         /\ \A i \in Id :
              \/ running'[i] = r[i]
              \/ /\ running'[i] \in Range(q) \ Range(queue')
                 /\ running'[i][1] = i
<1>1. PICK k \in 0..Len(q) : /\ running' = SetPrefix(r, q, k)
                             /\ queue' = SubSeq(q, k + 1, Len(q))
  BY DEF Drain
<1>2. /\ Len(queue') = Len(q) - k
      /\ DOMAIN queue' = 1..(Len(q) - k)
      /\ \A n \in 1..(Len(q) - k) : queue'[n] = q[n + k]
  BY <1>1
<1>3. Distinct(queue')
  <2>1. ASSUME NEW m \in DOMAIN queue', NEW n \in DOMAIN queue', queue'[m] = queue'[n]
        PROVE  m = n
    <3>1. m + k \in DOMAIN q /\ n + k \in DOMAIN q /\ q[m + k] = q[n + k]
      BY SMTT(30), <2>1, <1>2
    <3>2. m + k = n + k
      BY <3>1 DEF Distinct
    <3> QED BY <3>2, <1>2
  <2> QED BY <2>1 DEF Distinct
<1>4. Range(queue') \subseteq Range(q)
  BY <1>2 DEF Range
<1>5. ASSUME NEW i \in Id
      PROVE  \/ running'[i] = r[i]
             \/ running'[i] \in Range(q) \ Range(queue') /\ running'[i][1] = i
  <2>1. CASE Carrying(q, k, i) = {}
    BY <2>1, <1>1 DEF SetPrefix
  <2>2. CASE Carrying(q, k, i) # {}
    <3>a. Len(q) \in Nat /\ FromQueue(r, q, k, i)
      BY <2>2, SetPrefixEntry
    <3>1. PICK n \in 1..k : q[n][1] = i /\ SetPrefix(r, q, k)[i] = q[n]
      BY <3>a DEF FromQueue
    <3>2. q[n] \in Range(q)
      BY <3>1 DEF Range
    <3>3. ASSUME q[n] \in Range(queue')  PROVE FALSE
      <4>1. PICK m \in 1..(Len(q) - k) : q[n] = q[m + k]
        BY <3>3, <1>2 DEF Range
      <4>2. n \in DOMAIN q /\ m + k \in DOMAIN q /\ n # m + k
        BY <3>1
      <4> QED BY <4>1, <4>2 DEF Distinct
    <3> QED BY <3>1, <3>2, <3>3, <1>1
  <2> QED BY <2>1, <2>2
<1> QED BY <1>3, <1>4, <1>5

----
\* What the registry alone keeps, whatever its callers do.
RegistryInv ==
  /\ running \in [Id -> Task \union {NoTask}]
  /\ queue \in Seq(Task)
  /\ SlotsBounded
  /\ WorkConserving

RegistryStep ==
  \/ \E t \in Task : AdmitNow(t) \/ Park(t)
  \/ \E i \in Id : Complete(i) \/ AbortRunning(i) \/ AbortUnknown(i)
  \/ \E i \in Id : \E n \in DOMAIN queue : AbortParked(i, n)
  \/ AbortAll
  \/ UNCHANGED registry

LEMMA ReleaseFits ==
  ASSUME NEW i \in Id, RegistryInv
  PROVE  /\ [running EXCEPT ![i] = NoTask] \in [Id -> Task \union {NoTask}]
         /\ Cardinality(Occupied([running EXCEPT ![i] = NoTask])) <= MaxConcurrent
<1> DEFINE r == [running EXCEPT ![i] = NoTask]
<1>1. r \in [Id -> Task \union {NoTask}] /\ Occupied(r) \subseteq Occupied(running)
  BY DEF Occupied, RegistryInv
<1>2. IsFiniteSet(Occupied(running)) /\ Cardinality(Occupied(running)) \in Nat
      /\ Cardinality(Occupied(r)) \in Nat
  BY OccupiedFinite
<1>3. Cardinality(Occupied(r)) <= Cardinality(Occupied(running))
  BY <1>1, <1>2, FS_Subset
<1> QED BY <1>1, <1>2, <1>3, MaxConcurrentPositive DEF RegistryInv, SlotsBounded

LEMMA RegistryKeeps == RegistryInv /\ RegistryStep => RegistryInv'
<1> SUFFICES ASSUME RegistryInv, RegistryStep  PROVE RegistryInv'
  OBVIOUS
<1> USE DEF RegistryInv, SlotsBounded, WorkConserving
<1>0. Cardinality(Occupied(running)) \in Nat /\ IsFiniteSet(Occupied(running))
  BY OccupiedFinite
<1>1. ASSUME NEW t \in Task, AdmitNow(t)  PROVE RegistryInv'
  <2>1. running' \in [Id -> Task \union {NoTask}] /\ queue' = queue
    BY <1>1 DEF AdmitNow, SetEntry
  <2>2. Occupied(running') \subseteq Occupied(running) \union {t[1]}
    BY <1>1 DEF AdmitNow, SetEntry, Occupied
  <2>3. /\ IsFiniteSet(Occupied(running) \union {t[1]})
        /\ Cardinality(Occupied(running) \union {t[1]}) =
             IF t[1] \in Occupied(running) THEN Cardinality(Occupied(running))
                                          ELSE Cardinality(Occupied(running)) + 1
    BY <1>0, FS_AddElement
  <2>4. Cardinality(Occupied(running')) <= Cardinality(Occupied(running) \union {t[1]})
    BY <2>2, <2>3, FS_Subset
  <2>5. Cardinality(Occupied(running')) \in Nat
    BY OccupiedFinite
  <2>6. Cardinality(Occupied(running)) < MaxConcurrent
    BY <1>1 DEF AdmitNow, SlotFree
  <2>7. Cardinality(Occupied(running')) <= MaxConcurrent
    BY <1>0, <2>3, <2>4, <2>5, <2>6, MaxConcurrentPositive
  <2>8. queue = <<>>
    BY <1>0, <2>6, MaxConcurrentPositive
  <2> QED BY <2>1, <2>7, <2>8
<1>2. ASSUME NEW t \in Task, Park(t)  PROVE RegistryInv'
  <2>1. queue' \in Seq(Task) /\ running' = running
    BY <1>2 DEF Park
  <2>2. Cardinality(Occupied(running)) = MaxConcurrent
    BY <1>0, <1>2, MaxConcurrentPositive DEF Park, SlotFree
  <2> QED BY <2>1, <2>2
<1>3. ASSUME NEW i \in Id, Drain([running EXCEPT ![i] = NoTask], queue)
      PROVE  RegistryInv'
  BY <1>3, ReleaseFits, DrainFills
<1>4. ASSUME NEW i \in Id, NEW n \in DOMAIN queue, AbortParked(i, n)
      PROVE  RegistryInv'
  <2>1. queue' \in Seq(Task) /\ running' = running /\ queue # <<>>
    BY <1>4 DEF AbortParked
  <2> QED BY <2>1
<1>5. CASE AbortAll
  <2>1. Occupied(running') = {}
    BY <1>5 DEF AbortAll, Occupied
  <2>2. Cardinality(Occupied(running')) = 0
    BY <2>1, FS_EmptySet
  <2> QED BY <1>5, <2>2, MaxConcurrentPositive DEF AbortAll
<1>6. CASE UNCHANGED registry
  BY <1>6 DEF registry
<1> QED
  BY <1>1, <1>2, <1>3, <1>4, <1>5, <1>6
  DEF RegistryStep, Complete, AbortRunning, AbortUnknown

\* Every step of the backend is a step of the registry or leaves it alone.
LEMMA StepUsesRegistry == TypeOK /\ [Next]_vars => RegistryStep
<1> SUFFICES ASSUME TypeOK, [Next]_vars  PROVE RegistryStep
  OBVIOUS
<1> USE DEF RegistryStep
<1>1. ASSUME NEW i \in Id, Post(i)  PROVE RegistryStep
  <2>1. <<i, attempt[i] + 1>> \in Task
    BY <1>1, AttemptsIsNat DEF Post, Task, TypeOK
  <2> QED BY <1>1, <2>1 DEF Post
<1>2. ASSUME NEW i \in Id, GiveUp(i) \/ Cancel(i)  PROVE RegistryStep
  BY <1>2 DEF GiveUp, Cancel, registry
<1>3. ASSUME NEW i \in Id, AbortOne(i)  PROVE RegistryStep
  BY <1>3 DEF AbortOne, KillEntry, DropParked
<1>4. ASSUME NEW t \in Task, SeeHangup(t)  PROVE RegistryStep
  <2>1. t[1] \in Id
    BY DEF Task
  <2> QED BY <1>4, <2>1 DEF SeeHangup, KillEntry, DropParked
<1>5. ASSUME NEW t \in Task, Exit(t) \/ NextCommand(t)  PROVE RegistryStep
  BY <1>5 DEF Exit, NextCommand, registry
<1>6. ASSUME NEW t \in Task, Finish(t)  PROVE RegistryStep
  <2>1. t[1] \in Id
    BY DEF Task
  <2> QED BY <1>6, <2>1 DEF Finish
<1>7. CASE AbortEverything
  BY <1>7 DEF AbortEverything
<1>8. CASE UNCHANGED vars
  BY <1>8 DEF vars, registry
<1> QED BY <1>1, <1>2, <1>3, <1>4, <1>5, <1>6, <1>7, <1>8 DEF Next

LEMMA TypeStep == TypeOK /\ RegistryInv' /\ [Next]_vars => TypeOK'
<1> SUFFICES ASSUME TypeOK, RegistryInv', [Next]_vars  PROVE TypeOK'
  OBVIOUS
<1> USE DEF RequestState, ChildState, ClientState
<1>t. \A t \in Task : t[1] \in Id
  BY DEF Task
<1>c. \A i \in Id : Commands[i] - 1 \in Nat
  BY CommandsArePositive
<1>q. Parked \subseteq Task /\ Range(queue') \subseteq Task
  BY DEF Parked, Range, TypeOK, RegistryInv
<1>h. History => ahead' \in [Task -> SUBSET Task]
  BY <1>q DEF History, TypeOK
<1>r. running' \in [Id -> Task \union {NoTask}] /\ queue' \in Seq(Task)
  BY DEF RegistryInv
<1>s. ASSUME NEW S, NEW K, Serve(S, K)
      PROVE  /\ request' \in [Task -> RequestState]
             /\ left' \in [Task -> Nat]
             /\ child' \in [Task -> ChildState]
             /\ revoked' \in [Task -> BOOLEAN]
  BY <1>s, <1>t, <1>c DEF Serve, TypeOK
<1>a. ASSUME NEW D  PROVE /\ Settle(D) => client' \in [Id -> ClientState]
                          /\ Heard(D) => hangup' \in [Task -> BOOLEAN]
  BY ZenonT(30) DEF Settle, Heard, TypeOK
<1>d. ASSUME NEW i \in Id, NEW n \in DOMAIN queue, DropParked(i, n)
      PROVE  /\ request' \in [Task -> RequestState]
             /\ left' \in [Task -> Nat]
             /\ child' \in [Task -> ChildState]
             /\ revoked' \in [Task -> BOOLEAN]
             /\ client' \in [Id -> ClientState]
  BY <1>d, <1>a DEF DropParked, TypeOK
<1>1. ASSUME NEW i \in Id, Post(i)  PROVE TypeOK'
  <2>1. attempt' \in [Id -> 0..Attempts] /\ client' \in [Id -> ClientState]
    BY <1>1, AttemptsIsNat DEF Post, TypeOK
  <2>2. /\ request' \in [Task -> RequestState]
        /\ left' \in [Task -> Nat]
        /\ child' \in [Task -> ChildState]
        /\ revoked' \in [Task -> BOOLEAN]
    <3> DEFINE t == <<i, attempt[i] + 1>>
    <3>1. CASE Serve({t}, {})
      BY <3>1, <1>s
    <3>2. CASE request' = [request EXCEPT ![t] = "parked"] /\ UNCHANGED <<child, left, revoked>>
      <4> HIDE DEF t
      <4> QED BY <3>2 DEF TypeOK
    <3> QED BY <1>1, <3>1, <3>2 DEF Post
  <2> QED BY <1>1, <2>1, <2>2, <1>h, <1>r DEF Post, TypeOK
<1>2. ASSUME NEW i \in Id, GiveUp(i) \/ Cancel(i)  PROVE TypeOK'
  BY <1>2, <1>h, <1>r DEF GiveUp, Cancel, TypeOK, server
<1>3. ASSUME NEW i \in Id, AbortOne(i)  PROVE TypeOK'
  <2>1. CASE KillEntry(i) /\ UNCHANGED hangup
    BY <2>1, <1>3, <1>s, <1>h, <1>r DEF AbortOne, KillEntry, TypeOK
  <2>2. ASSUME NEW n \in DOMAIN queue, DropParked(i, n), Heard({queue[n]})  PROVE TypeOK'
    BY <2>2, <1>3, <1>d, <1>a, <1>h, <1>r DEF AbortOne, TypeOK
  <2> QED BY <2>1, <2>2, <1>3 DEF AbortOne
<1>4. ASSUME NEW t \in Task, SeeHangup(t)  PROVE TypeOK'
  <2>1. CASE KillEntry(t[1]) /\ Heard({t})
    BY <2>1, <1>4, <1>s, <1>a, <1>h, <1>r DEF SeeHangup, KillEntry, TypeOK
  <2>2. ASSUME NEW n \in DOMAIN queue, DropParked(t[1], n), Heard({t, queue[n]})
        PROVE  TypeOK'
    BY <2>2, <1>4, <1>t, <1>d, <1>a, <1>h, <1>r DEF SeeHangup, TypeOK
  <2>3. CASE AbortUnknown(t[1]) /\ Heard({t}) /\ UNCHANGED <<server, client>>
    BY <2>3, <1>4, <1>a, <1>h, <1>r DEF SeeHangup, TypeOK, server
  <2> QED BY <2>1, <2>2, <2>3, <1>4 DEF SeeHangup
<1>5. ASSUME NEW t \in Task, Exit(t)  PROVE TypeOK'
  BY <1>5, <1>h, <1>r DEF Exit, TypeOK
<1>6. ASSUME NEW t \in Task, NextCommand(t)  PROVE TypeOK'
  <2>1. left[t] - 1 \in Nat
    BY <1>6 DEF NextCommand, TypeOK
  <2>2. left' \in [Task -> Nat]
    BY <1>6, <2>1 DEF NextCommand, TypeOK
  <2>3. child' \in [Task -> ChildState]
    BY <1>6 DEF NextCommand, TypeOK
  <2> QED BY <1>6, <2>2, <2>3, <1>h, <1>r DEF NextCommand, TypeOK
<1>7. ASSUME NEW t \in Task, Finish(t)  PROVE TypeOK'
  <2>1. /\ request' \in [Task -> RequestState]
        /\ left' \in [Task -> Nat]
        /\ child' \in [Task -> ChildState]
        /\ revoked' \in [Task -> BOOLEAN]
    BY <1>7, <1>t, <1>c DEF Finish, TypeOK
  <2> QED BY <2>1, <1>7, <1>a, <1>h, <1>r DEF Finish, TypeOK
<1>8. CASE AbortEverything
  BY <1>8, <1>a, <1>h, <1>r DEF AbortEverything, TypeOK
<1>9. CASE UNCHANGED vars
  BY <1>9, <1>r DEF vars, server, TypeOK
<1> QED BY <1>1, <1>2, <1>3, <1>4, <1>5, <1>6, <1>7, <1>8, <1>9 DEF Next

LEMMA InitType == Init => TypeOK /\ RegistryInv
<1> SUFFICES ASSUME Init  PROVE TypeOK /\ RegistryInv
  OBVIOUS
<1>1. TypeOK
  BY AttemptsIsNat DEF Init, RegistryInit, TypeOK, RequestState, ChildState, ClientState
<1>2. Cardinality(Occupied(running)) = 0
  <2>1. Occupied(running) = {}
    BY DEF Init, RegistryInit, Occupied
  <2> QED BY <2>1, FS_EmptySet
<1> QED
  BY <1>1, <1>2, MaxConcurrentPositive
  DEF Init, RegistryInit, TypeOK, RegistryInv, SlotsBounded, WorkConserving

LEMMA RegistryAlways == Spec => [](TypeOK /\ RegistryInv)
<1>1. TypeOK /\ RegistryInv /\ [Next]_vars => (TypeOK /\ RegistryInv)'
  BY StepUsesRegistry, RegistryKeeps, TypeStep
<1> QED BY InitType, <1>1, PTL DEF Spec

\* The variables of the backend keep their types: in particular no client makes the
\* command loop run more commands than the bundle has (left stays a natural).
THEOREM TypeCorrect == Spec => []TypeOK
BY RegistryAlways, PTL

\* The registry never holds more than maxConcurrent entries, for any number of
\* calls and retries, any reuse of ids and any slot count (admit, drain).
THEOREM SlotBound == Spec => []SlotsBounded
<1>1. RegistryInv => SlotsBounded
  BY DEF RegistryInv
<1> QED BY <1>1, RegistryAlways, PTL

\* No task is ever parked while a slot is free (complete and abort drain the queue).
THEOREM QueueWaitsForFullSlots == Spec => []WorkConserving
<1>1. RegistryInv => WorkConserving
  BY DEF RegistryInv
<1> QED BY <1>1, RegistryAlways, PTL

----
\* Who owns the slots.  A fresh request has not been seen by the server, and no
\* request is parked twice: together with NoStrandedSlot this is inductive.
Owners ==
  /\ NoStrandedSlot
  /\ Distinct(queue)
  /\ \A t \in Task : t[2] > attempt[t[1]] => request[t] = "none"

\* The effect of a drained queue on ownership, for the two handlers that drain.
\* D is the request that is answered in the same step, if any.
LEMMA DrainOwners ==
  ASSUME TypeOK, Owners, NEW i \in Id, NEW D,
         \A t \in D : t \in Task /\ t[1] = i /\ request[t] = "executing",
         Drain([running EXCEPT ![i] = NoTask], queue),
         attempt' = attempt,
         request' = [t \in Task |-> IF t \in D THEN "answered"
                       ELSE IF t \in Parked \ Range(queue') THEN "executing"
                       ELSE request[t]]
  PROVE  Owners'
<1> DEFINE r == [running EXCEPT ![i] = NoTask]
<1>1. r \in [Id -> Task \union {NoTask}] /\ queue \in Seq(Task) /\ Distinct(queue)
  BY DEF TypeOK, Owners
<1>2. /\ Distinct(queue')
      /\ Range(queue') \subseteq Range(queue)
      /\ \A j \in Id :
           \/ running'[j] = r[j]
           \/ running'[j] \in Range(queue) \ Range(queue') /\ running'[j][1] = j
  <2> HIDE DEF r
  <2> QED BY <1>1, DrainMoves DEF r
<1>3. Parked = Range(queue) /\ Parked' = Range(queue') /\ Parked \subseteq Task
  BY DEF Parked, Range, TypeOK
<1>4. \A t \in D : t \notin Parked
  BY DEF Owners, NoStrandedSlot
<1>5. ASSUME NEW j \in Id, running'[j] # NoTask
      PROVE  running'[j][1] = j /\ request'[running'[j]] = "executing"
  <2>1. CASE running'[j] = r[j]
    <3>1. j # i /\ running'[j] = running[j]
      BY <2>1, <1>5 DEF TypeOK
    <3>2. /\ running[j] \in Task /\ running[j][1] = j
          /\ request[running[j]] = "executing"
      BY <3>1, <1>5 DEF TypeOK, Owners, NoStrandedSlot
    <3>3. running[j] \notin D
      BY <3>1, <3>2
    <3> QED BY <3>1, <3>2, <3>3
  <2>2. CASE running'[j] \in Range(queue) \ Range(queue') /\ running'[j][1] = j
    BY <2>2, <1>3, <1>4
  <2> QED BY <2>1, <2>2, <1>2
<1>6. ASSUME NEW t \in Task
      PROVE  request'[t] = "parked" <=> t \in Parked'
  <2>1. request[t] = "parked" <=> t \in Parked
    BY DEF Owners, NoStrandedSlot
  <2> QED BY <2>1, <1>2, <1>3, <1>4
<1>7. \A t \in Task : t[2] > attempt'[t[1]] => request'[t] = "none"
  <2> SUFFICES ASSUME NEW t \in Task, t[2] > attempt[t[1]]  PROVE request'[t] = "none"
    OBVIOUS
  <2>1. request[t] = "none" /\ (request[t] = "parked" <=> t \in Parked)
    BY DEF Owners, NoStrandedSlot
  <2>2. t \notin D /\ t \notin Parked
    BY <2>1
  <2> QED BY <2>1, <2>2
<1> QED BY <1>2, <1>5, <1>6, <1>7 DEF Owners, NoStrandedSlot

\* The place in the queue, before one leaves from place n, of the task at place m.
Keep(q, n) == [m \in 1..(Len(q) - 1) |-> IF m < n THEN m ELSE m + 1]

\* The queue without its n-th task.
Without(q, n) == SubSeq(q, 1, n - 1) \o SubSeq(q, n + 1, Len(q))

\* abort() of a parked id takes one task out of the queue and keeps the others.
LEMMA RemoveOne ==
  ASSUME NEW q \in Seq(Task), NEW n \in DOMAIN q
  PROVE  /\ Without(q, n) \in Seq(Task)
         /\ DOMAIN Without(q, n) = 1..(Len(q) - 1)
         /\ \A m \in DOMAIN Without(q, n) : /\ Keep(q, n)[m] \in DOMAIN q
                                /\ Keep(q, n)[m] # n
                                /\ Without(q, n)[m] = q[Keep(q, n)[m]]
         /\ \A m \in DOMAIN q : m # n => \E j \in DOMAIN Without(q, n) : Keep(q, n)[j] = m
<1> DEFINE keep == [m \in 1..(Len(q) - 1) |-> IF m < n THEN m ELSE m + 1]
           p == Without(q, n)
<1>0. keep = Keep(q, n)
  BY DEF Keep
<1> HIDE DEF p
<1>1. /\ p \in Seq(Task)
      /\ DOMAIN p = 1..(Len(q) - 1)
      /\ \A m \in DOMAIN p : keep[m] \in DOMAIN q /\ keep[m] # n /\ p[m] = q[keep[m]]
  <2> DEFINE front == SubSeq(q, 1, n - 1)
             back == SubSeq(q, n + 1, Len(q))
  <2>1. q \in Seq(Task) /\ Len(q) \in Nat /\ n \in 1..Len(q)
    OBVIOUS
  <2>2. /\ front \in Seq(Task) /\ Len(front) = n - 1
        /\ \A m \in 1..(n - 1) : front[m] = q[m]
    BY <2>1
  <2>3. /\ back \in Seq(Task) /\ Len(back) = Len(q) - n
        /\ \A m \in 1..(Len(q) - n) : back[m] = q[m + n]
    BY <2>1
  <2>4. p = front \o back
    BY DEF p, Without
  <2> HIDE DEF front, back
  <2>5. p \in Seq(Task) /\ DOMAIN p = 1..(Len(q) - 1)
    BY <2>1, <2>2, <2>3, <2>4
  <2>6. ASSUME NEW m \in DOMAIN p
        PROVE  keep[m] \in DOMAIN q /\ keep[m] # n /\ p[m] = q[keep[m]]
    <3>1. CASE m < n
      BY SMTT(30), <2>1, <2>2, <2>3, <2>4, <2>5, <3>1
    <3>2. CASE m >= n
      <4> DEFINE d == m - (n - 1)
      <4>1. d \in 1..(Len(q) - n) /\ p[m] = back[d] /\ keep[m] = m + 1
        <5>1. d \in 1..(Len(q) - n) /\ keep[m] = m + 1
          BY <2>1, <2>5, <3>2
        <5>2. /\ Len(front) \in Nat /\ Len(back) \in Nat
              /\ m \in 1..(Len(front) + Len(back)) /\ m > Len(front)
          BY SMTT(30), <2>1, <2>2, <2>3, <2>5, <3>2
        <5>3. p[m] = back[m - Len(front)]
          BY SMTT(30), <2>2, <2>3, <2>4, <5>2
        <5> QED BY <2>2, <5>1, <5>3
      <4>2. d + n = m + 1
        BY <2>1, <2>5
      <4>3. back[d] = q[d + n]
        <5> HIDE DEF d
        <5> QED BY <2>3, <4>1
      <4> QED BY SMTT(30), <2>1, <2>5, <3>2, <4>1, <4>2, <4>3
    <3> QED BY <2>1, <2>5, <3>1, <3>2
  <2> QED BY <2>5, <2>6
<1>2. \A m \in DOMAIN q : m # n => \E j \in DOMAIN p : keep[j] = m
  <2> SUFFICES ASSUME NEW m \in DOMAIN q, m # n
               PROVE  \E j \in DOMAIN p : keep[j] = m
    OBVIOUS
  <2>1. Len(q) \in Nat /\ DOMAIN q = 1..Len(q)
    OBVIOUS
  <2>2. CASE m < n
    <3>1. m \in DOMAIN p /\ keep[m] = m
      BY <2>1, <2>2, <1>1
    <3> QED BY <3>1
  <2>3. CASE m > n
    <3>1. m - 1 \in DOMAIN p /\ keep[m - 1] = m
      BY <2>1, <2>3, <1>1
    <3> QED BY <3>1
  <2> QED BY <2>1, <2>2, <2>3
<1> HIDE DEF keep
<1> QED BY <1>0, <1>1, <1>2 DEF p

LEMMA OwnersStep == TypeOK /\ Owners /\ [Next]_vars => Owners'
<1> SUFFICES ASSUME TypeOK, Owners, [Next]_vars  PROVE Owners'
  OBVIOUS
<1>t. \A t \in Task : t[1] \in Id
  BY DEF Task
<1>0. ASSUME UNCHANGED <<running, queue, request, attempt>>  PROVE Owners'
  BY <1>0 DEF Owners, NoStrandedSlot, Distinct, Parked
<1>k. ASSUME NEW i \in Id, KillEntry(i), UNCHANGED attempt  PROVE Owners'
  <2> DEFINE D == {}
  <2>1. request' = [t \in Task |-> IF t \in D THEN "answered"
                      ELSE IF t \in Parked \ Range(queue') THEN "executing"
                      ELSE request[t]]
    BY <1>k DEF KillEntry, Serve
  <2>2. Drain([running EXCEPT ![i] = NoTask], queue)
    BY <1>k DEF KillEntry, AbortRunning
  <2>3. \A t \in D : t \in Task /\ t[1] = i /\ request[t] = "executing"
    OBVIOUS
  <2>4. attempt' = attempt
    BY <1>k
  <2> HIDE DEF D
  <2> QED BY <2>1, <2>2, <2>3, <2>4, DrainOwners
<1>d. ASSUME NEW i \in Id, NEW n \in DOMAIN queue, DropParked(i, n), UNCHANGED attempt
      PROVE  Owners'
  <2> DEFINE keep == Keep(queue, n)
  <2>0. queue \in Seq(Task) /\ queue' = Without(queue, n)
    BY <1>d DEF DropParked, AbortParked, TypeOK, Without
  <2>1. /\ queue' \in Seq(Task)
        /\ DOMAIN queue' = 1..(Len(queue) - 1)
        /\ \A m \in DOMAIN queue' : /\ keep[m] \in DOMAIN queue
                                    /\ keep[m] # n
                                    /\ queue'[m] = queue[keep[m]]
    BY SMTT(30), <2>0, RemoveOne
  <2>2. \A m \in DOMAIN queue : m # n => \E j \in DOMAIN queue' : keep[j] = m
    BY <2>0, RemoveOne
  <2>3. Distinct(queue')
    <3>1. ASSUME NEW m \in DOMAIN queue', NEW j \in DOMAIN queue', queue'[m] = queue'[j]
          PROVE  m = j
      <4>1. keep[m] = keep[j]
        BY <3>1, <2>1 DEF Owners, Distinct
      <4>2. m \in 1..(Len(queue) - 1) /\ j \in 1..(Len(queue) - 1) /\ n \in Nat
        BY <2>1
      <4> QED BY <4>1, <4>2 DEF Keep
    <3> QED BY <3>1 DEF Distinct
  <2>4. Range(queue') = Range(queue) \ {queue[n]}
    <3>1. Range(queue') \subseteq Range(queue) \ {queue[n]}
      <4> SUFFICES ASSUME NEW m \in DOMAIN queue'
                   PROVE  queue'[m] \in Range(queue) /\ queue'[m] # queue[n]
        BY DEF Range
      <4>1. keep[m] \in DOMAIN queue /\ keep[m] # n /\ queue'[m] = queue[keep[m]]
        BY <2>1
      <4> HIDE DEF keep
      <4> QED BY <4>1 DEF Range, Owners, Distinct
    <3>2. Range(queue) \ {queue[n]} \subseteq Range(queue')
      <4> SUFFICES ASSUME NEW m \in DOMAIN queue, queue[m] # queue[n]
                   PROVE  queue[m] \in Range(queue')
        BY DEF Range
      <4>1. PICK j \in DOMAIN queue' : keep[j] = m
        BY <2>2
      <4>2. queue'[j] = queue[m]
        BY <4>1, <2>1
      <4> QED BY <4>2 DEF Range
    <3> QED BY <3>1, <3>2
  <2>5. queue[n] \in Task /\ queue[n] \in Parked /\ request[queue[n]] = "parked"
    BY DEF TypeOK, Parked, Range, Owners, NoStrandedSlot
  <2>6. running' = running /\ request' = [request EXCEPT ![queue[n]] = "answered"]
    BY <1>d DEF DropParked, AbortParked
  <2> HIDE DEF keep
  <2>7. NoStrandedSlot'
    BY <2>4, <2>5, <2>6 DEF NoStrandedSlot, Owners, Parked, TypeOK
  <2>8. \A t \in Task : t[2] > attempt'[t[1]] => request'[t] = "none"
    BY <1>d, <2>5, <2>6 DEF Owners, TypeOK
  <2> QED BY <2>3, <2>7, <2>8 DEF Owners
<1>1. ASSUME NEW i \in Id, Post(i)  PROVE Owners'
  <2> DEFINE t == <<i, attempt[i] + 1>>
  <2>1. t \in Task /\ t[1] = i /\ t[2] = attempt[i] + 1 /\ attempt[i] \in Nat
    BY <1>1, AttemptsIsNat DEF Post, Task, TypeOK
  <2>2. request[t] = "none" /\ t \notin Parked /\ attempt' = [attempt EXCEPT ![i] = @ + 1]
    BY <1>1, <2>1 DEF Post, Owners, NoStrandedSlot
  <2> HIDE DEF t
  <2>3. \A u \in Task : u # t /\ u[2] > attempt'[u[1]] => request[u] = "none"
    <3> SUFFICES ASSUME NEW u \in Task, u # t, u[2] > attempt'[u[1]]
                 PROVE  u[2] > attempt[u[1]]
      BY DEF Owners
    <3>1. u[2] \in Nat /\ u[1] \in Id /\ attempt[u[1]] \in Nat
      BY AttemptsIsNat DEF Task, TypeOK
    <3> QED BY <2>1, <2>2, <3>1 DEF TypeOK
  <2>4. ~ t[2] > attempt'[t[1]]
    BY <2>1, <2>2 DEF TypeOK
  <2>5. CASE AdmitNow(t) /\ Serve({t}, {})
    <3>1. /\ running' = [running EXCEPT ![i] = t] /\ queue' = queue
          /\ request' = [u \in Task |-> IF u = t THEN "executing" ELSE request[u]]
      BY <2>5, <2>1 DEF AdmitNow, SetEntry, Serve
    <3>2. NoStrandedSlot'
      BY <2>1, <2>2, <3>1 DEF Owners, NoStrandedSlot, Parked, TypeOK
    <3> QED BY <2>3, <2>4, <3>1, <3>2 DEF Owners, Distinct
  <2>6. CASE Park(t) /\ request' = [request EXCEPT ![t] = "parked"]
    <3>1. /\ running' = running /\ queue' = Append(queue, t)
      BY <2>6 DEF Park
    <3>2. /\ DOMAIN queue' = DOMAIN queue \union {Len(queue) + 1}
          /\ Len(queue) + 1 \notin DOMAIN queue
          /\ \A n \in DOMAIN queue : queue'[n] = queue[n]
          /\ queue'[Len(queue) + 1] = t
      BY <3>1 DEF TypeOK
    <3>3. Range(queue') = Range(queue) \union {t}
      BY <3>2 DEF Range
    <3>4. \A n \in DOMAIN queue : queue[n] # t
      BY <2>2 DEF Parked, Range
    <3>5. Distinct(queue')
      BY <3>2, <3>4 DEF Owners, Distinct
    <3>6. NoStrandedSlot'
      BY <2>1, <2>2, <2>6, <3>1, <3>3 DEF Owners, NoStrandedSlot, Parked, TypeOK
    <3>7. \A u \in Task : u[2] > attempt'[u[1]] => request'[u] = "none"
      BY <2>3, <2>4, <2>6 DEF TypeOK
    <3> QED BY <3>5, <3>6, <3>7 DEF Owners
  <2> QED BY <1>1, <2>5, <2>6 DEF Post, t
<1>2. ASSUME NEW i \in Id, GiveUp(i) \/ Cancel(i)  PROVE Owners'
  BY <1>2, <1>0 DEF GiveUp, Cancel, server
<1>3. ASSUME NEW i \in Id, AbortOne(i)  PROVE Owners'
  BY <1>3, <1>k, <1>d DEF AbortOne
<1>4. ASSUME NEW t \in Task, SeeHangup(t)  PROVE Owners'
  BY <1>4, <1>t, <1>k, <1>d, <1>0 DEF SeeHangup, AbortUnknown, registry, server
<1>5. ASSUME NEW t \in Task, Exit(t) \/ NextCommand(t)  PROVE Owners'
  BY <1>5, <1>0 DEF Exit, NextCommand
<1>6. ASSUME NEW t \in Task, Finish(t)  PROVE Owners'
  <2> DEFINE D == {t}
             i == t[1]
  <2>1. request' = [u \in Task |-> IF u \in D THEN "answered"
                      ELSE IF u \in Parked \ Range(queue') THEN "executing"
                      ELSE request[u]]
    BY <1>6 DEF Finish
  <2>2. /\ Drain([running EXCEPT ![i] = NoTask], queue)
        /\ attempt' = attempt /\ request[t] = "executing"
    BY <1>6 DEF Finish, Complete
  <2>3. \A u \in D : u \in Task /\ u[1] = i /\ request[u] = "executing"
    BY <2>2
  <2>4. i \in Id
    BY <1>t
  <2> HIDE DEF D, i
  <2> QED BY <2>1, <2>2, <2>3, <2>4, DrainOwners
<1>7. CASE AbortEverything
  <2>1. /\ \A i \in Id : running'[i] = NoTask
        /\ Parked' = {} /\ Distinct(queue')
        /\ request' = [t \in Task |-> IF t \in Parked THEN "answered" ELSE request[t]]
        /\ attempt' = attempt
    BY <1>7 DEF AbortEverything, AbortAll, Parked, Range, Distinct
  <2> QED BY <2>1 DEF Owners, NoStrandedSlot
<1>8. CASE UNCHANGED vars
  BY <1>8, <1>0 DEF vars, server
<1> QED BY <1>1, <1>2, <1>3, <1>4, <1>5, <1>6, <1>7, <1>8 DEF Next

\* No slot is stranded: every entry belongs to a request that still executes and is
\* filed under that request's id, and the queue holds exactly the parked requests,
\* whatever hangups, aborts and reused ids occur (the finally block, abort).
THEOREM SlotsHaveOwners == Spec => []NoStrandedSlot
<1>1. Init => Owners
  BY DEF Init, RegistryInit, Owners, NoStrandedSlot, Distinct, Parked, Range
<1>2. Owners => NoStrandedSlot
  BY DEF Owners
<1> QED BY <1>1, <1>2, OwnersStep, TypeCorrect, PTL DEF Spec

----
\* The order of admission.  Who executes waits for nobody, and who is parked waits
\* only for tasks at smaller places of the queue.
Fifo ==
  /\ \A t \in Task : request[t] = "executing" => ahead[t] = {}
  /\ \A n \in DOMAIN queue : \A u \in ahead[queue[n]] : \E j \in 1..(n - 1) : queue[j] = u

\* drain() admits from the head: what it leaves moves up by the number it took.
LEMMA FifoDrain ==
  ASSUME TypeOK, Owners, Fifo, NEW r, Drain(r, queue),
         ahead' = [t \in Task |-> ahead[t] \intersect Range(queue')],
         \A t \in Task : request'[t] = "executing" =>
           request[t] = "executing" \/ t \in Parked \ Range(queue')
  PROVE  Fifo'
<1>0. queue \in Seq(Task) /\ Distinct(queue)
  BY DEF TypeOK, Owners
<1>1. PICK k \in 0..Len(queue) : queue' = SubSeq(queue, k + 1, Len(queue))
  BY DEF Drain
<1>2. /\ DOMAIN queue' = 1..(Len(queue) - k)
      /\ \A n \in 1..(Len(queue) - k) : queue'[n] = queue[n + k] /\ n + k \in DOMAIN queue
  BY <1>0, <1>1
<1>3. ASSUME NEW n \in DOMAIN queue, NEW u \in ahead[queue[n]] \intersect Range(queue')
      PROVE  \E l \in DOMAIN queue' : queue'[l] = u /\ l + k < n
  <2>1. PICK l \in DOMAIN queue' : queue'[l] = u
    BY <1>3 DEF Range
  <2>2. PICK j \in 1..(n - 1) : queue[j] = u
    BY <1>3 DEF Fifo
  <2>3. n \in 1..Len(queue) /\ Len(queue) \in Nat /\ j \in DOMAIN queue
    BY <1>0
  <2>4. l + k = j
    BY <1>0, <1>2, <2>1, <2>2, <2>3 DEF Distinct
  <2> QED BY <2>1, <2>2, <2>3, <2>4
<1>4. ASSUME NEW t \in Task, request'[t] = "executing"  PROVE ahead'[t] = {}
  <2>1. CASE request[t] = "executing"
    BY <2>1 DEF Fifo
  <2>2. CASE t \in Parked \ Range(queue')
    <3>1. PICK n \in DOMAIN queue : t = queue[n]
      BY <2>2 DEF Parked, Range
    <3>2. n \in 1..Len(queue) /\ Len(queue) \in Nat
      BY <1>0
    <3>3. n <= k
      <4>1. SUFFICES ASSUME n > k  PROVE FALSE
        BY <3>2
      <4>2. n - k \in 1..(Len(queue) - k) /\ (n - k) + k = n
        BY <3>2, <4>1
      <4>3. queue'[n - k] = t
        BY <1>2, <3>1, <4>2
      <4> QED BY <1>2, <2>2, <4>2, <4>3 DEF Range
    <3>4. ASSUME NEW u \in ahead[t] \intersect Range(queue')  PROVE FALSE
      <4>1. PICK l \in DOMAIN queue' : l + k < n
        BY <1>3, <3>1, <3>4
      <4> QED BY <1>2, <3>2, <3>3, <4>1
    <3> QED BY <3>4
  <2> QED BY <1>4, <2>1, <2>2
<1>5. ASSUME NEW n \in DOMAIN queue', NEW u \in ahead'[queue'[n]]
      PROVE  \E j \in 1..(n - 1) : queue'[j] = u
  <2>1. /\ n \in 1..(Len(queue) - k) /\ n + k \in DOMAIN queue
        /\ queue'[n] = queue[n + k] /\ queue[n + k] \in Task
    BY <1>0, <1>2
  <2>2. u \in ahead[queue[n + k]] \intersect Range(queue')
    BY <1>5, <2>1
  <2>3. PICK l \in DOMAIN queue' : queue'[l] = u /\ l + k < n + k
    BY <1>3, <2>1, <2>2
  <2>4. l \in 1..(n - 1)
    BY <1>0, <1>2, <2>1, <2>3
  <2> QED BY <2>3, <2>4
<1> QED BY <1>4, <1>5 DEF Fifo

\* abort() of a parked id: the others keep their order.
LEMMA FifoDrop ==
  ASSUME TypeOK, Owners, Fifo, NEW i \in Id, NEW n \in DOMAIN queue, DropParked(i, n),
         ahead' = [t \in Task |-> ahead[t] \intersect Range(queue')]
  PROVE  Fifo'
<1> DEFINE keep == Keep(queue, n)
<1>0. queue \in Seq(Task) /\ Distinct(queue) /\ queue' = Without(queue, n)
  BY DEF TypeOK, Owners, DropParked, AbortParked, Without
<1>1. /\ DOMAIN queue' = 1..(Len(queue) - 1)
      /\ \A m \in DOMAIN queue' : keep[m] \in DOMAIN queue /\ queue'[m] = queue[keep[m]]
  BY SMTT(30), <1>0, RemoveOne
<1>2. ASSUME NEW l \in DOMAIN queue', NEW m \in DOMAIN queue', keep[l] < keep[m]
      PROVE  l < m
  BY <1>0, <1>1, <1>2 DEF Keep
<1> HIDE DEF keep
<1>3. ASSUME NEW m \in DOMAIN queue', NEW u \in ahead'[queue'[m]]
      PROVE  \E j \in 1..(m - 1) : queue'[j] = u
  <2>1. keep[m] \in DOMAIN queue /\ queue'[m] = queue[keep[m]] /\ queue[keep[m]] \in Task
    BY <1>0, <1>1
  <2>2. u \in ahead[queue[keep[m]]] /\ u \in Range(queue')
    BY <1>3, <2>1
  <2>3. PICK j \in 1..(keep[m] - 1) : queue[j] = u
    BY <2>1, <2>2 DEF Fifo
  <2>4. PICK l \in DOMAIN queue' : queue'[l] = u
    BY <2>2 DEF Range
  <2>5. keep[l] \in DOMAIN queue /\ queue[keep[l]] = u
    BY <1>1, <2>4
  <2>6. j \in DOMAIN queue /\ j < keep[m]
    BY <1>0, <2>1, <2>3
  <2>7. keep[l] < keep[m]
    BY <1>0, <2>3, <2>5, <2>6 DEF Distinct
  <2>8. l < m
    BY <1>2, <2>7
  <2>9. l \in 1..(m - 1)
    BY <1>0, <1>1, <2>8
  <2> QED BY <2>4, <2>9
<1>4. queue[n] \in Task /\ request' = [request EXCEPT ![queue[n]] = "answered"]
  BY <1>0 DEF DropParked
<1>5. \A t \in Task : request'[t] = "executing" => ahead'[t] = {}
  BY <1>4 DEF Fifo, TypeOK
<1> QED BY <1>3, <1>5 DEF Fifo

LEMMA FifoStep ==
  TypeOK /\ RegistryInv /\ Owners /\ Fifo /\ [Next]_vars => Fifo'
<1> SUFFICES ASSUME TypeOK, RegistryInv, Owners, Fifo, [Next]_vars  PROVE Fifo'
  OBVIOUS
<1>t. \A t \in Task : t[1] \in Id
  BY DEF Task
<1>p. \A t \in Task : request[t] = "none" => t \notin Parked
  BY DEF Owners, NoStrandedSlot
\* Only a new request sees the queue afresh.
<1>h. ASSUME History, \A t \in Task : request[t] = "none" => request'[t] = "none"
      PROVE  ahead' = [t \in Task |-> ahead[t] \intersect Range(queue')]
  BY <1>h DEF History
<1>0. ASSUME History, UNCHANGED <<queue, request>>  PROVE Fifo'
  <2>1. ahead' = [t \in Task |-> ahead[t] \intersect Range(queue')]
    BY <1>0, <1>h
  <2>2. \A n \in DOMAIN queue : queue[n] \in Task
    BY DEF TypeOK
  <2> QED BY <1>0, <2>1, <2>2 DEF Fifo
<1>k. ASSUME NEW i \in Id, KillEntry(i), History  PROVE Fifo'
  <2>1. /\ Drain([running EXCEPT ![i] = NoTask], queue)
        /\ request' = [t \in Task |-> IF t \in Parked \ Range(queue') THEN "executing"
                                      ELSE request[t]]
    BY <1>k DEF KillEntry, AbortRunning, Serve
  <2>2. ahead' = [t \in Task |-> ahead[t] \intersect Range(queue')]
    BY <1>k, <1>h, <1>p, <2>1
  <2> QED BY <2>1, <2>2, FifoDrain
<1>d. ASSUME NEW i \in Id, NEW n \in DOMAIN queue, DropParked(i, n), History
      PROVE  Fifo'
  <2>1. queue[n] \in Parked /\ request' = [request EXCEPT ![queue[n]] = "answered"]
    BY <1>d DEF DropParked, Parked, Range
  <2>2. ahead' = [t \in Task |-> ahead[t] \intersect Range(queue')]
    BY <1>d, <1>h, <1>p, <2>1 DEF TypeOK
  <2> QED BY <1>d, <2>2, FifoDrop
<1>1. ASSUME NEW i \in Id, Post(i)  PROVE Fifo'
  <2> DEFINE t == <<i, attempt[i] + 1>>
  <2>1. t \in Task /\ request[t] = "none" /\ t \notin Parked
    <3>1. t \in Task /\ t[1] = i /\ t[2] > attempt[i]
      BY <1>1, AttemptsIsNat DEF Post, Task, TypeOK
    <3> QED BY <3>1, <1>p DEF Owners
  <2>2. CASE AdmitNow(t) /\ Serve({t}, {})
    <3>1. queue = <<>> /\ queue' = queue
      <4>1. Cardinality(Occupied(running)) < MaxConcurrent
        BY <2>2 DEF AdmitNow, SlotFree
      <4>2. Cardinality(Occupied(running)) \in Nat
        BY OccupiedFinite
      <4> QED BY <2>2, <4>1, <4>2, MaxConcurrentPositive
              DEF AdmitNow, RegistryInv, WorkConserving
    <3>2. /\ Parked = {} /\ DOMAIN queue' = {}
          /\ request' = [u \in Task |-> IF u = t THEN "executing" ELSE request[u]]
      BY <2>2, <3>1 DEF Parked, Range, Serve
    <3>3. \A u \in Task : request'[u] = "executing" => ahead'[u] = {}
      <4> HIDE DEF t
      <4> QED BY <1>1, <2>1, <3>2 DEF Post, History, Fifo
    <3> QED BY <3>2, <3>3 DEF Fifo
  <2>3. CASE Park(t) /\ request' = [request EXCEPT ![t] = "parked"]
    <3> HIDE DEF t
    <3>1. /\ queue' = Append(queue, t) /\ queue \in Seq(Task)
          /\ DOMAIN queue' = 1..(Len(queue) + 1)
          /\ DOMAIN queue = 1..Len(queue) /\ Len(queue) \in Nat
          /\ \A n \in DOMAIN queue : queue'[n] = queue[n] /\ queue[n] # t
          /\ queue'[Len(queue) + 1] = t
      BY <2>1, <2>3 DEF Park, TypeOK, Parked, Range
    <3>2. ahead' = [u \in Task |-> IF u = t THEN Parked
                                   ELSE ahead[u] \intersect Range(queue')]
      BY <1>1, <2>1, <2>3 DEF Post, History, TypeOK
    <3>3. \A u \in Task : request'[u] = "executing" => ahead'[u] = {}
      BY <2>1, <2>3, <3>2 DEF Fifo, TypeOK
    <3>4. ASSUME NEW n \in DOMAIN queue', NEW u \in ahead'[queue'[n]]
          PROVE  \E j \in 1..(n - 1) : queue'[j] = u
      <4>1. CASE n \in DOMAIN queue
        <5>1. u \in ahead[queue[n]]
          BY <3>1, <3>2, <3>4, <4>1
        <5>2. PICK j \in 1..(n - 1) : queue[j] = u
          BY <4>1, <5>1 DEF Fifo
        <5>3. j \in DOMAIN queue
          BY <3>1, <4>1
        <5> QED BY <3>1, <5>2, <5>3
      <4>2. CASE n = Len(queue) + 1
        <5>1. u \in Parked
          BY <2>1, <3>1, <3>2, <3>4, <4>2
        <5>2. PICK j \in DOMAIN queue : queue[j] = u
          BY <5>1 DEF Parked, Range
        <5> QED BY <3>1, <4>2, <5>2
      <4> QED BY <3>1, <4>1, <4>2
    <3> QED BY <3>3, <3>4 DEF Fifo
  <2> QED BY <1>1, <2>2, <2>3 DEF Post, t
<1>2. ASSUME NEW i \in Id, GiveUp(i) \/ Cancel(i)  PROVE Fifo'
  BY <1>2, <1>0 DEF GiveUp, Cancel, server
<1>3. ASSUME NEW i \in Id, AbortOne(i)  PROVE Fifo'
  BY <1>3, <1>k, <1>d DEF AbortOne
<1>4. ASSUME NEW t \in Task, SeeHangup(t)  PROVE Fifo'
  BY <1>4, <1>t, <1>k, <1>d, <1>0 DEF SeeHangup, AbortUnknown, registry, server
<1>5. ASSUME NEW t \in Task, Exit(t) \/ NextCommand(t)  PROVE Fifo'
  BY <1>5, <1>0 DEF Exit, NextCommand
<1>6. ASSUME NEW t \in Task, Finish(t)  PROVE Fifo'
  <2>1. /\ Drain([running EXCEPT ![t[1]] = NoTask], queue)
        /\ request[t] = "executing" /\ History
        /\ request' = [u \in Task |-> IF u = t THEN "answered"
                         ELSE IF u \in Parked \ Range(queue') THEN "executing"
                         ELSE request[u]]
    BY <1>6 DEF Finish, Complete
  <2>2. ahead' = [u \in Task |-> ahead[u] \intersect Range(queue')]
    BY <1>h, <1>p, <2>1
  <2> QED BY <2>1, <2>2, FifoDrain
<1>7. CASE AbortEverything
  <2>1. /\ DOMAIN queue' = {} /\ History
        /\ request' = [t \in Task |-> IF t \in Parked THEN "answered" ELSE request[t]]
    BY <1>7 DEF AbortEverything, AbortAll
  <2>2. ahead' = [t \in Task |-> ahead[t] \intersect Range(queue')]
    BY <1>h, <1>p, <2>1
  <2>3. \A t \in Task : request'[t] = "executing" => ahead'[t] = {}
    BY <2>1, <2>2 DEF Fifo
  <2> QED BY <2>1, <2>3 DEF Fifo
<1>8. CASE UNCHANGED vars
  BY <1>8 DEF vars, server, Fifo
<1> QED BY <1>1, <1>2, <1>3, <1>4, <1>5, <1>6, <1>7, <1>8 DEF Next

\* Admission is first come, first served: nobody executes while a request that was
\* parked before it came is parked still, for any number of calls, retries under one
\* id, hangups and aborts out of the middle of the queue (admit, drain, abort).
THEOREM FirstComeFirstServed == Spec => []FifoAdmission
<1>1. Init => Owners /\ Fifo
  BY DEF Init, RegistryInit, Owners, NoStrandedSlot, Distinct, Parked, Range, Fifo
<1>2. Fifo => FifoAdmission
  BY DEF Fifo, FifoAdmission
<1>3. Spec => []Owners
  BY <1>1, OwnersStep, TypeCorrect, PTL DEF Spec
<1> QED BY <1>1, <1>2, <1>3, FifoStep, RegistryAlways, PTL DEF Spec

----
\* One request per id.  A call made with opts.retries = 0 (runCli) sends its task id
\* once: whoever executes unrevoked then still holds the entry of that id.  With a
\* retry it does not, as the run backend_retry_bound shows.
HoldsItsEntry ==
  \A t \in Task : request[t] = "executing" /\ ~ revoked[t] => running[t[1]] = t

LEMMA OneTaskPerId ==
  ASSUME Attempts = 1, NEW t \in Task, NEW u \in Task, t[1] = u[1]
  PROVE  t = u
<1>1. 1..Attempts = {1}
  OBVIOUS
<1> QED BY <1>1 DEF Task

\* drain() gives each task it takes the entry of its id, and leaves the others alone.
LEMMA DrainEntries ==
  ASSUME Attempts = 1, NEW r \in [Id -> Task \union {NoTask}], NEW q \in Seq(Task),
         Drain(r, q), NEW u \in Task
  PROVE  /\ u \in Range(q) \ Range(queue') => running'[u[1]] = u
         /\ u \notin Range(q) => running'[u[1]] = r[u[1]]
<1>0. u[1] \in Id /\ Len(q) \in Nat /\ \A n \in 1..Len(q) : q[n] \in Task
  BY DEF Task
<1>1. PICK k \in 0..Len(q) : /\ running' = SetPrefix(r, q, k)
                             /\ queue' = SubSeq(q, k + 1, Len(q))
  BY DEF Drain
<1>2. ASSUME u \in Range(q) \ Range(queue')  PROVE running'[u[1]] = u
  <2>1. PICK n \in 1..Len(q) : q[n] = u
    BY <1>2 DEF Range
  <2>2. n <= k
    <3>1. SUFFICES ASSUME n > k  PROVE FALSE
      BY <1>0
    <3>2. /\ DOMAIN queue' = 1..(Len(q) - k) /\ n - k \in 1..(Len(q) - k)
          /\ queue'[n - k] = q[(n - k) + k]
      BY <1>0, <1>1, <3>1
    <3>3. queue'[n - k] = u
      BY <1>0, <2>1, <3>2
    <3> QED BY <1>2, <3>2, <3>3 DEF Range
  <2>3. Carrying(q, k, u[1]) # {}
    BY <1>0, <2>1, <2>2 DEF Carrying
  <2>b. Len(q) \in Nat /\ FromQueue(r, q, k, u[1])
    BY <1>0, <2>3, SetPrefixEntry
  <2>a. PICK m \in 1..k : q[m][1] = u[1] /\ SetPrefix(r, q, k)[u[1]] = q[m]
    BY <2>b DEF FromQueue
  <2>4. m \in 1..k /\ q[m][1] = u[1] /\ running'[u[1]] = q[m]
    BY <1>1, <2>a
  <2>5. m \in 1..Len(q)
    BY <1>0, <2>4
  <2>6. q[m] = u
    BY <1>0, <2>4, <2>5, OneTaskPerId
  <2> QED BY <2>4, <2>6
<1>3. ASSUME u \notin Range(q)  PROVE running'[u[1]] = r[u[1]]
  <2>1. ASSUME NEW j \in 1..k, q[j][1] = u[1]  PROVE FALSE
    <3>1. j \in 1..Len(q)
      BY <1>0
    <3>2. q[j] = u
      BY <1>0, <2>1, <3>1, OneTaskPerId
    <3> QED BY <1>3, <3>1, <3>2 DEF Range
  <2>2. Carrying(q, k, u[1]) = {}
    BY <2>1 DEF Carrying
  <2> QED BY <1>0, <1>1, <2>2 DEF SetPrefix
<1> QED BY <1>2, <1>3

LEMMA HoldsStep ==
  ASSUME Attempts = 1, TypeOK, Owners, HoldsItsEntry, [Next]_vars
  PROVE  HoldsItsEntry'
<1>t. \A t \in Task : t[1] \in Id
  BY DEF Task
<1>p. \A t \in Task : request[t] = "parked" <=> t \in Range(queue)
  BY DEF Owners, NoStrandedSlot, Parked
<1>r. ASSUME NEW i \in Id
      PROVE  [running EXCEPT ![i] = NoTask] \in [Id -> Task \union {NoTask}]
  BY DEF TypeOK
<1>q. queue \in Seq(Task)
  BY DEF TypeOK
<1>0. ASSUME UNCHANGED <<running, request, revoked>>  PROVE HoldsItsEntry'
  BY <1>0 DEF HoldsItsEntry
<1>k. ASSUME NEW i \in Id, KillEntry(i)  PROVE HoldsItsEntry'
  <2> SUFFICES ASSUME NEW u \in Task, request'[u] = "executing", ~ revoked'[u]
               PROVE  running'[u[1]] = u
    BY DEF HoldsItsEntry
  <2>1. /\ Drain([running EXCEPT ![i] = NoTask], queue)
        /\ u \in Range(queue) \ Range(queue') \/ request[u] = "executing"
        /\ ~ revoked[u] /\ u # running[i]
    BY <1>k DEF KillEntry, AbortRunning, Serve, Parked
  <2> DEFINE r == [running EXCEPT ![i] = NoTask]
  <2>2. /\ u \in Range(queue) \ Range(queue') => running'[u[1]] = u
        /\ u \notin Range(queue) => running'[u[1]] = r[u[1]]
    <3>1. r \in [Id -> Task \union {NoTask}] /\ Drain(r, queue)
      BY <1>r, <2>1
    <3> HIDE DEF r
    <3> QED BY <1>q, <3>1, DrainEntries
  <2>3. CASE u \notin Range(queue) \ Range(queue')
    <3>1. running[u[1]] = u /\ u \notin Range(queue)
      BY <1>p, <2>1, <2>3 DEF HoldsItsEntry
    <3>2. u[1] # i
      BY <2>1, <3>1
    <3> QED BY <1>t, <2>2, <3>1, <3>2 DEF TypeOK
  <2> QED BY <2>2, <2>3
<1>d. ASSUME NEW i \in Id, NEW n \in DOMAIN queue, DropParked(i, n)
      PROVE  HoldsItsEntry'
  BY <1>d DEF DropParked, AbortParked, HoldsItsEntry, TypeOK
<1>1. ASSUME NEW i \in Id, Post(i)  PROVE HoldsItsEntry'
  <2> DEFINE t == <<i, attempt[i] + 1>>
  <2>1. t \in Task /\ t[1] = i
    <3>1. attempt[i] \in 0..Attempts /\ attempt[i] < Attempts
      BY <1>1 DEF Post, TypeOK
    <3>2. attempt[i] + 1 \in 1..Attempts
      BY <3>1
    <3> QED BY <3>2 DEF Task
  <2> HIDE DEF t
  <2>2. CASE AdmitNow(t) /\ Serve({t}, {})
    <3> SUFFICES ASSUME NEW u \in Task, request'[u] = "executing", ~ revoked'[u]
                 PROVE  running'[u[1]] = u
      BY DEF HoldsItsEntry
    <3>1. running' = [running EXCEPT ![i] = t]
      BY <2>1, <2>2 DEF AdmitNow, SetEntry
    <3>2. u # t => request[u] = "executing" /\ ~ revoked[u] /\ u[1] # t[1]
      BY <2>1, <2>2, OneTaskPerId DEF Serve
    <3> QED BY <1>t, <2>1, <3>1, <3>2 DEF HoldsItsEntry, TypeOK
  <2>3. CASE Park(t) /\ request' = [request EXCEPT ![t] = "parked"] /\ UNCHANGED revoked
    BY <2>1, <2>3 DEF Park, HoldsItsEntry, TypeOK
  <2> QED BY <1>1, <2>2, <2>3 DEF Post, t
<1>2. ASSUME NEW i \in Id, GiveUp(i) \/ Cancel(i)  PROVE HoldsItsEntry'
  BY <1>2, <1>0 DEF GiveUp, Cancel, server
<1>3. ASSUME NEW i \in Id, AbortOne(i)  PROVE HoldsItsEntry'
  BY <1>3, <1>k, <1>d DEF AbortOne
<1>4. ASSUME NEW t \in Task, SeeHangup(t)  PROVE HoldsItsEntry'
  BY <1>4, <1>t, <1>k, <1>d, <1>0 DEF SeeHangup, AbortUnknown, registry, server
<1>5. ASSUME NEW t \in Task, Exit(t) \/ NextCommand(t)  PROVE HoldsItsEntry'
  BY <1>5, <1>0 DEF Exit, NextCommand
<1>6. ASSUME NEW t \in Task, Finish(t)  PROVE HoldsItsEntry'
  <2> SUFFICES ASSUME NEW u \in Task, request'[u] = "executing", ~ revoked'[u]
               PROVE  running'[u[1]] = u
    BY DEF HoldsItsEntry
  <2>1. /\ Drain([running EXCEPT ![t[1]] = NoTask], queue) /\ u # t
        /\ u \in Range(queue) \ Range(queue') \/ request[u] = "executing"
        /\ ~ revoked[u]
    BY <1>6 DEF Finish, Complete, Parked, TypeOK
  <2> DEFINE r == [running EXCEPT ![t[1]] = NoTask]
  <2>2. /\ u \in Range(queue) \ Range(queue') => running'[u[1]] = u
        /\ u \notin Range(queue) => running'[u[1]] = r[u[1]]
    <3>1. r \in [Id -> Task \union {NoTask}] /\ Drain(r, queue)
      BY <1>r, <1>t, <2>1
    <3> HIDE DEF r
    <3> QED BY <1>q, <3>1, DrainEntries
  <2>3. CASE u \notin Range(queue) \ Range(queue')
    <3>1. running[u[1]] = u /\ u \notin Range(queue)
      BY <1>p, <2>1, <2>3 DEF HoldsItsEntry
    <3>2. u[1] # t[1]
      BY <2>1, OneTaskPerId
    <3> QED BY <1>t, <2>2, <3>1, <3>2 DEF TypeOK
  <2> QED BY <2>2, <2>3
<1>7. CASE AbortEverything
  <2> SUFFICES ASSUME NEW u \in Task, request'[u] = "executing", ~ revoked'[u]
               PROVE  FALSE
    BY DEF HoldsItsEntry
  <2>1. request[u] = "executing" /\ ~ revoked[u] /\ u \notin Range(running)
    BY <1>7 DEF AbortEverything, Parked
  <2>2. running[u[1]] = u /\ u[1] \in DOMAIN running
    BY <1>t, <2>1 DEF HoldsItsEntry, TypeOK
  <2> QED BY <2>1, <2>2 DEF Range
<1>8. CASE UNCHANGED vars
  BY <1>8, <1>0 DEF vars, server
<1> QED BY <1>1, <1>2, <1>3, <1>4, <1>5, <1>6, <1>7, <1>8 DEF Next

\* As many bundles execute, aborted ones apart, as entries are held.
LEMMA ExecutingHoldEntries ==
  ASSUME TypeOK, HoldsItsEntry, SlotsBounded
  PROVE  ConcurrencyBounded
<1> DEFINE f == [t \in Executing |-> t[1]]
<1>1. IsFiniteSet(Occupied(running)) /\ Cardinality(Occupied(running)) \in Nat
  BY OccupiedFinite
<1>2. ASSUME NEW t \in Executing
      PROVE  t \in Task /\ t[1] \in Occupied(running) /\ running[t[1]] = t
  BY NoTaskIsNoTask DEF Executing, HoldsItsEntry, Occupied, Task
<1>3. f \in Injection(Executing, Occupied(running))
  BY <1>2 DEF Injection, IsInjective
<1> HIDE DEF f
<1>4. IsFiniteSet(Executing) /\ Cardinality(Executing) <= Cardinality(Occupied(running))
  BY <1>1, <1>3, FS_Injection
<1>5. Cardinality(Executing) \in Nat
  BY <1>4, FS_CardinalityType
<1> QED BY <1>1, <1>4, <1>5, MaxConcurrentPositive DEF SlotsBounded, ConcurrencyBounded

\* Where no call retries, the documented bound holds as documented: at most
\* maxConcurrent bundles execute at once, aborted ones apart, for any number of
\* calls and slots (docs/backend-task-registry.md; runCli with opts.retries = 0).
THEOREM BoundedWithoutRetries ==
  ASSUME Attempts = 1
  PROVE  Spec => []ConcurrencyBounded
<1>1. Init => Owners /\ HoldsItsEntry
  BY DEF Init, RegistryInit, Owners, NoStrandedSlot, Distinct, Parked, Range, HoldsItsEntry
<1>2. TypeOK /\ Owners /\ HoldsItsEntry /\ [Next]_vars => HoldsItsEntry'
  BY HoldsStep
<1>3. TypeOK /\ HoldsItsEntry /\ SlotsBounded => ConcurrencyBounded
  BY ExecutingHoldEntries
<1> QED BY <1>1, <1>2, <1>3, OwnersStep, TypeCorrect, SlotBound, PTL DEF Spec
====
