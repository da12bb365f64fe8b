---- MODULE CheckpointStore_proofs ----
\* Type correctness of CheckpointStore and its three capacity properties.
EXTENDS CheckpointStore, FiniteSetTheorems, WellFoundedInduction, TLAPS

\* What holds wherever the code runs: a call in progress is about a project, the capacity
\* loop has the length it tested, and whatever is listed has been saved.
CallInv ==
  \A p \in Project :
    /\ call[p].pc # "idle" => call[p].about \in Project
    /\ call[p].pc = "prune" => OverCapacity(call[p].idx)
    /\ call[p].pc = "write" => ~ OverCapacity(call[p].idx)

ListedWasSaved ==
  \A p \in Project :
    /\ index[p] # 0 => saved[p] # 0
    /\ saved[p] <= clock
    /\ call[p].at # 0 => saved[call[p].about] # 0
    /\ \A q \in Project : call[p].idx[q] # 0 => saved[q] # 0

\* A terminal that runs one process at a time.
Terminal == setting = "terminal"

Busy(p) == call[p].pc # "idle"
Phantom(idx, p) == p \in Listed(idx) /\ payload[p] = 0

\* Times order the saves; an entry of the index is the last acknowledged save.
TimesInv ==
  \A p \in Project :
    /\ payload[p] \in {0, saved[p]}
    /\ index[p] \in {0, acked[p]}
    /\ acked[p] <= saved[p]
    /\ saved[p] <= clock
    /\ \A q \in Project : saved[p] = saved[q] /\ saved[p] # 0 => p = q
    /\ \A q \in Project : acked[p] = acked[q] /\ acked[p] # 0 => p = q

\* The only call in progress is a save of the newest payload; the index it holds is the
\* stored one with its own entry in front, less the entries it has pruned.
AloneInv ==
  \A p \in Project : Busy(p) =>
    /\ \A q \in Project : Busy(q) => q = p
    /\ call[p].about = p /\ call[p].at = clock /\ clock # 0
    /\ saved[p] = clock /\ payload[p] = clock /\ acked[p] < clock
    /\ call[p].pc \in {"prune", "write"} =>
         /\ call[p].idx[p] = clock
         /\ \A q \in Project \ {p} : call[p].idx[q] \in {0, index[q]}
    /\ call[p].pc = "prune" => call[p].idx = [index EXCEPT ![p] = clock]

\* An entry without a payload is the oldest one of a full index.
PhantomIsOldest(idx) ==
  \A q \in Project : Phantom(idx, q) =>
    /\ Cardinality(Listed(idx)) >= Max
    /\ \A r \in Listed(idx) : idx[q] <= idx[r]

PhantomsInv ==
  /\ PhantomIsOldest(index)
  /\ \A p \in Project : call[p].pc \in {"prune", "write"} => PhantomIsOldest(call[p].idx)

Kept ==
  \A p \in Project : acked[p] # 0 /\ payload[p] = 0 => Cardinality(SavedSince(acked[p])) >= Max

TerminalInv == TimesInv /\ AloneInv /\ PhantomsInv /\ Kept

----
LEMMA ListedFinite ==
  ASSUME NEW idx
  PROVE  IsFiniteSet(Listed(idx)) /\ Cardinality(Listed(idx)) \in Nat
<1>1. Listed(idx) \subseteq Project
  BY DEF Listed
<1> QED
  BY <1>1, ProjectIsFinite, FS_Subset, FS_CardinalityType

LEMMA SavedFinite ==
  ASSUME NEW t
  PROVE  IsFiniteSet(SavedSince(t)) /\ Cardinality(SavedSince(t)) \in Nat
<1>1. SavedSince(t) \subseteq Project
  BY DEF SavedSince
<1> QED
  BY <1>1, ProjectIsFinite, FS_Subset, FS_CardinalityType

\* A nonempty set of times has a least element.
LEMMA LeastTime ==
  ASSUME NEW T, T \subseteq Nat, T # {}
  PROVE  \E n \in T : \A m \in T : n <= m
<1> DEFINE Earlier == {ss \in Nat \X Nat : ss[1] < ss[2]}
<1>1. IsWellFoundedOn(Earlier, Nat)
  BY NatLessThanWellFounded DEF OpToRel
<1>2. PICK n \in T : \A m \in T : <<m, n>> \notin Earlier
  <2> HIDE DEF Earlier
  <2> QED
    BY <1>1, WFMin
<1>3. \A m \in T : ~ (m < n)
  BY <1>2
<1> QED
  BY <1>3

\* pop() takes an entry that is there, and no other is older.
LEMMA OldestIsListed ==
  ASSUME NEW idx \in [Project -> Time], Listed(idx) # {}
  PROVE  /\ Oldest(idx) \in Listed(idx)
         /\ \A q \in Listed(idx) : idx[Oldest(idx)] <= idx[q]
<1> DEFINE Times == {idx[p] : p \in Listed(idx)}
<1>1. Times \subseteq Nat /\ Times # {}
  BY MaxClockIsNat DEF Listed, Time
<1>2. PICK n \in Times : \A m \in Times : n <= m
  <2> HIDE DEF Times
  <2> QED
    BY <1>1, LeastTime
<1>3. \E p \in Listed(idx) : \A q \in Listed(idx) : idx[p] <= idx[q]
  BY <1>2
<1> QED
  BY <1>3 DEF Oldest

\* A full index is not empty.
LEMMA OverIsNonempty ==
  ASSUME NEW idx, OverCapacity(idx)
  PROVE  Listed(idx) # {}
  BY MaxPositive, FS_EmptySet DEF OverCapacity

\* An entry is added by a save, and taken out by a removal or by the capacity loop.
LEMMA ListedAfter ==
  ASSUME NEW idx \in [Project -> Time], NEW p \in Project, NEW t \in Time
  PROVE  /\ t # 0 => Listed([idx EXCEPT ![p] = t]) = Listed(idx) \cup {p}
         /\ t = 0 => Listed([idx EXCEPT ![p] = t]) = Listed(idx) \ {p}
         /\ [idx EXCEPT ![p] = t] \in [Project -> Time]
  BY DEF Listed

LEMMA NothingIsEmpty == Nothing \in [Project -> Time] /\ Listed(Nothing) = {} /\ ~ OverCapacity(Nothing)
<1>1. Nothing \in [Project -> Time]
  BY MaxClockIsNat DEF Nothing, Time
<1>2. Listed(Nothing) = {}
  BY DEF Nothing, Listed
<1> QED
  BY <1>1, <1>2, FS_EmptySet, MaxPositive DEF OverCapacity

LEMMA IdleType == Idle \in CallState /\ Idle.pc = "idle" /\ Idle.at = 0 /\ Idle.idx = Nothing
  BY NothingIsEmpty, MaxClockIsNat DEF Idle, CallState, Time

LEMMA AfterReadPlace ==
  ASSUME NEW idx
  PROVE  /\ AfterRead(idx) \in {"prune", "write"}
         /\ AfterRead(idx) = "prune" <=> OverCapacity(idx)
  BY DEF AfterRead

----
\* Types, and what a call in progress knows.
TypeInv == TypeOK /\ CallInv

LEMMA TypeInit == Init => TypeInv
  BY NothingIsEmpty, IdleType, SettingsKnown, MaxClockIsNat DEF Init, TypeInv, TypeOK, CallInv, Time

LEMMA TypeStep == TypeInv /\ [Next]_vars => TypeInv'
<1> SUFFICES ASSUME TypeInv, [Next]_vars PROVE TypeInv'
  OBVIOUS
<1> USE MaxClockIsNat
<1>1. CASE UNCHANGED vars
  BY <1>1 DEF vars, TypeInv, TypeOK, CallInv
<1>2. ASSUME NEW p \in Project, WritePayload(p) PROVE TypeInv'
  <2>1. clock + 1 \in Time
    BY <1>2 DEF WritePayload, TypeInv, TypeOK, Time
  <2>2. [Idle EXCEPT !.pc = "read", !.about = p, !.at = clock + 1] \in CallState
    BY <2>1, NothingIsEmpty DEF Idle, CallState
  <2>3. payload' \in [Project -> Time] /\ index' \in [Project -> Time] /\ ~ OverCapacity(index')
    BY <1>2, <2>1, NothingIsEmpty DEF WritePayload, Purged, TypeInv, TypeOK
  <2>4. /\ call' = [call EXCEPT ![p] = [Idle EXCEPT !.pc = "read", !.about = p, !.at = clock + 1]]
        /\ call'[p].pc = "read" /\ call'[p].about = p
    BY <1>2 DEF WritePayload, TypeInv, TypeOK, Idle
  <2>5. call' \in [Project -> CallState] /\ CallInv'
    <3>1. \A q \in Project \ {p} : call'[q] = call[q]
      BY <2>4 DEF TypeInv, TypeOK
    <3> QED
      BY <2>2, <2>4, <3>1 DEF TypeInv, TypeOK, CallInv
  <2>6. saved' \in [Project -> Time]
    BY <1>2, <2>1 DEF WritePayload, TypeInv, TypeOK
  <2> QED
    BY <1>2, <2>1, <2>3, <2>5, <2>6 DEF WritePayload, TypeInv, TypeOK
<1>3. ASSUME NEW p \in Project, QuotaExhausted(p) PROVE TypeInv'
  BY <1>3, NothingIsEmpty DEF QuotaExhausted, Purged, TypeInv, TypeOK, CallInv
<1>4. ASSUME NEW p \in Project, ReadIndex(p) PROVE TypeInv'
  <2> DEFINE idx == [index EXCEPT ![call[p].about] = call[p].at]
  <2>1. call[p] \in CallState /\ call[p].about \in Project
    BY <1>4 DEF ReadIndex, TypeInv, TypeOK, CallInv
  <2>2. idx \in [Project -> Time]
    BY <2>1 DEF TypeInv, TypeOK, CallState
  <2>3. call' = [call EXCEPT ![p].idx = idx, ![p].pc = AfterRead(idx)]
    BY <1>4 DEF ReadIndex
  <2> HIDE DEF idx
  <2>4. call'[p] \in CallState /\ call'[p].about = call[p].about
        /\ call'[p].idx = idx /\ call'[p].pc = AfterRead(idx)
    BY <2>1, <2>2, <2>3, AfterReadPlace DEF TypeInv, TypeOK, CallState
  <2>5. \A q \in Project \ {p} : call'[q] = call[q]
    BY <2>3 DEF TypeInv, TypeOK
  <2> QED
    BY <1>4, <2>1, <2>3, <2>4, <2>5, AfterReadPlace DEF ReadIndex, TypeInv, TypeOK, CallInv
<1>5. ASSUME NEW p \in Project, Prune(p) PROVE TypeInv'
  <2> DEFINE old == Oldest(call[p].idx)
             idx == [call[p].idx EXCEPT ![old] = 0]
  <2>1. call[p] \in CallState /\ call[p].idx \in [Project -> Time] /\ OverCapacity(call[p].idx)
        /\ call[p].about \in Project
    BY <1>5 DEF Prune, TypeInv, TypeOK, CallInv, CallState
  <2>2. old \in Project
    BY <2>1, OverIsNonempty, OldestIsListed DEF Listed
  <2>3. idx \in [Project -> Time]
    BY <2>1, <2>2 DEF Time
  <2>4. /\ call' = [call EXCEPT ![p].idx = idx, ![p].pc = AfterRead(idx)]
        /\ payload' \in {payload, [payload EXCEPT ![old] = 0]}
    BY <1>5 DEF Prune
  <2>5. payload' \in [Project -> Time]
    BY <2>4 DEF TypeInv, TypeOK, Time
  <2> HIDE DEF idx, old
  <2>6. call'[p] \in CallState /\ call'[p].about = call[p].about
        /\ call'[p].idx = idx /\ call'[p].pc = AfterRead(idx)
    BY <2>1, <2>3, <2>4, AfterReadPlace DEF TypeInv, TypeOK, CallState
  <2>7. \A q \in Project \ {p} : call'[q] = call[q]
    BY <2>4 DEF TypeInv, TypeOK
  <2>8. call' \in [Project -> CallState] /\ CallInv'
    <3>1. call' \in [Project -> CallState]
      BY <2>4, <2>6, <2>7 DEF TypeInv, TypeOK
    <3>2. ~ OverCapacity(idx) => call'[p].pc = "write"
      BY <2>6, AfterReadPlace
    <3> QED
      BY <2>1, <2>6, <2>7, <3>1, AfterReadPlace DEF TypeInv, CallInv
  <2>9. UNCHANGED <<setting, clock, index, saved, acked>>
    BY <1>5 DEF Prune
  <2> QED
    BY <2>5, <2>8, <2>9 DEF TypeInv, TypeOK
<1>6. ASSUME NEW p \in Project, WriteIndex(p) \/ WriteIndexFails(p) PROVE TypeInv'
  <2>1. call[p] \in CallState /\ ~ OverCapacity(call[p].idx)
    BY <1>6 DEF WriteIndex, WriteIndexFails, TypeInv, TypeOK, CallInv
  <2>2. payload' \in [Project -> Time] /\ index' \in [Project -> Time] /\ ~ OverCapacity(index')
    BY <1>6, <2>1, NothingIsEmpty DEF WriteIndex, WriteIndexFails, Purged, TypeInv, TypeOK, CallState
  <2>3. call' = [call EXCEPT ![p] = Idle] /\ acked' \in [Project -> Time]
    BY <1>6, <2>1 DEF WriteIndex, WriteIndexFails, TypeInv, TypeOK, CallState
  <2>4. call' \in [Project -> CallState] /\ CallInv'
    <3>1. call'[p] = Idle /\ \A q \in Project \ {p} : call'[q] = call[q]
      BY <2>3 DEF TypeInv, TypeOK
    <3>2. call' \in [Project -> CallState]
      BY <2>3, IdleType DEF TypeInv, TypeOK
    <3> QED
      BY <3>1, <3>2, IdleType DEF TypeInv, CallInv
  <2>5. UNCHANGED <<setting, clock, saved>>
    BY <1>6 DEF WriteIndex, WriteIndexFails
  <2> QED
    BY <2>2, <2>3, <2>4, <2>5 DEF TypeInv, TypeOK
<1>7. ASSUME NEW p \in Project, Crash(p) PROVE TypeInv'
  BY <1>7, IdleType DEF Crash, TypeInv, TypeOK, CallInv
<1>8. ASSUME NEW p \in Project, NEW q \in Project, RemovePayload(p, q) PROVE TypeInv'
  <2>1. [Idle EXCEPT !.pc = "read", !.about = q] \in CallState
    <3>1. 0 \in Time
      BY DEF Time
    <3> QED
      BY <3>1, NothingIsEmpty DEF Idle, CallState
  <2>2. payload' \in [Project -> Time]
    BY <1>8 DEF RemovePayload, TypeInv, TypeOK, Time
  <2>3. /\ call' = [call EXCEPT ![p] = [Idle EXCEPT !.pc = "read", !.about = q]]
        /\ call'[p].pc = "read" /\ call'[p].about = q
    BY <1>8 DEF RemovePayload, TypeInv, TypeOK, Idle
  <2>4. call' \in [Project -> CallState] /\ CallInv'
    <3>1. \A r \in Project \ {p} : call'[r] = call[r]
      BY <2>3 DEF TypeInv, TypeOK
    <3> QED
      BY <2>1, <2>3, <3>1 DEF TypeInv, TypeOK, CallInv
  <2> QED
    BY <1>8, <2>2, <2>4 DEF RemovePayload, TypeInv, TypeOK
<1> QED
  BY <1>1, <1>2, <1>3, <1>4, <1>5, <1>6, <1>7, <1>8 DEF Next, SaveStep

\* Type correctness, and the index on storage within its capacity, wherever the manager
\* runs and however its calls interleave, fail or die.
THEOREM TypeCorrect == Spec => []TypeOK
<1>1. Spec => []TypeInv
  BY TypeInit, TypeStep, PTL DEF Spec
<1>2. TypeInv => TypeOK
  BY DEF TypeInv
<1> QED
  BY <1>1, <1>2, PTL

----
\* Nothing is lost below capacity: who is listed has been saved, and the capacity loop
\* runs only over more than Max entries.
CapacityInv == TypeInv /\ ListedWasSaved /\ NothingLostBelowCapacity

LEMMA CapacityInit == Init => CapacityInv
  BY TypeInit DEF Init, CapacityInv, ListedWasSaved, NothingLostBelowCapacity, Nothing, Idle

\* The set of projects that have been saved only grows, and pruning needs more than Max.
LEMMA SavedGrows ==
  ASSUME TypeOK, TypeOK', \A q \in Project : saved[q] <= saved'[q], NEW t \in Time
  PROVE  Cardinality(SavedSince(t)) <= Cardinality(SavedSince(t)')
<1>1. SavedSince(t) \subseteq SavedSince(t)'
  BY MaxClockIsNat DEF SavedSince, TypeOK, Time
<1>2. IsFiniteSet(SavedSince(t)')
  <2>1. SavedSince(t)' \subseteq Project
    BY DEF SavedSince
  <2> QED
    BY <2>1, ProjectIsFinite, FS_Subset
<1> QED
  BY <1>1, <1>2, FS_Subset

LEMMA CapacityStep == CapacityInv /\ [Next]_vars => CapacityInv'
<1> SUFFICES ASSUME CapacityInv, [Next]_vars PROVE CapacityInv'
  OBVIOUS
<1>0. TypeInv /\ TypeInv' /\ ListedWasSaved /\ NothingLostBelowCapacity
  BY TypeStep DEF CapacityInv
<1>a. TypeOK /\ TypeOK' /\ CallInv /\ CallInv'
  BY <1>0 DEF TypeInv
<1> SUFFICES ListedWasSaved' /\ NothingLostBelowCapacity'
  BY <1>0 DEF CapacityInv
<1> USE MaxClockIsNat
<1>1. CASE UNCHANGED vars
  BY <1>0, <1>1 DEF vars, ListedWasSaved, NothingLostBelowCapacity, SavedSince
<1>2. ASSUME NEW p \in Project, WritePayload(p) PROVE ListedWasSaved' /\ NothingLostBelowCapacity'
  <2>1. /\ saved' = [saved EXCEPT ![p] = clock + 1] /\ clock + 1 # 0 /\ clock + 1 \in Nat
        /\ setting' = setting
        /\ call' = [call EXCEPT ![p] = [Idle EXCEPT !.pc = "read", !.about = p, !.at = clock + 1]]
    BY <1>2, <1>a DEF WritePayload, TypeOK, Time
  <2>2. call'[p].about = p /\ call'[p].idx = Nothing /\ \A q \in Project \ {p} : call'[q] = call[q]
    BY <2>1, <1>a DEF TypeOK, Idle
  <2>3. \A q \in Project : saved[q] # 0 => saved'[q] # 0
    BY <2>1, <1>a DEF TypeOK
  <2>4. \A q \in Project : index'[q] # 0 => saved'[q] # 0
    BY <1>0, <1>2, <2>3 DEF WritePayload, Purged, ListedWasSaved, Nothing
  <2>5. saved'[p] # 0 /\ \A q \in Project : Nothing[q] = 0
    BY <2>1, <1>a DEF TypeOK, Nothing
  <2>6. ListedWasSaved'
    <3>1. ASSUME NEW q \in Project, q # p, call'[q].at # 0 PROVE saved'[call'[q].about] # 0
      BY <2>1, <2>2, <2>5, <3>1, <1>0, <1>a DEF ListedWasSaved, TypeOK, CallInv
    <3>2. \A q \in Project : saved'[q] <= clock'
      BY <1>2, <2>1, <1>0, <1>a DEF WritePayload, ListedWasSaved, TypeOK, Time
    <3>3. ASSUME NEW r \in Project, NEW q \in Project, call'[r].idx[q] # 0 PROVE saved'[q] # 0
      <4>1. r # p
        BY <2>2, <2>5, <3>3
      <4> QED
        BY <4>1, <2>2, <2>3, <3>3, <1>0 DEF ListedWasSaved
    <3>4. ASSUME NEW q \in Project, call'[q].at # 0 PROVE saved'[call'[q].about] # 0
      BY <2>2, <2>5, <3>1, <3>4
    <3> QED
      BY <2>4, <3>2, <3>3, <3>4 DEF ListedWasSaved
  <2>7. ASSUME setting # "browser" PROVE NothingLostBelowCapacity'
    <3>1. payload' = [payload EXCEPT ![p] = clock + 1]
      BY <1>2, <2>7 DEF WritePayload, Purged
    <3>2. \A q \in Project : saved[q] <= saved'[q]
      BY <2>1, <1>0, <1>a DEF ListedWasSaved, TypeOK, Time
    <3>3. Cardinality(SavedSince(0)) <= Cardinality(SavedSince(0)')
      BY <3>2, <1>a, SavedGrows DEF Time
    <3>4. Cardinality(SavedSince(0)) \in Nat /\ Cardinality(SavedSince(0)') \in Nat
      BY ProjectIsFinite, FS_Subset, FS_CardinalityType DEF SavedSince
    <3>5. \A q \in Project : saved'[q] # 0 /\ payload'[q] = 0 => q # p /\ saved[q] # 0 /\ payload[q] = 0
      BY <3>1, <2>1, <1>a DEF TypeOK
    <3> QED
      BY <3>3, <3>4, <3>5, <2>7, <1>0, MaxPositive DEF NothingLostBelowCapacity
  <2> QED
    BY <2>1, <2>6, <2>7 DEF NothingLostBelowCapacity
<1>3. ASSUME NEW p \in Project, QuotaExhausted(p) PROVE ListedWasSaved' /\ NothingLostBelowCapacity'
  BY <1>3, <1>0 DEF QuotaExhausted, Purged, ListedWasSaved, NothingLostBelowCapacity, Nothing
<1>4. ASSUME NEW p \in Project, ReadIndex(p) PROVE ListedWasSaved' /\ NothingLostBelowCapacity'
  <2> DEFINE idx == [index EXCEPT ![call[p].about] = call[p].at]
  <2>1. call[p].about \in Project
    BY <1>4, <1>a DEF ReadIndex, CallInv
  <2>2. \A q \in Project : idx[q] # 0 => saved[q] # 0
    BY <2>1, <1>0, <1>a DEF ListedWasSaved, TypeOK
  <2>3. call' = [call EXCEPT ![p].idx = idx, ![p].pc = AfterRead(idx)]
    BY <1>4 DEF ReadIndex
  <2> HIDE DEF idx
  <2>4. \A q \in Project : call'[q].at = call[q].at /\ call'[q].about = call[q].about
    BY <2>3, <1>a DEF TypeOK, CallState
  <2>5. call'[p].idx = idx /\ \A q \in Project \ {p} : call'[q] = call[q]
    BY <2>3, <1>a DEF TypeOK, CallState
  <2> QED
    <3>1. \A r, q \in Project : call'[r].idx[q] # 0 => saved[q] # 0
      <4>1. ASSUME NEW r \in Project, NEW q \in Project, call'[r].idx[q] # 0 PROVE saved[q] # 0
        <5>1. CASE r = p
          BY <2>2, <2>5, <4>1, <5>1
        <5>2. CASE r # p
          BY <2>5, <4>1, <5>2, <1>0 DEF ListedWasSaved
        <5> QED
          BY <5>1, <5>2
      <4> QED
        BY <4>1
    <3>2. UNCHANGED <<setting, clock, payload, index, saved>>
      BY <1>4 DEF ReadIndex
    <3>3. ListedWasSaved'
      BY <2>4, <3>1, <3>2, <1>0 DEF ListedWasSaved
    <3> QED
      BY <3>2, <3>3, <1>0 DEF NothingLostBelowCapacity, SavedSince
<1>5. ASSUME NEW p \in Project, Prune(p) PROVE ListedWasSaved' /\ NothingLostBelowCapacity'
  <2> DEFINE old == Oldest(call[p].idx)
             idx == [call[p].idx EXCEPT ![old] = 0]
  <2>1. call[p].idx \in [Project -> Time] /\ OverCapacity(call[p].idx)
    BY SMTT(30), <1>5, <1>a DEF Prune, TypeOK, CallInv, CallState
  <2>2. \A q \in Project : idx[q] # 0 => saved[q] # 0
    BY <2>1, <1>0 DEF ListedWasSaved
  <2>3. call' = [call EXCEPT ![p].idx = idx, ![p].pc = AfterRead(idx)]
        /\ payload' \in {payload, [payload EXCEPT ![old] = 0]}
        /\ UNCHANGED <<setting, clock, index, saved>>
    BY <1>5 DEF Prune
  <2> HIDE DEF idx, old
  <2>4. \A q \in Project : call'[q].at = call[q].at /\ call'[q].about = call[q].about
    BY <2>3, <1>a DEF TypeOK, CallState
  <2>5. call'[p].idx = idx /\ \A q \in Project \ {p} : call'[q] = call[q]
    BY <2>3, <1>a DEF TypeOK, CallState
  <2>6. ListedWasSaved'
    <3>1. \A r, q \in Project : call'[r].idx[q] # 0 => saved[q] # 0
      <4>1. ASSUME NEW r \in Project, NEW q \in Project, call'[r].idx[q] # 0 PROVE saved[q] # 0
        <5>1. CASE r = p
          BY <2>2, <2>5, <4>1, <5>1
        <5>2. CASE r # p
          BY <2>5, <4>1, <5>2, <1>0 DEF ListedWasSaved
        <5> QED
          BY <5>1, <5>2
      <4> QED
        BY <4>1
    <3> QED
      BY <2>3, <2>4, <3>1, <1>0 DEF ListedWasSaved
  <2>7. Listed(call[p].idx) \subseteq SavedSince(0)
    BY <1>0, <1>a DEF Listed, SavedSince, ListedWasSaved, TypeOK, Time
  <2>8. Cardinality(Listed(call[p].idx)) <= Cardinality(SavedSince(0))
    BY <2>7, SavedFinite, FS_Subset
  <2>9. SavedSince(0)' = SavedSince(0)
    BY <2>3 DEF SavedSince
  <2>10. Cardinality(SavedSince(0)) > Max
    <3>1. Cardinality(SavedSince(0)) \in Nat /\ Cardinality(Listed(call[p].idx)) \in Nat
      BY SavedFinite, ListedFinite
    <3> QED
      BY <2>1, <2>8, <3>1, MaxPositive DEF OverCapacity
  <2> QED
    BY <2>6, <2>9, <2>10 DEF NothingLostBelowCapacity
<1>6. ASSUME NEW p \in Project, WriteIndex(p) \/ WriteIndexFails(p)
      PROVE  ListedWasSaved' /\ NothingLostBelowCapacity'
  <2>1. /\ call' = [call EXCEPT ![p] = Idle]
        /\ index' \in {index, call[p].idx, Nothing}
        /\ UNCHANGED <<setting, clock, saved>>
        /\ setting # "browser" => payload' = payload
    BY <1>6 DEF WriteIndex, WriteIndexFails, Purged
  <2>2. call'[p].at = 0 /\ call'[p].idx = Nothing /\ \A q \in Project \ {p} : call'[q] = call[q]
    BY <2>1, <1>a DEF TypeOK, Idle
  <2> QED
    BY <2>1, <2>2, <1>0 DEF ListedWasSaved, NothingLostBelowCapacity, SavedSince, Nothing
<1>7. ASSUME NEW p \in Project, Crash(p) PROVE ListedWasSaved' /\ NothingLostBelowCapacity'
  <2>1. call'[p].at = 0 /\ call'[p].idx = Nothing /\ \A q \in Project \ {p} : call'[q] = call[q]
    BY <1>7, <1>a DEF Crash, TypeOK, Idle
  <2> QED
    BY <1>7, <2>1, <1>0 DEF Crash, ListedWasSaved, NothingLostBelowCapacity, SavedSince, Nothing
<1>8. ASSUME NEW p \in Project, NEW q \in Project, RemovePayload(p, q)
      PROVE  ListedWasSaved' /\ NothingLostBelowCapacity'
  <2>1. call'[p].at = 0 /\ call'[p].idx = Nothing /\ \A r \in Project \ {p} : call'[r] = call[r]
    BY <1>8, <1>a DEF RemovePayload, TypeOK, Idle
  <2> QED
    BY <1>8, <2>1, <1>0 DEF RemovePayload, ListedWasSaved, NothingLostBelowCapacity, Nothing
<1> QED
  BY <1>1, <1>2, <1>3, <1>4, <1>5, <1>6, <1>7, <1>8 DEF Next, SaveStep

\* Whatever the interleaving of terminal processes, crashes and failed writes: a checkpoint
\* that is gone was one of more than Max projects.
THEOREM CapacityIsRespected == Spec => []NothingLostBelowCapacity
<1>1. Spec => []CapacityInv
  BY CapacityInit, CapacityStep, PTL DEF Spec
<1>2. CapacityInv => NothingLostBelowCapacity
  BY DEF CapacityInv
<1> QED
  BY <1>1, <1>2, PTL

----
\* One terminal process at a time: which checkpoints are kept.

LEMMA TerminalInit == Init => TerminalInv
  BY FS_EmptySet DEF Init, TerminalInv, TimesInv, AloneInv, PhantomsInv, PhantomIsOldest,
                     Phantom, Listed, Kept, Busy, Nothing, Idle

\* The state before and after a step of a terminal.
Before == TypeOK /\ TypeOK' /\ CallInv /\ Terminal /\ TerminalInv

LEMMA TerminalWritePayload ==
  ASSUME Before, NEW p \in Project, WritePayload(p)
  PROVE  TerminalInv'
<1> USE MaxClockIsNat
<1>0. TypeOK /\ TypeOK' /\ TimesInv /\ AloneInv /\ PhantomsInv /\ Kept
  BY DEF Before, TerminalInv
<1>1. /\ payload' = [payload EXCEPT ![p] = clock + 1]
      /\ saved' = [saved EXCEPT ![p] = clock + 1]
      /\ clock' = clock + 1 /\ clock \in Nat
      /\ UNCHANGED <<index, acked>>
      /\ call' = [call EXCEPT ![p] = [Idle EXCEPT !.pc = "read", !.about = p, !.at = clock + 1]]
  BY <1>0 DEF WritePayload, Purged, Before, Terminal, TypeOK, Time
<1>2. \A q \in Project : call[q].pc = "idle"
  BY DEF WritePayload, MayStart, Before, Terminal
<1>3. /\ call'[p].pc = "read" /\ call'[p].about = p /\ call'[p].at = clock + 1
      /\ \A q \in Project \ {p} : call'[q] = call[q]
  BY <1>0, <1>1 DEF TypeOK, Idle
<1>4. /\ payload'[p] = clock + 1 /\ saved'[p] = clock + 1
      /\ \A q \in Project \ {p} : payload'[q] = payload[q] /\ saved'[q] = saved[q]
  BY <1>0, <1>1 DEF TypeOK
<1>5. \A q \in Project : /\ saved[q] \in Nat /\ saved[q] <= clock
                         /\ acked[q] \in Nat /\ acked[q] <= saved[q]
  BY <1>0 DEF TypeOK, TimesInv, Time
<1>6. TimesInv'
  <2>1. \A q \in Project : acked'[q] <= saved'[q] /\ saved'[q] <= clock'
    BY <1>1, <1>4, <1>5
  <2>2. \A q, r \in Project : saved'[q] = saved'[r] /\ saved'[q] # 0 => q = r
    <3>1. ASSUME NEW q \in Project, q # p PROVE saved'[q] # saved'[p]
      BY <1>1, <1>4, <1>5, <3>1
    <3>2. \A q, r \in Project \ {p} : saved'[q] = saved'[r] /\ saved'[q] # 0 => q = r
      BY <1>0, <1>4 DEF TimesInv
    <3> QED
      BY <3>1, <3>2
  <2> QED
    BY <1>0, <1>1, <1>4, <2>1, <2>2 DEF TimesInv
<1>7. AloneInv'
  BY <1>1, <1>2, <1>3, <1>4, <1>5 DEF AloneInv, Busy
<1>8. PhantomsInv'
  <2>1. ASSUME NEW q \in Project, Phantom(index, q)' PROVE Phantom(index, q)
    BY <1>1, <1>4, <2>1 DEF Phantom, Listed
  <2>2. PhantomIsOldest(index)'
    BY <1>0, <1>1, <2>1 DEF PhantomsInv, PhantomIsOldest, Listed
  <2> QED
    BY <1>2, <1>3, <2>2 DEF PhantomsInv
<1>9. Kept'
  <2>1. \A q \in Project : saved[q] <= saved'[q]
    BY <1>1, <1>4, <1>5
  <2>2. ASSUME NEW q \in Project, acked'[q] # 0, payload'[q] = 0
        PROVE  Cardinality(SavedSince(acked[q])') >= Max
    <3>1. Cardinality(SavedSince(acked[q])) >= Max
      BY <1>0, <1>1, <1>4, <2>2 DEF Kept
    <3> DEFINE t == acked[q]
    <3>2. SavedSince(t) \subseteq {r \in Project : saved'[r] > t}
      BY <2>1, <1>0, <1>5 DEF SavedSince, TypeOK, Time
    <3>3. IsFiniteSet({r \in Project : saved'[r] > t})
      BY ProjectIsFinite, FS_Subset
    <3>4. Cardinality(SavedSince(t)) <= Cardinality({r \in Project : saved'[r] > t})
      BY <3>2, <3>3, FS_Subset
    <3>5. SavedSince(acked[q])' = {r \in Project : saved'[r] > t}
      BY <1>1 DEF SavedSince
    <3>6. Cardinality({r \in Project : saved'[r] > t}) \in Nat
      BY <3>3, FS_CardinalityType
    <3> QED
      BY <3>1, <3>4, <3>5, <3>6, SavedFinite, MaxPositive
  <2> QED
    BY <2>2 DEF Kept
<1> QED
  BY <1>6, <1>7, <1>8, <1>9 DEF TerminalInv

LEMMA TerminalReadIndex ==
  ASSUME Before, NEW p \in Project, ReadIndex(p)
  PROVE  TerminalInv'
<1> USE MaxClockIsNat
<1> DEFINE idx == [index EXCEPT ![p] = clock]
<1>0. TypeOK /\ TypeOK' /\ TimesInv /\ AloneInv /\ PhantomsInv /\ Kept
  BY DEF Before, TerminalInv
<1>1. /\ call[p].about = p /\ call[p].at = clock /\ payload[p] = clock /\ saved[p] = clock
      /\ acked[p] < clock /\ clock # 0 /\ clock \in Nat
      /\ \A q \in Project : Busy(q) => q = p
  <2>1. Busy(p)
    BY DEF ReadIndex, Busy
  <2>2. clock \in Nat
    BY <1>0 DEF TypeOK, Time
  <2> QED
    BY <1>0, <2>1, <2>2 DEF AloneInv
<1>2. call' = [call EXCEPT ![p].idx = idx, ![p].pc = AfterRead(idx)]
  BY <1>1 DEF ReadIndex
<1>3. /\ idx[p] = clock /\ \A q \in Project \ {p} : idx[q] = index[q]
      /\ idx \in [Project -> Time]
  BY <1>0 DEF TypeOK
<1>4. UNCHANGED <<setting, clock, payload, index, saved, acked>>
  BY DEF ReadIndex
<1> HIDE DEF idx
<1>5. /\ call'[p].idx = idx /\ call'[p].pc = AfterRead(idx)
      /\ call'[p].about = p /\ call'[p].at = clock
      /\ \A q \in Project \ {p} : call'[q] = call[q]
  BY <1>0, <1>1, <1>2 DEF TypeOK, CallState
<1>6. AloneInv'
  <2>1. idx = [index EXCEPT ![p] = clock]
    BY DEF idx
  <2>2. \A q \in Project : Busy(q)' => q = p
    BY <1>1, <1>5 DEF Busy
  <2>3. /\ call'[p].about = p /\ call'[p].at = clock' /\ clock' # 0
        /\ saved'[p] = clock' /\ payload'[p] = clock' /\ acked'[p] < clock'
        /\ call'[p].idx[p] = clock'
        /\ \A q \in Project \ {p} : call'[p].idx[q] \in {0, index'[q]}
        /\ call'[p].idx = [index' EXCEPT ![p] = clock']
    BY <1>1, <1>3, <1>4, <1>5, <2>1
  <2> QED
    BY <2>2, <2>3 DEF AloneInv
<1>7. PhantomsInv'
  <2>1. PhantomIsOldest(index)'
    BY <1>0, <1>4 DEF PhantomsInv, PhantomIsOldest, Phantom, Listed
  <2>2. ASSUME NEW q \in Project, Phantom(idx, q)
        PROVE  /\ Cardinality(Listed(idx)) >= Max
               /\ \A r \in Listed(idx) : idx[q] <= idx[r]
    <3>1. q # p /\ Phantom(index, q)
      BY <1>1, <1>3, <2>2 DEF Phantom, Listed
    <3>2. Cardinality(Listed(index)) >= Max /\ \A r \in Listed(index) : index[q] <= index[r]
      BY <1>0, <3>1 DEF PhantomsInv, PhantomIsOldest
    <3>3. Listed(index) \subseteq Listed(idx)
      BY <1>1, <1>3 DEF Listed
    <3>4. Cardinality(Listed(index)) <= Cardinality(Listed(idx))
      BY <3>3, ListedFinite, FS_Subset
    <3>5. index[q] <= clock
      BY <1>0 DEF TimesInv, TypeOK, Time
    <3> QED
      BY <1>1, <1>3, <3>1, <3>2, <3>4, <3>5, ListedFinite, MaxPositive DEF Listed
  <2>3. PhantomIsOldest(idx)'
    <3>1. idx' = idx
      BY <1>4 DEF idx
    <3> QED
      BY <2>2, <1>4, <3>1 DEF PhantomIsOldest, Phantom, Listed
  <2>4. ASSUME NEW q \in Project, call'[q].pc \in {"prune", "write"} PROVE PhantomIsOldest(call[q].idx)'
    <3>1. q = p
      BY <1>1, <1>5, <2>4 DEF Busy
    <3> QED
      BY <3>1, <1>4, <1>5, <2>3 DEF PhantomIsOldest, Phantom, Listed, idx
  <2> QED
    BY <2>1, <2>4 DEF PhantomsInv
<1> QED
  BY <1>0, <1>4, <1>6, <1>7 DEF TerminalInv, TimesInv, Kept, SavedSince

LEMMA TerminalPrune ==
  ASSUME Before, NEW p \in Project, Prune(p)
  PROVE  TerminalInv'
<1> USE MaxClockIsNat
<1> DEFINE idx == call[p].idx
           old == Oldest(idx)
           rest == [idx EXCEPT ![old] = 0]
<1>0. TypeOK /\ TypeOK' /\ CallInv /\ TimesInv /\ AloneInv /\ PhantomsInv /\ Kept
  BY DEF Before, TerminalInv
<1>1. /\ idx \in [Project -> Time] /\ OverCapacity(idx)
      /\ idx = [index EXCEPT ![p] = clock]
      /\ payload[p] = clock /\ saved[p] = clock /\ clock # 0 /\ clock \in Nat
      /\ call[p].about = p /\ call[p].at = clock /\ acked[p] < clock
      /\ \A q \in Project : Busy(q) => q = p
  <2>1. Busy(p) /\ call[p].pc = "prune"
    BY DEF Prune, Busy
  <2>2. clock \in Nat /\ idx \in [Project -> Time]
    BY <1>0 DEF TypeOK, CallState, Time
  <2> QED
    BY <1>0, <2>1, <2>2 DEF AloneInv, CallInv
<1>2. /\ call' = [call EXCEPT ![p].idx = rest, ![p].pc = AfterRead(rest)]
      /\ payload' \in {payload, [payload EXCEPT ![old] = 0]}
      /\ UNCHANGED <<setting, clock, index, saved, acked>>
  BY DEF Prune
<1>3. old \in Listed(idx) /\ \A q \in Listed(idx) : idx[old] <= idx[q]
  BY <1>1, OverIsNonempty, OldestIsListed
<1>4. idx[p] = clock /\ \A q \in Project \ {p} : idx[q] = index[q]
  BY <1>0, <1>1 DEF TypeOK
<1>5. /\ call'[p].idx = rest /\ call'[p].pc = AfterRead(rest)
      /\ call'[p].about = p /\ call'[p].at = clock
      /\ \A q \in Project \ {p} : call'[q] = call[q]
  BY <1>0, <1>1, <1>2 DEF TypeOK, CallState
<1> HIDE DEF idx, old, rest
\* The entries of others are older than the one that is being saved.
<1>6. \A q \in Project \ {p} : idx[q] # 0 => /\ idx[q] = acked[q] /\ idx[q] \in Nat
                                             /\ acked[q] <= saved[q]
                                             /\ saved[q] \in Nat /\ saved[q] < clock
  <2> SUFFICES ASSUME NEW q \in Project, q # p, idx[q] # 0
               PROVE  /\ idx[q] = acked[q] /\ idx[q] \in Nat
                      /\ acked[q] <= saved[q]
                      /\ saved[q] \in Nat /\ saved[q] < clock
    OBVIOUS
  <2>1. index[q] = idx[q] /\ index[q] \in {0, acked[q]} /\ acked[q] <= saved[q] /\ saved[q] <= clock
    BY <1>0, <1>4 DEF TimesInv
  <2>2. acked[q] \in Nat /\ saved[q] \in Nat
    BY <1>0 DEF TypeOK, Time
  <2>3. saved[q] # saved[p]
    BY <1>0, <1>1 DEF TimesInv
  <2> QED
    BY <1>1, <2>1, <2>2, <2>3
<1>7. /\ IsFiniteSet(Listed(idx) \ {old})
      /\ Cardinality(Listed(idx) \ {old}) = Cardinality(Listed(idx)) - 1
      /\ Cardinality(Listed(idx) \ {old}) >= Max
  <2>1. IsFiniteSet(Listed(idx)) /\ Cardinality(Listed(idx)) \in Nat
    BY ListedFinite
  <2>2. /\ IsFiniteSet(Listed(idx) \ {old})
        /\ Cardinality(Listed(idx) \ {old}) = Cardinality(Listed(idx)) - 1
    BY <1>3, <2>1, FS_RemoveElement
  <2> QED
    BY <1>1, <2>1, <2>2, MaxPositive DEF OverCapacity
<1>8. old # p /\ old \in Project
  <2>1. PICK r \in Listed(idx) \ {old} : TRUE
    BY <1>7, FS_EmptySet, MaxPositive
  <2>2. ASSUME old = p PROVE FALSE
    <3>1. r \in Project \ {p} /\ idx[r] # 0
      BY <2>1, <2>2 DEF Listed
    <3>2. idx[r] = acked[r] /\ acked[r] <= saved[r] /\ saved[r] < clock
          /\ idx[r] \in Nat /\ saved[r] \in Nat
      BY <1>6, <3>1
    <3>3. clock <= idx[r]
      BY <1>3, <1>4, <2>1, <2>2
    <3> QED
      BY <1>1, <3>2, <3>3
  <2> QED
    BY <1>3, <2>2 DEF Listed
<1>9. p \notin Listed(index) /\ old \in Listed(index) /\ Listed(rest) = Listed(idx) \ {old}
  <2>1. Listed(idx) = Listed(index) \cup {p}
    BY <1>1, <1>4 DEF Listed
  <2>2. p \notin Listed(index)
    <3>1. ~ OverCapacity(index)
      BY <1>0 DEF TypeOK
    <3>2. p \in Listed(index) => Listed(idx) = Listed(index)
      BY <2>1
    <3> QED
      BY <1>1, <3>1, <3>2 DEF OverCapacity
  <2>3. Listed(rest) = Listed(idx) \ {old}
    <3>1. 0 \in Time
      BY DEF Time
    <3> QED
      BY <1>1, <1>8, <3>1, ListedAfter DEF rest
  <2>4. old \in Listed(index)
    BY <1>3, <1>8, <2>1
  <2> QED
    BY <2>2, <2>3, <2>4
<1>10. Cardinality(Listed(index)) >= Max /\ Cardinality(Listed(index)) \in Nat
  <2>1. Cardinality(Listed(index) \cup {p}) = Cardinality(Listed(index)) + 1
    BY <1>9, ListedFinite, FS_AddElement
  <2>2. Listed(idx) = Listed(index) \cup {p}
    BY <1>1, <1>4 DEF Listed
  <2>3. Cardinality(Listed(index)) \in Nat
    BY ListedFinite
  <2>4. Cardinality(Listed(index)) + 1 > Max
    BY <1>1, <2>1, <2>2 DEF OverCapacity
  <2> QED
    BY <2>3, <2>4, MaxPositive
<1>11. AfterRead(rest) = "write"
  <2>1. ~ OverCapacity(rest)
    <3>1. Cardinality(Listed(index) \cup {p}) = Cardinality(Listed(index)) + 1
      BY <1>9, ListedFinite, FS_AddElement
    <3>2. Cardinality(Listed(rest)) = Cardinality(Listed(idx)) - 1
      BY <1>7, <1>9
    <3>3. Listed(idx) = Listed(index) \cup {p}
      BY <1>1, <1>4 DEF Listed
    <3>4. ~ OverCapacity(index)
      BY <1>0 DEF TypeOK
    <3> QED
      BY <3>1, <3>2, <3>3, <3>4, ListedFinite, MaxPositive DEF OverCapacity
  <2> QED
    BY <2>1 DEF AfterRead
<1>12. /\ payload'[p] = clock /\ \A q \in Project \ {old} : payload'[q] = payload[q]
       /\ payload'[old] \in {0, payload[old]}
  BY <1>0, <1>1, <1>2, <1>8 DEF TypeOK
<1>13. /\ rest[p] = clock /\ rest[old] = 0
       /\ \A q \in Project \ {p, old} : rest[q] = idx[q]
  BY <1>1, <1>4, <1>8 DEF rest
<1>14. TimesInv'
  <2>1. \A q \in Project : payload'[q] \in {0, saved[q]}
    BY <1>0, <1>12 DEF TimesInv
  <2> QED
    BY <1>0, <1>2, <2>1 DEF TimesInv
<1>15. AloneInv'
  <2>1. \A q \in Project : Busy(q)' => q = p
    BY <1>1, <1>5 DEF Busy
  <2>2. /\ call'[p].about = p /\ call'[p].at = clock' /\ clock' # 0
        /\ saved'[p] = clock' /\ payload'[p] = clock' /\ acked'[p] < clock'
        /\ call'[p].idx[p] = clock'
        /\ call'[p].pc = "write"
    BY <1>1, <1>2, <1>5, <1>11, <1>12, <1>13
  <2>3. \A q \in Project \ {p} : call'[p].idx[q] \in {0, index'[q]}
    BY <1>2, <1>4, <1>5, <1>13
  <2> QED
    BY <2>1, <2>2, <2>3 DEF AloneInv
<1>16. PhantomIsOldest(index)'
  <2> SUFFICES ASSUME NEW q \in Project, Phantom(index, q)'
               PROVE  /\ Cardinality(Listed(index)) >= Max
                      /\ \A r \in Listed(index) : index[q] <= index[r]
    BY <1>2 DEF PhantomIsOldest, Listed
  <2>1. CASE q = old
    BY <1>3, <1>4, <1>8, <1>9, <1>10, <2>1 DEF Listed
  <2>2. CASE q # old
    <3>1. Phantom(index, q)
      BY <1>2, <1>12, <2>2 DEF Phantom, Listed
    <3> QED
      BY <1>0, <3>1 DEF PhantomsInv, PhantomIsOldest
  <2> QED
    BY <2>1, <2>2
\* The loop leaves no entry without a payload: such an entry was the oldest.
<1>17. \A q \in Listed(rest) : payload'[q] # 0
  <2> SUFFICES ASSUME NEW q \in Listed(rest), payload'[q] = 0 PROVE FALSE
    OBVIOUS
  <2>1. q \in Project \ {old} /\ q # p /\ q \in Listed(idx)
    BY <1>1, <1>9, <1>12 DEF Listed
  <2>2. Phantom(idx, q)
    BY <1>12, <2>1 DEF Phantom
  <2>3. idx[q] <= idx[old]
    <3>1. PhantomIsOldest(idx)
      BY <1>0 DEF Prune, PhantomsInv, idx
    <3> QED
      BY <1>3, <2>1, <2>2, <3>1 DEF PhantomIsOldest
  <2>4. idx[q] = idx[old] /\ idx[q] # 0
    BY <1>1, <1>3, <2>1, <2>3, <1>8 DEF Listed, Time
  <2>5. idx[q] = acked[q] /\ idx[old] = acked[old]
    BY <1>6, <1>8, <2>1, <2>4
  <2> QED
    BY <1>0, <1>8, <2>1, <2>4, <2>5 DEF TimesInv
<1>18. PhantomsInv'
  <2>1. ASSUME NEW q \in Project, call'[q].pc \in {"prune", "write"} PROVE PhantomIsOldest(call[q].idx)'
    <3>1. q = p
      BY <1>1, <1>5, <2>1 DEF Busy
    <3>2. \A r \in Project : ~ (r \in Listed(call'[q].idx) /\ payload'[r] = 0)
      BY <1>5, <1>17, <3>1
    <3> QED
      BY <3>2 DEF PhantomIsOldest, Phantom, Listed
  <2> QED
    BY <1>16, <2>1 DEF PhantomsInv
\* What is pruned is older than Max other entries, and so are their last saves.
<1>19. Kept'
  <2> SUFFICES ASSUME NEW q \in Project, acked[q] # 0, payload'[q] = 0
               PROVE  Cardinality(SavedSince(acked[q])) >= Max
    BY <1>2 DEF Kept, SavedSince
  <2>1. CASE payload[q] = 0
    BY <1>0, <2>1 DEF Kept
  <2>2. CASE payload[q] # 0
    <3>1. q = old
      BY <1>12, <2>2
    <3>2. idx[old] = acked[old] /\ idx[old] \in Nat /\ acked[old] < clock
      <4>1. old \in Project \ {p} /\ idx[old] # 0
        BY <1>3, <1>8 DEF Listed
      <4>2. idx[old] = acked[old] /\ idx[old] \in Nat /\ acked[old] <= saved[old]
            /\ saved[old] \in Nat /\ saved[old] < clock
        BY <1>6, <4>1
      <4> QED
        BY <1>1, <4>2
    <3>3. ASSUME NEW r \in Listed(idx) \ {old} PROVE saved[r] > acked[old]
      <4>1. CASE r = p
        BY <1>1, <3>2, <4>1
      <4>2. CASE r # p
        <5>1. r \in Project \ {p} /\ idx[r] # 0
          BY <4>2, <3>3 DEF Listed
        <5>2. idx[r] = acked[r] /\ acked[r] <= saved[r] /\ idx[r] \in Nat /\ saved[r] \in Nat
          BY <1>6, <5>1
        <5>3. idx[old] <= idx[r] /\ acked[r] # acked[old]
          BY <1>0, <1>3, <1>8, <3>3, <5>1, <5>2 DEF TimesInv
        <5> QED
          BY <3>2, <5>2, <5>3
      <4> QED
        BY <4>1, <4>2
    <3>4. Listed(idx) \ {old} \subseteq SavedSince(acked[old])
      BY <3>3 DEF SavedSince, Listed
    <3>5. Cardinality(Listed(idx) \ {old}) <= Cardinality(SavedSince(acked[old]))
      BY <3>4, SavedFinite, FS_Subset
    <3> QED
      BY <1>7, <3>1, <3>5, SavedFinite, FS_CardinalityType, MaxPositive
  <2> QED
    BY <2>1, <2>2
<1> QED
  BY <1>14, <1>15, <1>18, <1>19 DEF TerminalInv

LEMMA TerminalCallEnds ==
  ASSUME Before, NEW p \in Project, WriteIndex(p) \/ WriteIndexFails(p) \/ Crash(p)
  PROVE  TerminalInv'
<1> USE MaxClockIsNat
<1>0. TypeOK /\ TypeOK' /\ TimesInv /\ AloneInv /\ PhantomsInv /\ Kept
  BY DEF Before, TerminalInv
<1>1. Busy(p) /\ \A q \in Project \ {p} : call[q].pc = "idle"
  <2>1. Busy(p)
    BY DEF WriteIndex, WriteIndexFails, Crash, Busy
  <2> QED
    BY <1>0, <2>1 DEF AloneInv, Busy
<1>2. /\ call' = [call EXCEPT ![p] = Idle] /\ UNCHANGED <<clock, saved, payload>>
      /\ \/ UNCHANGED <<index, acked>>
         \/ /\ call[p].pc = "write" /\ index' = call[p].idx
            /\ acked' = [acked EXCEPT ![p] = call[p].at] \/ call[p].at = 0
  BY DEF Before, Terminal, WriteIndex, WriteIndexFails, Crash, Purged
<1>3. \A q \in Project : call'[q].pc = "idle"
  BY <1>0, <1>1, <1>2 DEF TypeOK, Idle
<1>4. AloneInv'
  BY <1>3 DEF AloneInv, Busy
<1>5. /\ call[p].at = clock /\ clock # 0 /\ clock \in Nat
      /\ saved[p] = clock /\ payload[p] = clock /\ acked[p] < clock
      /\ call[p].pc = "write" => /\ call[p].idx[p] = clock
                                 /\ \A q \in Project \ {p} : call[p].idx[q] \in {0, index[q]}
  <2>1. clock \in Nat
    BY <1>0 DEF TypeOK, Time
  <2> QED
    BY <1>0, <1>1, <2>1 DEF AloneInv
<1>6. CASE UNCHANGED <<index, acked>>
  <2>1. PhantomIsOldest(index)'
    BY <1>0, <1>2, <1>6 DEF PhantomsInv, PhantomIsOldest, Phantom, Listed
  <2> QED
    BY <1>0, <1>2, <1>3, <1>4, <1>6, <2>1 DEF TerminalInv, TimesInv, PhantomsInv, Kept, SavedSince
<1>7. CASE call[p].pc = "write" /\ index' = call[p].idx /\ acked' = [acked EXCEPT ![p] = call[p].at]
  <2>1. acked'[p] = clock /\ \A q \in Project \ {p} : acked'[q] = acked[q]
    BY <1>0, <1>5, <1>7 DEF TypeOK
  <2>2. \A q \in Project \ {p} : acked[q] \in Nat /\ saved[q] \in Nat /\ acked[q] <= saved[q] /\ saved[q] < clock
    <3> SUFFICES ASSUME NEW q \in Project, q # p
                 PROVE  acked[q] \in Nat /\ saved[q] \in Nat /\ acked[q] <= saved[q] /\ saved[q] < clock
      OBVIOUS
    <3>1. acked[q] \in Nat /\ saved[q] \in Nat
      BY <1>0 DEF TypeOK, Time
    <3>2. acked[q] <= saved[q] /\ saved[q] <= clock /\ saved[q] # saved[p]
      BY <1>0, <1>5 DEF TimesInv
    <3> QED
      BY <1>5, <3>1, <3>2
  <2>3. TimesInv'
    <3>1. \A q \in Project : index'[q] \in {0, acked'[q]}
      BY <1>0, <1>5, <1>7, <2>1 DEF TimesInv
    <3>2. \A q \in Project : acked'[q] <= saved'[q]
      BY <1>2, <1>5, <2>1, <2>2
    <3>3. \A q \in Project \ {p} : acked'[q] # acked'[p]
      BY <1>5, <2>1, <2>2
    <3>4. \A q, r \in Project : acked'[q] = acked'[r] /\ acked'[q] # 0 => q = r
      <4>1. \A q, r \in Project \ {p} : acked'[q] = acked'[r] /\ acked'[q] # 0 => q = r
        BY <1>0, <2>1 DEF TimesInv
      <4> QED
        BY <3>3, <4>1
    <3> QED
      BY <1>0, <1>2, <3>1, <3>2, <3>4 DEF TimesInv
  <2>4. PhantomIsOldest(index)'
    <3>1. PhantomIsOldest(call[p].idx)
      BY <1>0, <1>7 DEF PhantomsInv
    <3> QED
      BY <1>2, <1>7, <3>1 DEF PhantomIsOldest, Phantom, Listed
  <2>5. PhantomsInv'
    BY <1>3, <2>4 DEF PhantomsInv
  <2>6. Kept'
    BY <1>0, <1>2, <1>5, <2>1 DEF Kept, SavedSince
  <2> QED
    BY <1>4, <2>3, <2>5, <2>6 DEF TerminalInv
<1> QED
  BY <1>2, <1>5, <1>6, <1>7

StoreInv == CapacityInv /\ (Terminal => TerminalInv)

LEMMA StoreStep == StoreInv /\ [Next]_vars => StoreInv'
<1> SUFFICES ASSUME StoreInv, [Next]_vars, Terminal' PROVE TerminalInv'
  BY CapacityStep DEF StoreInv
<1>1. Terminal
  BY ZenonT(30) DEF Next, vars, SaveStep, WritePayload, QuotaExhausted, ReadIndex, Prune, WriteIndex,
         WriteIndexFails, Crash, RemovePayload, Terminal
<1>2. Before
  BY <1>1, TypeStep DEF StoreInv, CapacityInv, TypeInv, Before
<1>3. CASE UNCHANGED vars
  <2>1. TimesInv /\ AloneInv /\ PhantomsInv /\ Kept
    BY <1>2 DEF Before, TerminalInv
  <2>2. TimesInv'
    BY <1>3, <2>1 DEF vars, TimesInv
  <2>3. AloneInv'
    BY <1>3, <2>1 DEF vars, AloneInv, Busy
  <2>4. PhantomsInv'
    BY <1>3, <2>1 DEF vars, PhantomsInv, PhantomIsOldest, Phantom, Listed
  <2>5. Kept'
    BY <1>3, <2>1 DEF vars, Kept, SavedSince
  <2> QED
    BY <2>2, <2>3, <2>4, <2>5 DEF TerminalInv
<1>4. ASSUME NEW p \in Project
      PROVE  ~ QuotaExhausted(p) /\ \A q \in Project : ~ RemovePayload(p, q)
  BY <1>1 DEF Terminal, QuotaExhausted, Purged, RemovePayload
<1>5. ASSUME Next
      PROVE  TerminalInv'
  <2>1. PICK p \in Project : WritePayload(p) \/ SaveStep(p) \/ Crash(p)
    BY <1>4, <1>5 DEF Next
  <2>2. CASE WritePayload(p)
    BY <1>2, <2>2, TerminalWritePayload
  <2>3. CASE ReadIndex(p)
    BY <1>2, <2>3, TerminalReadIndex
  <2>4. CASE Prune(p)
    BY <1>2, <2>4, TerminalPrune
  <2>5. CASE WriteIndex(p) \/ WriteIndexFails(p) \/ Crash(p)
    BY <1>2, <2>5, TerminalCallEnds
  <2> QED
    BY <2>1, <2>2, <2>3, <2>4, <2>5 DEF SaveStep
<1> QED
  BY <1>3, <1>5

LEMMA StoreCorrect == Spec => []StoreInv
<1>1. Init => StoreInv
  BY CapacityInit, TerminalInit DEF StoreInv
<1> QED
  BY <1>1, StoreStep, PTL DEF Spec

\* In a terminal an acknowledged checkpoint is lost only to Max later saves of others, whatever
\* crashes and failed writes lie between: the capacity policy survives a half-written save.
THEOREM RecentAreKept == Spec => []RecentCheckpointsKept
<1>1. StoreInv => RecentCheckpointsKept
  BY DEF StoreInv, Terminal, TerminalInv, Kept, RecentCheckpointsKept
<1> QED
  BY <1>1, StoreCorrect, PTL

\* A crash in the capacity loop never leaves the newest entry of the index without a payload.
THEOREM NewestLoads == Spec => []NewestListedLoads
<1>1. StoreInv => NewestListedLoads
  <2> SUFFICES ASSUME StoreInv, Terminal, Max >= 2, NEW p \in Listed(index),
                      \A q \in Listed(index) : index[q] <= index[p], payload[p] = 0
               PROVE  FALSE
    BY DEF NewestListedLoads, Terminal
  <2>1. TypeOK /\ TimesInv /\ PhantomIsOldest(index)
    BY DEF StoreInv, CapacityInv, TypeInv, TerminalInv, PhantomsInv
  <2>2. p \in Project /\ Phantom(index, p)
    BY DEF Listed, Phantom
  <2>3. Cardinality(Listed(index)) >= Max /\ \A r \in Listed(index) : index[p] <= index[r]
    BY <2>1, <2>2 DEF PhantomIsOldest
  <2>4. \A r \in Listed(index) : r = p
    BY <2>1, <2>3, MaxClockIsNat DEF Listed, TypeOK, TimesInv, Time
  <2>5. Listed(index) = {p}
    BY <2>4
  <2>6. Cardinality({p}) = 1
    BY FS_Singleton
  <2> QED
    BY <2>3, <2>5, <2>6, MaxPositive
<1> QED
  BY <1>1, StoreCorrect, PTL
====
