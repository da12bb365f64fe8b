---- MODULE CheckpointStore ----
\* Checkpoints on storage: checkpointManager.js over the adapters of term/fsStorage.js
\* and storage.js.  A checkpoint is two keys, written by awaited calls one after the
\* other: the payload of its project, and one index of all projects.  Each step here
\* is one storage call; a process may die, and another may act, between two of them.
\*
\* A payload is named by the time it was serialized at, which is also the timestamp of
\* its index entry; 0 is a missing key.  The index is kept sorted newest-first, so it
\* is determined by the timestamps it lists: a function from projects to times.
EXTENDS Naturals, FiniteSets

CONSTANTS Project,      \* projects; each is run by one process at a time
          Max,          \* maxCheckpoints: 3 in the browser, 200 or the user's in the terminal
          Settings,     \* where the code runs: a subset of Setting
          MaxClock      \* bound: payloads written

\* One terminal process at a time, several on one directory, or one browser tab over
\* localStorage.
Setting == {"terminal", "terminals", "browser"}

ASSUME ProjectIsFinite == IsFiniteSet(Project)
ASSUME MaxPositive == Max \in Nat \ {0}
ASSUME SettingsKnown == Settings \subseteq Setting
ASSUME MaxClockIsNat == MaxClock \in Nat

VARIABLES setting,  \* one of Settings, never changed
          clock,    \* time of the last payload
          payload,  \* payload[p]: what the key of p holds
          index,    \* index[p]: timestamp of p's entry in the index key
          call,     \* call[p]: the manager call of p's process
          saved,    \* history: time of p's last payload
          acked     \* history: time of p's last payload whose save returned true

vars == <<setting, clock, payload, index, call, saved, acked>>

Time == 0..MaxClock
Nothing == [p \in Project |-> 0]

\* A call of save or remove: the awaited step it is at, the project it is about, the
\* timestamp of its payload and the index it holds in memory.
Idle == [pc |-> "idle", about |-> "none", at |-> 0, idx |-> Nothing]

----
\* The index entries that exist.
Listed(idx) == {p \in Project : idx[p] # 0}

\* Mutant of OverCapacity: an off-by-one prunes a full index.
AtCapacity(idx) == Cardinality(Listed(idx)) >= Max

\* index.length > MAX
OverCapacity(idx) == Cardinality(Listed(idx)) > Max

\* Mutant of Oldest: index.shift() instead of pop().
Newest(idx) == CHOOSE p \in Listed(idx) : \A q \in Listed(idx) : idx[q] <= idx[p]

\* index.pop() of the index sorted newest-first.
Oldest(idx) == CHOOSE p \in Listed(idx) : \A q \in Listed(idx) : idx[p] <= idx[q]

AfterRead(idx) == IF OverCapacity(idx) THEN "prune" ELSE "write"

\* In one process the calls of the manager are strung together by microtasks only:
\* nothing else of that process runs in between.
MayStart(p) ==
  /\ call[p].pc = "idle"
  /\ setting # "terminals" => \A q \in Project : call[q].pc = "idle"

\* createLocalStorageAdapter.set on a quota error: all keys of the application are
\* removed, those of the other checkpoints and of the index too.
Purged == setting = "browser" /\ index' = Nothing

----
\* save(): storage.set of the payload.  When it throws, save returns false and nothing
\* has changed (fsStorage writes a temporary file and renames it), so that is no step.
WritePayload(p) ==
  /\ MayStart(p)
  /\ clock < MaxClock
  /\ clock' = clock + 1
  /\ call' = [call EXCEPT ![p] = [Idle EXCEPT !.pc = "read", !.about = p, !.at = clock + 1]]
  /\ saved' = [saved EXCEPT ![p] = clock + 1]
  /\ \/ payload' = [payload EXCEPT ![p] = clock + 1] /\ UNCHANGED index
     \/ Purged /\ payload' = [Nothing EXCEPT ![p] = clock + 1]
  /\ UNCHANGED <<setting, acked>>

\* The quota is still exceeded after the purge: save returns false.
QuotaExhausted(p) ==
  /\ MayStart(p)
  /\ Purged
  /\ payload' = Nothing
  /\ UNCHANGED <<setting, clock, call, saved, acked>>

\* readIndex(), the filter, the push and the sort: p's entry is replaced.
ReadIndex(p) ==
  /\ call[p].pc = "read"
  /\ LET idx == [index EXCEPT ![call[p].about] = call[p].at] IN
       call' = [call EXCEPT ![p].idx = idx, ![p].pc = AfterRead(idx)]
  /\ UNCHANGED <<setting, clock, payload, index, saved, acked>>

\* One round of the capacity loop: the oldest entry goes, and its payload with it
\* unless the storage refuses (best effort).
Prune(p) ==
  /\ call[p].pc = "prune"
  /\ LET old == Oldest(call[p].idx)
         idx == [call[p].idx EXCEPT ![old] = 0] IN
       /\ call' = [call EXCEPT ![p].idx = idx, ![p].pc = AfterRead(idx)]
       /\ payload' \in {payload, [payload EXCEPT ![old] = 0]}
  /\ UNCHANGED <<setting, clock, index, saved, acked>>

\* Mutant of WriteIndex: the read index is merged into, not replaced.
MergeIndex(p) ==
  /\ call[p].pc = "write"
  /\ index' = [q \in Project |-> IF call[p].idx[q] = 0 THEN index[q] ELSE call[p].idx[q]]
  /\ payload' = payload
  /\ acked' = IF call[p].at = 0 THEN acked ELSE [acked EXCEPT ![p] = call[p].at]
  /\ call' = [call EXCEPT ![p] = Idle]
  /\ UNCHANGED <<setting, clock, saved>>

\* writeIndex(): the end of save and of remove.  A quota error here purges the payload
\* that was just written as well, and the retry then succeeds.
WriteIndex(p) ==
  /\ call[p].pc = "write"
  /\ \/ index' = call[p].idx /\ payload' = payload
     \/ setting = "browser" /\ index' = call[p].idx /\ payload' = Nothing
  /\ acked' = IF call[p].at = 0 THEN acked ELSE [acked EXCEPT ![p] = call[p].at]
  /\ call' = [call EXCEPT ![p] = Idle]
  /\ UNCHANGED <<setting, clock, saved>>

\* writeIndex() throws: save warns and returns false.
WriteIndexFails(p) ==
  /\ call[p].pc = "write"
  /\ \/ UNCHANGED <<index, payload>>
     \/ Purged /\ payload' = Nothing
  /\ call' = [call EXCEPT ![p] = Idle]
  /\ UNCHANGED <<setting, clock, saved, acked>>

\* remove(q), which only the browser calls: storage.delete of the payload, then the
\* index without q.  (The filter of remove is the push of a timestamp 0.)
RemovePayload(p, q) ==
  /\ setting = "browser"
  /\ MayStart(p)
  /\ payload' = [payload EXCEPT ![q] = 0]
  /\ call' = [call EXCEPT ![p] = [Idle EXCEPT !.pc = "read", !.about = q]]
  /\ UNCHANGED <<setting, clock, index, saved, acked>>

\* The process dies (or the tab): what is on storage stays as it is.
Crash(p) ==
  /\ call[p].pc # "idle"
  /\ call' = [call EXCEPT ![p] = Idle]
  /\ UNCHANGED <<setting, clock, payload, index, saved, acked>>

Init ==
  /\ setting \in Settings
  /\ clock = 0
  /\ payload = Nothing
  /\ index = Nothing
  /\ call = [p \in Project |-> Idle]
  /\ saved = Nothing
  /\ acked = Nothing

SaveStep(p) == ReadIndex(p) \/ Prune(p) \/ WriteIndex(p) \/ WriteIndexFails(p)

Next ==
  \E p \in Project :
    \/ WritePayload(p) \/ QuotaExhausted(p)
    \/ SaveStep(p)
    \/ Crash(p)
    \/ \E q \in Project : RemovePayload(p, q)

Spec == Init /\ [][Next]_vars

----
CallState ==
  [pc : {"idle", "read", "prune", "write"}, about : Project \cup {"none"},
   at : Time, idx : [Project -> Time]]

\* Every variable has its type, and the index on storage is never longer than Max.
TypeOK ==
  /\ setting \in Setting
  /\ clock \in Time
  /\ payload \in [Project -> Time]
  /\ index \in [Project -> Time] /\ ~ OverCapacity(index)
  /\ call \in [Project -> CallState]
  /\ saved \in [Project -> Time]
  /\ acked \in [Project -> Time]

\* Projects that have written a payload since the time t.
SavedSince(t) == {q \in Project : saved[q] > t}

\* The capacity policy of the manager, seen from a user: in a terminal that runs one
\* process at a time, a checkpoint whose save was acknowledged is lost only when Max
\* other projects were saved after it, whatever crashes and failed writes lie between.
RecentCheckpointsKept ==
  setting = "terminal" =>
    \A p \in Project : acked[p] # 0 /\ payload[p] = 0 =>
                         Cardinality(SavedSince(acked[p])) >= Max

\* Several processes on one directory read and write the index without a lock, so they
\* may prune the wrong project; still no checkpoint is lost before more projects than
\* Max have been saved at all.
NothingLostBelowCapacity ==
  setting # "browser" =>
    \A p \in Project : saved[p] # 0 /\ payload[p] = 0 => Cardinality(SavedSince(0)) > Max

\* The newest entry of the index can be loaded, as a resume that offers the most recent
\* project needs: a crash inside the capacity loop leaves an entry without a payload,
\* but never in the first place.  It takes a capacity of two.
NewestListedLoads ==
  setting = "terminal" /\ Max >= 2 =>
    \A p \in Listed(index) : (\A q \in Listed(index) : index[q] <= index[p]) => payload[p] # 0
====
