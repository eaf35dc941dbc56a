------------------------ MODULE ManagedSourcesProofs ------------------------
(***************************************************************************)
(* Proofs about ManagedSources for any sources, entries, goroutines and    *)
(* thresholds.                                                             *)
(***************************************************************************)
EXTENDS ManagedSources, FiniteSetTheorems, TLAPS

\* What the phase of a goroutine says about its other fields.
LEMMA PhaseFields ==
  ASSUME NEW ws \in WorkerState
  PROVE  /\ ws.phase = "fetching" => ws.src \in Src /\ ws.rec \in SourceRec
         /\ ws.phase = "marshal" => ws.snap \in Snapshot
         /\ ws.phase = "rename" => ws.image \in Image
BY DEF WorkerState, Idle

\* The parts of an imported list.
LEMMA ListFields ==
  ASSUME NEW list \in ImportedList
  PROVE  list.ids \in SUBSET Entry /\ list.lines \in Nat
BY DEF ImportedList

\* Only lists of the sources are imported.
LEMMA ListOfSource ==
  ASSUME NEW list \in UNION {Importable[s] : s \in Src}
  PROVE  list \in ImportedList
BY ImportableAssumption

\* applyEntriesLocked yields a map of entries to owners.
LEMMA ApplyType ==
  ASSUME NEW es \in EntryMap, NEW s \in Src, NEW list
  PROVE  applyEntriesLocked(es, s, list) \in EntryMap
BY DEF applyEntriesLocked, EntryMap

\* A snapshot of well-typed maps is well typed.
LEMMA SnapshotType ==
  ASSUME NEW src \in SourceMap, NEW es \in EntryMap, NEW pend
  PROVE  [phase |-> "marshal", snap |-> copyStateLocked(src, es, pend)] \in WorkerState
BY DEF copyStateLocked, WorkerState, Snapshot

\* Saving keeps the goroutines well typed when the new maps are.
LEMMA BeginSaveType ==
  ASSUME TypeOK, NEW w \in Worker, BeginSave(w),
         sources' \in SourceMap, entries' \in EntryMap
  PROVE  worker' \in [Worker -> WorkerState]
BY SnapshotType DEF BeginSave, TypeOK

\* Every reachable state is well typed.
THEOREM TypeCorrect == Spec => []TypeOK
<1>1. Init => TypeOK
  BY DEF Init, TypeOK, NoSources, NoEntries, NoPending, SourceMap, EntryMap,
         PendingMap, Image, WorkerState
<1>2. TypeOK /\ [Next]_vars => TypeOK'
  <2> SUFFICES ASSUME TypeOK, [Next]_vars PROVE TypeOK'
    OBVIOUS
  <2>1. ASSUME NEW w \in Worker, NEW s \in Src, NEW c \in Conf, UpsertSource(w, s, c)
        PROVE  TypeOK'
    <3>1. [conf   |-> c,
           review |-> IF sources[s] # None THEN sources[s].review ELSE FALSE,
           total  |-> IF sources[s] # None THEN sources[s].total ELSE 0] \in SourceRec
      BY <2>1 DEF TypeOK, SourceMap, SourceRec
    <3>2. sources' \in SourceMap
      BY <2>1, <3>1 DEF TypeOK, SourceMap, UpsertSource
    <3>3. QED
      BY <2>1, <3>2, BeginSaveType DEF TypeOK, UpsertSource
  <2>2. ASSUME NEW w \in Worker, NEW s \in Src, DeleteSource(w, s)
        PROVE  TypeOK'
    <3>1. sources' \in SourceMap /\ entries' \in EntryMap /\ pending' \in PendingMap
      BY <2>2 DEF TypeOK, SourceMap, EntryMap, PendingMap, DeleteSource
    <3>2. QED
      BY <2>2, <3>1, BeginSaveType DEF TypeOK, DeleteSource
  <2>3. ASSUME NEW w \in Worker, NEW s \in Src, SyncSourceBegin(w, s)
        PROVE  TypeOK'
    <3>1. [phase |-> "fetching", src |-> s, rec |-> sources[s]] \in WorkerState
      BY <2>3 DEF TypeOK, SourceMap, SyncSourceBegin, WorkerState
    <3>2. QED
      BY <2>3, <3>1 DEF TypeOK, SyncSourceBegin
  <2>4. ASSUME NEW w \in Worker, SyncSourceFail(w)
        PROVE  TypeOK'
    <3>1. worker[w].src \in Src /\ worker[w].rec \in SourceRec
      BY <2>4, PhaseFields DEF TypeOK, SyncSourceFail
    <3>2. sources' \in SourceMap
      BY <2>4, <3>1 DEF TypeOK, SourceMap, SyncSourceFail
    <3>3. QED
      BY <2>4, <3>2, BeginSaveType DEF TypeOK, SyncSourceFail
  <2>5. ASSUME NEW w \in Worker, NEW list \in ImportedList, SyncSourceDone(w, list)
        PROVE  TypeOK'
    <3> DEFINE s == worker[w].src
               large == largeChange(removed(entries, s, list), list.lines)
    <3>1. s \in Src /\ worker[w].rec \in SourceRec
      BY <2>5, PhaseFields DEF TypeOK, SyncSourceDone
    <3>2. [worker[w].rec EXCEPT !.review = large, !.total = list.lines] \in SourceRec
      BY <3>1, ListFields DEF SourceRec, largeChange
    <3>3. sources' = [sources EXCEPT ![s] =
                        [worker[w].rec EXCEPT !.review = large, !.total = list.lines]]
      BY <2>5 DEF SyncSourceDone
    <3>4. sources' \in SourceMap
      BY <3>1, <3>2, <3>3 DEF TypeOK, SourceMap
    <3>5. entries' \in EntryMap
      BY <2>5, <3>1, ApplyType DEF TypeOK, SyncSourceDone
    <3>6. pending' \in PendingMap
      BY <2>5, <3>1 DEF TypeOK, PendingMap, SyncSourceDone
    <3>7. QED
      BY <2>5, <3>4, <3>5, <3>6, BeginSaveType DEF TypeOK, SyncSourceDone
  <2>6. ASSUME NEW w \in Worker, NEW s \in Src, ApproveSource(w, s)
        PROVE  TypeOK'
    <3>0. pending[s].lines \in Nat
      BY <2>6, ListFields DEF TypeOK, PendingMap, ApproveSource
    <3>1. sources' \in SourceMap
      BY <2>6, <3>0 DEF TypeOK, SourceMap, SourceRec, ApproveSource
    <3>2. entries' \in EntryMap
      BY <2>6, ApplyType DEF TypeOK, ApproveSource
    <3>3. pending' \in PendingMap
      BY <2>6 DEF TypeOK, PendingMap, ApproveSource
    <3>4. QED
      BY <2>6, <3>1, <3>2, <3>3, BeginSaveType DEF TypeOK, ApproveSource
  <2>7. ASSUME NEW w \in Worker, NEW s \in Src, RejectSource(w, s)
        PROVE  TypeOK'
    <3>1. sources' \in SourceMap
      BY <2>7 DEF TypeOK, SourceMap, SourceRec, RejectSource
    <3>2. pending' \in PendingMap
      BY <2>7 DEF TypeOK, PendingMap, RejectSource
    <3>3. QED
      BY <2>7, <3>1, <3>2, BeginSaveType DEF TypeOK, RejectSource
  <2>8. ASSUME NEW w \in Worker, Marshal(w)
        PROVE  TypeOK'
    <3> DEFINE snap == worker[w].snap
               image == [sources |-> snap.sources, entries |-> snap.entries,
                         pending |-> IF snap.aliased THEN pending ELSE NoPending]
    <3>1. snap \in Snapshot
      BY <2>8, PhaseFields DEF TypeOK, Marshal
    <3>2. image \in Image
      BY <3>1 DEF TypeOK, Snapshot, Image, PendingMap, NoPending
    <3>3. [phase |-> "rename", image |-> image] \in WorkerState
      BY <3>2 DEF WorkerState
    <3>4. QED
      BY <2>8, <3>3 DEF TypeOK, Marshal
  <2>9. ASSUME NEW w \in Worker, Rename(w) \/ PersistError(w)
        PROVE  TypeOK'
    BY <2>9, PhaseFields DEF TypeOK, Rename, PersistError, WorkerState
  <2>10. ASSUME Restart PROVE TypeOK'
    BY <2>10 DEF TypeOK, Restart, Image, WorkerState
  <2>11. ASSUME UNCHANGED vars PROVE TypeOK'
    BY <2>11 DEF TypeOK, vars
  <2>12. QED
    BY <2>1, <2>2, <2>3, <2>4, <2>5, <2>6, <2>7, <2>8, <2>9, <2>10, <2>11,
       ListOfSource
    DEF Next, SyncDue
<1>3. QED
  BY <1>1, <1>2, PTL DEF Spec

-----------------------------------------------------------------------------
(* No orphaned entries.  EntriesOwned is inductive together with TypeOK: it *)
(* speaks of the file and of every copy on its way there, because Restart   *)
(* turns the file into the memory, and Rename a copy into the file.         *)

\* A step whose new memory is owned keeps the snapshot it takes owned.
LEMMA BeginSaveOwned ==
  ASSUME TypeOK, EntriesOwned, NEW w \in Worker, BeginSave(w), UNCHANGED disk,
         Owned(sources', entries')
  PROVE  EntriesOwned'
<1>1. worker'[w].phase = "marshal" /\ worker'[w].snap = copyStateLocked(sources', entries', pending')
  BY DEF BeginSave, TypeOK
<1>2. Owned(worker'[w].snap.sources, worker'[w].snap.entries)
  BY <1>1 DEF copyStateLocked
<1>3. \A v \in Worker : v # w => worker'[v] = worker[v]
  BY DEF BeginSave, TypeOK
<1>4. \A v \in Worker :
        /\ worker'[v].phase = "marshal" => Owned(worker'[v].snap.sources, worker'[v].snap.entries)
        /\ worker'[v].phase = "rename" => Owned(worker'[v].image.sources, worker'[v].image.entries)
  <2> SUFFICES ASSUME NEW v \in Worker
               PROVE  /\ worker'[v].phase = "marshal" => Owned(worker'[v].snap.sources, worker'[v].snap.entries)
                      /\ worker'[v].phase = "rename" => Owned(worker'[v].image.sources, worker'[v].image.entries)
    OBVIOUS
  <2>1. CASE v = w
    BY <1>1, <1>2, <2>1
  <2>2. CASE v # w
    BY <1>3, <2>2 DEF EntriesOwned
  <2>3. QED
    BY <2>1, <2>2
<1>5. QED
  BY <1>4 DEF EntriesOwned

\* Writing the record of a source orphans nothing.
LEMMA WriteOwned ==
  ASSUME NEW src, NEW src2, NEW es \in EntryMap, NEW s \in Src,
         Owned(src, es), src2[s] # None,
         \A t \in Src : t # s => src2[t] = src[t]
  PROVE  Owned(src2, es)
BY DEF Owned, EntryMap

\* Importing a list into a source that exists afterwards orphans nothing.
LEMMA ApplyOwned ==
  ASSUME NEW src, NEW src2, NEW es \in EntryMap, NEW s \in Src, NEW list,
         Owned(src, es), src2[s] # None,
         \A t \in Src : t # s => src2[t] = src[t]
  PROVE  Owned(src2, applyEntriesLocked(es, s, list))
BY DEF Owned, applyEntriesLocked, EntryMap

\* Every entry, in memory, on its way to the file and in the file, belongs to a
\* source that exists, however syncs, deletions, saves and restarts interleave.
THEOREM EntriesOwnedCorrect == Spec => []EntriesOwned
<1>1. Init => EntriesOwned
  BY DEF Init, EntriesOwned, Owned, NoEntries, Idle
<1>2. TypeOK /\ EntriesOwned /\ [Next]_vars => EntriesOwned'
  <2> SUFFICES ASSUME TypeOK, EntriesOwned, [Next]_vars PROVE EntriesOwned'
    OBVIOUS
  <2>0. Owned(sources, entries) /\ entries \in EntryMap /\ sources \in SourceMap
    BY DEF EntriesOwned, TypeOK
  <2>1. ASSUME NEW w \in Worker, NEW s \in Src, NEW c \in Conf, UpsertSource(w, s, c)
        PROVE  EntriesOwned'
    <3>1. [conf   |-> c,
           review |-> IF sources[s] # None THEN sources[s].review ELSE FALSE,
           total  |-> IF sources[s] # None THEN sources[s].total ELSE 0] \in SourceRec
      BY <2>0 DEF SourceMap, SourceRec
    <3>2. sources'[s] # None /\ \A t \in Src : t # s => sources'[t] = sources[t]
      BY <2>0, <2>1, <3>1, NoneAssumption DEF UpsertSource, SourceMap
    <3>3. Owned(sources', entries')
      <4>1. entries' = entries
        BY <2>1 DEF UpsertSource
      <4>2. Owned(sources', entries)
        BY <2>0, <3>2, WriteOwned
      <4>3. QED
        BY <4>1, <4>2
    <3>4. QED
      BY <2>1, <3>3, BeginSaveOwned DEF UpsertSource
  <2>2. ASSUME NEW w \in Worker, NEW s \in Src, DeleteSource(w, s)
        PROVE  EntriesOwned'
    <3>1. Owned(sources', entries')
      BY <2>0, <2>2 DEF DeleteSource, Owned, SourceMap, EntryMap
    <3>2. QED
      BY <2>2, <3>1, BeginSaveOwned DEF DeleteSource
  <2>3. ASSUME NEW w \in Worker, NEW s \in Src, SyncSourceBegin(w, s)
        PROVE  EntriesOwned'
    BY <2>3 DEF SyncSourceBegin, EntriesOwned, TypeOK
  <2>4. ASSUME NEW w \in Worker, SyncSourceFail(w)
        PROVE  EntriesOwned'
    <3>1. worker[w].src \in Src /\ worker[w].rec \in SourceRec
      BY <2>4, PhaseFields DEF TypeOK, SyncSourceFail
    <3>2. /\ sources'[worker[w].src] # None
          /\ \A t \in Src : t # worker[w].src => sources'[t] = sources[t]
      BY <2>0, <2>4, <3>1, NoneAssumption DEF SyncSourceFail, SourceMap
    <3>3. Owned(sources', entries')
      <4>1. entries' = entries
        BY <2>4 DEF SyncSourceFail
      <4>2. Owned(sources', entries)
        BY <2>0, <3>1, <3>2, WriteOwned
      <4>3. QED
        BY <4>1, <4>2
    <3>4. QED
      BY <2>4, <3>3, BeginSaveOwned DEF SyncSourceFail
  <2>5. ASSUME NEW w \in Worker, NEW list \in ImportedList, SyncSourceDone(w, list)
        PROVE  EntriesOwned'
    <3> DEFINE s == worker[w].src
               large == largeChange(removed(entries, s, list), list.lines)
    <3>1. s \in Src /\ worker[w].rec \in SourceRec
      BY <2>5, PhaseFields DEF TypeOK, SyncSourceDone
    <3>2. [worker[w].rec EXCEPT !.review = large, !.total = list.lines] \in SourceRec
      BY <3>1, ListFields DEF SourceRec, largeChange
    <3>3. sources' = [sources EXCEPT ![s] =
                        [worker[w].rec EXCEPT !.review = large, !.total = list.lines]]
      BY <2>5 DEF SyncSourceDone
    <3>4. sources'[s] # None /\ \A t \in Src : t # s => sources'[t] = sources[t]
      BY <2>0, <3>1, <3>2, <3>3, NoneAssumption DEF SourceMap
    <3>5. entries' = entries \/ entries' = applyEntriesLocked(entries, s, list)
      BY <2>5 DEF SyncSourceDone
    <3>6. Owned(sources', entries')
      BY <2>0, <3>1, <3>4, <3>5, ApplyOwned, WriteOwned
    <3>7. QED
      BY <2>5, <3>6, BeginSaveOwned DEF SyncSourceDone
  <2>6. ASSUME NEW w \in Worker, NEW s \in Src, ApproveSource(w, s) \/ RejectSource(w, s)
        PROVE  EntriesOwned'
    <3>0. /\ RejectSource(w, s) => [sources[s] EXCEPT !.review = FALSE] \in SourceRec
          /\ ApproveSource(w, s) =>
               [sources[s] EXCEPT !.review = FALSE, !.total = pending[s].lines] \in SourceRec
      BY <2>0, <2>6, ListFields
      DEF ApproveSource, RejectSource, SourceMap, SourceRec, TypeOK, PendingMap
    <3>1. sources'[s] # None /\ \A t \in Src : t # s => sources'[t] = sources[t]
      BY <2>0, <2>6, <3>0, NoneAssumption DEF ApproveSource, RejectSource, SourceMap
    <3>2. entries' = entries \/ entries' = applyEntriesLocked(entries, s, pending[s])
      BY <2>6 DEF ApproveSource, RejectSource
    <3>3. Owned(sources', entries')
      BY <2>0, <3>1, <3>2, ApplyOwned, WriteOwned
    <3>4. QED
      BY <2>6, <3>3, BeginSaveOwned DEF ApproveSource, RejectSource
  <2>7. ASSUME NEW w \in Worker, Marshal(w)
        PROVE  EntriesOwned'
    BY <2>7 DEF Marshal, EntriesOwned, TypeOK
  <2>8. ASSUME NEW w \in Worker, Rename(w) \/ PersistError(w)
        PROVE  EntriesOwned'
    BY <2>8 DEF Rename, PersistError, EntriesOwned, TypeOK, Idle
  <2>9. ASSUME Restart PROVE EntriesOwned'
    BY <2>9 DEF Restart, EntriesOwned, Idle
  <2>10. ASSUME UNCHANGED vars PROVE EntriesOwned'
    BY <2>10 DEF EntriesOwned, vars
  <2>11. QED
    BY <2>1, <2>2, <2>3, <2>4, <2>5, <2>6, <2>7, <2>8, <2>9, <2>10, ListOfSource
    DEF Next, SyncDue
<1>3. QED
  BY <1>1, <1>2, TypeCorrect, PTL DEF Spec

-----------------------------------------------------------------------------
(* Large removals are reviewed.                                            *)

\* Sets of entries can be counted.
LEMMA EntriesCount ==
  ASSUME NEW S \in SUBSET Entry
  PROVE  IsFiniteSet(S) /\ Cardinality(S) \in Nat
BY FiniteAssumption, FS_Subset, FS_CardinalityType

\* Losing nothing is never large.
LEMMA NothingLost ==
  ASSUME NEW total \in Nat
  PROVE  ~Large(0, total)
<1>1. ~(ThresholdCount > 0 /\ 0 >= ThresholdCount)
  BY ThresholdAssumption
<1>2. ASSUME ThresholdPercent > 0, total # 0
      PROVE  ~(0 * 100 >= ThresholdPercent * total)
  <2>1. ThresholdPercent * total > 0
    BY <1>2, ThresholdAssumption
  <2>2. QED
    BY <2>1, ThresholdAssumption
<1>3. QED
  BY <1>1, <1>2 DEF Large

\* A step that leaves no entry of s without an owner is no large removal.
LEMMA NothingVanished ==
  ASSUME NEW s, NEW total \in Nat, \A e \in Entry : entries[e] = s => entries'[e] # None
  PROVE  ~Large(Cardinality(Vanished(s)), total)
<1>1. Vanished(s) = {}
  BY DEF Vanished
<1>2. Cardinality(Vanished(s)) = 0
  BY <1>1, FS_EmptySet
<1>3. QED
  BY <1>2, NothingLost

\* largeChange rounds the percentage down, which hides no large removal.
LEMMA Percentage ==
  ASSUME NEW lost \in Nat, NEW gone \in Nat, NEW total \in Nat, NEW p \in Nat,
         lost <= gone, total # 0, lost * 100 >= p * total
  PROVE  (gone * 100) \div total >= p
<1> DEFINE q == (gone * 100) \div total
<1>1. q \in Nat /\ gone * 100 < (q + 1) * total
  OBVIOUS
<1>2. p * total < (q + 1) * total
  BY <1>1
<1> HIDE DEF q
<1>3. ASSUME q < p PROVE FALSE
  <2>1. PICK d \in Nat : p = q + 1 + d
    <3>1. p - (q + 1) \in Nat
      BY <1>1, <1>3
    <3>2. QED
      BY <1>1, <3>1
  <2>2. p * total = (q + 1) * total + d * total
    BY <1>1, <2>1
  <2>3. d * total \in Nat /\ (q + 1) * total \in Nat
    BY <1>1
  <2>4. QED
    BY <1>2, <2>2, <2>3
<1>4. QED
  BY <1>1, <1>3 DEF q

\* An import that needs no review is no large removal.
LEMMA SmallImport ==
  ASSUME NEW s \in Src, NEW list \in ImportedList,
         ~largeChange(removed(entries, s, list), list.lines),
         RequiresReview,
         entries' = applyEntriesLocked(entries, s, list)
  PROVE  ~Large(Cardinality(Vanished(s)), list.lines)
<1> DEFINE gone == entriesForSource(entries, s) \ list.ids
           lost == Cardinality(Vanished(s))
           total == list.lines
<1>1. IsFiniteSet(gone) /\ Cardinality(gone) \in Nat
  BY EntriesCount DEF entriesForSource
<1>2. total \in Nat
  BY ListFields
<1>3. Vanished(s) \subseteq gone
  <2> SUFFICES ASSUME NEW e \in Vanished(s) PROVE e \in gone
    OBVIOUS
  <2>1. e \in Entry /\ entries[e] = s /\ entries'[e] = None
    BY DEF Vanished
  <2>2. CASE e \in list.ids
    <3>1. entries'[e] = s
      BY <2>1, <2>2 DEF applyEntriesLocked
    <3>2. QED
      BY <2>1, <3>1, NoneAssumption
  <2>3. CASE e \notin list.ids
    BY <2>1, <2>3 DEF entriesForSource
  <2>4. QED
    BY <2>2, <2>3
<1>4. lost \in Nat /\ lost <= Cardinality(gone)
  <2>1. Vanished(s) \subseteq Entry
    BY DEF Vanished
  <2>2. QED
    BY <1>1, <1>3, <2>1, EntriesCount, FS_Subset
<1>5. /\ ~(ThresholdCount > 0 /\ Cardinality(gone) >= ThresholdCount)
      /\ ~(ThresholdPercent > 0 /\ total # 0
             /\ (Cardinality(gone) * 100) \div total >= ThresholdPercent)
  BY DEF largeChange, removed
<1> HIDE DEF gone, lost, total
<1>6. ~(ThresholdCount > 0 /\ lost >= ThresholdCount)
  BY <1>1, <1>4, <1>5, ThresholdAssumption
<1>7. ~(ThresholdPercent > 0 /\ total # 0 /\ lost * 100 >= ThresholdPercent * total)
  BY <1>1, <1>2, <1>4, <1>5, Percentage, ThresholdAssumption
<1>8. ~Large(lost, total)
  BY <1>6, <1>7 DEF Large
<1>9. QED
  BY <1>8 DEF lost, total

\* Whatever syncs, approvals and deletions run side by side, a large part of the
\* entries of a surviving source, in number or relative to the lines it then reports,
\* vanishes in one step only when a held-back list of that source is approved.
THEOREM LargeRemovalsReviewedCorrect == Spec => LargeRemovalsReviewed
<1> DEFINE Small(s) == ~Large(Cardinality(Vanished(s)), sources'[s].total)
<1> DEFINE Reviewed ==
      RequiresReview =>
        \A s \in Src :
          \/ sources'[s] = None
          \/ Small(s)
          \/ \E w \in Worker : ApproveSource(w, s)
          \/ Restart
<1>1. TypeOK /\ TypeOK' /\ [Next]_vars => [Reviewed]_vars
  <2> SUFFICES ASSUME TypeOK, TypeOK', Next, RequiresReview, NEW t \in Src,
                      sources'[t] # None
               PROVE  \/ Small(t)
                      \/ \E w \in Worker : ApproveSource(w, t)
                      \/ Restart
    OBVIOUS
  <2>a. sources'[t].total \in Nat
    BY DEF TypeOK, SourceMap, SourceRec
  <2>0. ASSUME UNCHANGED entries PROVE Small(t)
    BY <2>0, <2>a, NothingVanished, NoneAssumption
  <2>1. ASSUME NEW w \in Worker, NEW s \in Src, NEW c \in Conf, UpsertSource(w, s, c)
        PROVE  UNCHANGED entries
    BY <2>1 DEF UpsertSource
  <2>2. ASSUME NEW w \in Worker, NEW s \in Src, DeleteSource(w, s)
        PROVE  Small(t)
    <3>1. CASE t = s
      BY <2>2, <3>1 DEF DeleteSource, TypeOK, SourceMap
    <3>2. CASE t # s
      <4>1. \A e \in Entry : entries[e] = t => entries'[e] # None
        BY <2>2, <3>2, NoneAssumption DEF DeleteSource
      <4>2. QED
        BY <2>a, <4>1, NothingVanished
    <3>3. QED
      BY <3>1, <3>2
  <2>3. ASSUME NEW w \in Worker, NEW s \in Src, SyncSourceBegin(w, s) \/ RejectSource(w, s)
        PROVE  UNCHANGED entries
    BY <2>3 DEF SyncSourceBegin, RejectSource
  <2>4. ASSUME NEW w \in Worker,
               SyncSourceFail(w) \/ Marshal(w) \/ Rename(w) \/ PersistError(w)
        PROVE  UNCHANGED entries
    BY <2>4 DEF SyncSourceFail, Marshal, Rename, PersistError
  <2>5. ASSUME NEW s \in Src, NEW list, t # s,
               entries' = applyEntriesLocked(entries, s, list)
        PROVE  Small(t)
    <3>1. \A e \in Entry : entries[e] = t => entries'[e] # None
      BY <2>5, NoneAssumption DEF applyEntriesLocked
    <3>2. QED
      BY <2>a, <3>1, NothingVanished
  <2>6. ASSUME NEW w \in Worker, NEW list \in ImportedList, SyncSourceDone(w, list)
        PROVE  Small(t)
    <3> DEFINE s == worker[w].src
               large == largeChange(removed(entries, s, list), list.lines)
    <3>1. s \in Src
      BY <2>6, PhaseFields DEF TypeOK, SyncSourceDone
    <3>2. entries' = IF large THEN entries ELSE applyEntriesLocked(entries, s, list)
      BY <2>6 DEF SyncSourceDone
    <3>5. s = t => sources'[t].total = list.lines
      <4>1. sources' = [sources EXCEPT ![s] =
                          [worker[w].rec EXCEPT !.review = large, !.total = list.lines]]
        BY <2>6 DEF SyncSourceDone
      <4>2. worker[w].rec \in SourceRec
        BY <2>6, PhaseFields DEF TypeOK, SyncSourceDone
      <4>3. QED
        BY <4>1, <4>2, <3>1 DEF TypeOK, SourceMap, SourceRec
    <3> HIDE DEF s
    <3>3. CASE large
      <4>1. UNCHANGED entries
        BY <3>2, <3>3
      <4>2. QED
        BY <4>1, <2>0
    <3>4. CASE ~large
      <4>1. entries' = applyEntriesLocked(entries, s, list)
        BY <3>2, <3>4
      <4>2. CASE t = s
        BY <3>1, <3>4, <3>5, <4>1, <4>2, SmallImport
      <4>3. CASE t # s
        BY <3>1, <4>1, <4>3, <2>5
      <4>4. QED
        BY <4>2, <4>3
    <3>6. QED
      BY <3>3, <3>4
  <2>7. ASSUME NEW w \in Worker, NEW s \in Src, ApproveSource(w, s)
        PROVE  \/ \E v \in Worker : ApproveSource(v, t)
               \/ Small(t)
    <3>1. CASE t = s
      BY <2>7, <3>1
    <3>2. CASE t # s
      BY <2>5, <2>7, <3>2 DEF ApproveSource
    <3>3. QED
      BY <3>1, <3>2
  <2>8. QED
    BY <2>0, <2>1, <2>2, <2>3, <2>4, <2>6, <2>7, ListOfSource DEF Next, SyncDue
<1>2. QED
  BY <1>1, TypeCorrect, PTL DEF Spec, LargeRemovalsReviewed
=============================================================================
