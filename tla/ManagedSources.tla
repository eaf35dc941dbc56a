--------------------------- MODULE ManagedSources ---------------------------
(***************************************************************************)
(* The managed-rewrite source store of internal/aghmanaged/manager.go: the *)
(* rule sources an administrator registers, the entries imported from      *)
(* them, the large imports held back for review, and the state file.       *)
(*                                                                         *)
(* A worker is a goroutine that calls the Manager: an admin request or a   *)
(* scheduler sync.  Each operation changes the memory under Manager.mu in  *)
(* one step, but SyncSource fetches with the lock released, and every      *)
(* operation saves after releasing it: the snapshot taken under the lock   *)
(* holds copies of the sources and the entries and a REFERENCE to the map  *)
(* of pending imports, which is read when the snapshot is serialised.      *)
(*                                                                         *)
(* Abstracted: an entry is its ID (a hash of its rule, so its class cannot *)
(* change under the same ID and diffEntries finds additions and removals   *)
(* only), a source is its settings, its PendingReview flag and its Entries *)
(* count, an imported list is the set of its entries with the number of    *)
(* its rules.  Overrides and feed bookkeeping are not part of this module. *)
(* The file-level steps of persistState are those of module StateFile;     *)
(* here the rename that publishes an image is one step.                    *)
(***************************************************************************)
EXTENDS Naturals, FiniteSets

CONSTANTS Src,             \* source IDs
          Entry,           \* entry IDs
          Importable,      \* Importable[s]: the lists source s can return
          Conf,            \* administrator's settings of a source
          EnabledConf,     \* the settings with Enabled = true
          Worker,          \* goroutines calling the Manager
          None,            \* an absent map entry
          RequiresReview,  \* scheduler.large_change_requires_review
          ThresholdCount,  \* scheduler.large_change_threshold_count
          ThresholdPercent \* scheduler.large_change_threshold_percent

\* What fetchSource returns: an entry for each rule line.  A repeated line is not
\* removed, so a list has at least as many lines as distinct IDs.
ImportedList ==
  {list \in [ids : SUBSET Entry, lines : Nat] :
     Cardinality(list.ids) <= list.lines /\ (list.ids = {} => list.lines = 0)}

SourceRec == [conf : Conf, review : BOOLEAN, total : Nat]

\* An AdGuard source names its entries "custom_rules" or "query_log" before it
\* hashes them, so two such sources list entries with the same IDs.
ASSUME ImportableAssumption ==
  DOMAIN Importable = Src /\ \A s \in Src : Importable[s] \subseteq ImportedList
ASSUME ConfAssumption == EnabledConf \subseteq Conf
ASSUME ThresholdAssumption ==
  /\ RequiresReview \in BOOLEAN
  /\ ThresholdCount \in Nat
  /\ ThresholdPercent \in Nat
ASSUME FiniteAssumption == IsFiniteSet(Entry)
ASSUME NoneAssumption == None \notin Src /\ None \notin SourceRec /\ None \notin ImportedList

VARIABLES sources,  \* m.sources: source ID -> record or None
          entries,  \* m.entries: entry ID -> owning source or None
          pending,  \* m.pending: source ID -> held-back list or None
          worker,   \* what each goroutine is doing
          disk      \* the state file

vars == <<sources, entries, pending, worker, disk>>

-----------------------------------------------------------------------------
(* State images.                                                           *)

SourceMap  == [Src -> SourceRec \cup {None}]
EntryMap   == [Entry -> Src \cup {None}]
PendingMap == [Src -> ImportedList \cup {None}]

\* What copyStateLocked returns: copies of sources and entries; the pending map
\* is left out when it is empty and referenced otherwise.
Snapshot == [sources : SourceMap, entries : EntryMap, aliased : BOOLEAN]
\* What a serialised snapshot, and the state file, hold.
Image    == [sources : SourceMap, entries : EntryMap, pending : PendingMap]

Idle == [phase |-> "idle"]
WorkerState ==
  {Idle} \cup [phase : {"fetching"}, src : Src, rec : SourceRec]
         \cup [phase : {"marshal"}, snap : Snapshot]
         \cup [phase : {"rename"}, image : Image]

NoSources == [s \in Src |-> None]
NoEntries == [e \in Entry |-> None]
NoPending == [s \in Src |-> None]

TypeOK ==
  /\ sources \in SourceMap
  /\ entries \in EntryMap
  /\ pending \in PendingMap
  /\ worker \in [Worker -> WorkerState]
  /\ disk \in Image

\* No file yet: Open starts from empty maps.
Init ==
  /\ sources = NoSources
  /\ entries = NoEntries
  /\ pending = NoPending
  /\ worker = [w \in Worker |-> Idle]
  /\ disk = [sources |-> NoSources, entries |-> NoEntries, pending |-> NoPending]

-----------------------------------------------------------------------------
(* Helpers.                                                                *)

entriesForSource(es, s) == {e \in Entry : es[e] = s}

\* Mutant: an import keeps the list's own name as the owner of its entries.
applyEntriesLocked_KeepsListName(es, s, list) ==
  [e \in Entry |-> IF e \in list.ids THEN "custom_rules" ELSE IF es[e] = s THEN None ELSE es[e]]

\* Every import drops what the source owned and then takes over what it lists,
\* also from another source that lists the same entry.
applyEntriesLocked(es, s, list) ==
  [e \in Entry |-> IF e \in list.ids THEN s ELSE IF es[e] = s THEN None ELSE es[e]]

removed(es, s, list) == Cardinality(entriesForSource(es, s) \ list.ids)

\* Mutant: a removal of exactly the threshold needs no review.
largeChange_Above(removedCount, total) ==
  /\ RequiresReview
  /\ \/ ThresholdCount > 0 /\ removedCount > ThresholdCount
     \/ /\ ThresholdPercent > 0
        /\ total # 0
        /\ (removedCount * 100) \div total > ThresholdPercent

\* The percentage is of the lines of the new list, repeated ones included.
largeChange(removedCount, total) ==
  /\ RequiresReview
  /\ \/ ThresholdCount > 0 /\ removedCount >= ThresholdCount
     \/ /\ ThresholdPercent > 0
        /\ total # 0
        /\ (removedCount * 100) \div total >= ThresholdPercent

copyStateLocked(src, es, pend) ==
  [sources |-> src, entries |-> es, aliased |-> \E s \in Src : pend[s] # None]

\* The tail of every operation: snapshot under the lock, to be saved later.
BeginSave(w) ==
  worker' = [worker EXCEPT ![w] =
    [phase |-> "marshal", snap |-> copyStateLocked(sources', entries', pending')]]

IsIdle(w) == worker[w].phase = "idle"

-----------------------------------------------------------------------------
(* Operations of the Manager.                                              *)

\* The sync bookkeeping of a known source is kept.
UpsertSource(w, s, c) ==
  /\ IsIdle(w)
  /\ sources' = [sources EXCEPT ![s] =
       [conf   |-> c,
        review |-> IF sources[s] # None THEN sources[s].review ELSE FALSE,
        total  |-> IF sources[s] # None THEN sources[s].total ELSE 0]]
  /\ UNCHANGED <<entries, pending, disk>>
  /\ BeginSave(w)

DeleteSource(w, s) ==
  /\ IsIdle(w)
  /\ sources' = [sources EXCEPT ![s] = None]
  /\ pending' = [pending EXCEPT ![s] = None]
  /\ entries' = [e \in Entry |-> IF entries[e] = s THEN None ELSE entries[e]]
  /\ UNCHANGED disk
  /\ BeginSave(w)

\* SyncSource up to the fetch: the source is copied under the read lock.
SyncSourceBegin(w, s) ==
  /\ IsIdle(w)
  /\ sources[s] # None
  /\ worker' = [worker EXCEPT ![w] = [phase |-> "fetching", src |-> s, rec |-> sources[s]]]
  /\ UNCHANGED <<sources, entries, pending, disk>>

\* SyncDue starts a sync of an enabled source; whether it is due is a matter of
\* time, so any enabled source may be.
SyncDue(w, s) ==
  /\ sources[s] # None /\ sources[s].conf \in EnabledConf
  /\ SyncSourceBegin(w, s)

\* The fetch failed: the copy taken before the fetch is written back.
SyncSourceFail(w) ==
  /\ worker[w].phase = "fetching"
  /\ sources' = [sources EXCEPT ![worker[w].src] = worker[w].rec]
  /\ UNCHANGED <<entries, pending, disk>>
  /\ BeginSave(w)

\* Mutant: a source deleted during the fetch is not written back, its list is.
SyncSourceDone_SkipsDeleted(w, list) ==
  LET s     == worker[w].src
      large == largeChange(removed(entries, s, list), list.lines)
  IN /\ worker[w].phase = "fetching"
     /\ list \in Importable[s]
     /\ sources' = IF sources[s] = None THEN sources
                   ELSE [sources EXCEPT ![s] =
                           [worker[w].rec EXCEPT !.review = large, !.total = list.lines]]
     /\ entries' = IF large THEN entries ELSE applyEntriesLocked(entries, s, list)
     /\ pending' = [pending EXCEPT ![s] = IF large THEN list ELSE None]
     /\ UNCHANGED disk
     /\ BeginSave(w)

\* The fetch returned list: compared with the entries the source owns NOW, then
\* applied or held back; the copy of the source is written back either way.
SyncSourceDone(w, list) ==
  LET s     == worker[w].src
      large == largeChange(removed(entries, s, list), list.lines)
  IN /\ worker[w].phase = "fetching"
     /\ list \in Importable[s]
     /\ sources' = [sources EXCEPT ![s] =
                      [worker[w].rec EXCEPT !.review = large, !.total = list.lines]]
     /\ entries' = IF large THEN entries ELSE applyEntriesLocked(entries, s, list)
     /\ pending' = [pending EXCEPT ![s] = IF large THEN list ELSE None]
     /\ UNCHANGED disk
     /\ BeginSave(w)

ApproveSource(w, s) ==
  /\ IsIdle(w)
  /\ sources[s] # None /\ pending[s] # None
  /\ sources' = [sources EXCEPT ![s].review = FALSE, ![s].total = pending[s].lines]
  /\ entries' = applyEntriesLocked(entries, s, pending[s])
  /\ pending' = [pending EXCEPT ![s] = None]
  /\ UNCHANGED disk
  /\ BeginSave(w)

RejectSource(w, s) ==
  /\ IsIdle(w)
  /\ sources[s] # None /\ pending[s] # None
  /\ sources' = [sources EXCEPT ![s].review = FALSE]
  /\ pending' = [pending EXCEPT ![s] = None]
  /\ UNCHANGED <<entries, disk>>
  /\ BeginSave(w)

-----------------------------------------------------------------------------
(* persistState, with Manager.mu released.                                 *)

\* json.MarshalIndent reads the referenced pending map as it is at that moment.
Marshal(w) ==
  /\ worker[w].phase = "marshal"
  /\ LET snap == worker[w].snap
     IN worker' = [worker EXCEPT ![w] =
          [phase |-> "rename",
           image |-> [sources |-> snap.sources,
                      entries |-> snap.entries,
                      pending |-> IF snap.aliased THEN pending ELSE NoPending]]]
  /\ UNCHANGED <<sources, entries, pending, disk>>

Rename(w) ==
  /\ worker[w].phase = "rename"
  /\ disk' = worker[w].image
  /\ worker' = [worker EXCEPT ![w] = Idle]
  /\ UNCHANGED <<sources, entries, pending>>

\* WriteFile or Rename fails: the caller gets the error, the memory stays changed.
PersistError(w) ==
  /\ worker[w].phase = "rename"
  /\ worker' = [worker EXCEPT ![w] = Idle]
  /\ UNCHANGED <<sources, entries, pending, disk>>

\* The process dies (also by Go's fatal error for a map written while it is being
\* serialised) and Open reads the file.
Restart ==
  /\ sources' = disk.sources
  /\ entries' = disk.entries
  /\ pending' = disk.pending
  /\ worker' = [w \in Worker |-> Idle]
  /\ UNCHANGED disk

-----------------------------------------------------------------------------
Next ==
  \/ \E w \in Worker, s \in Src :
       \/ \E c \in Conf : UpsertSource(w, s, c)
       \/ DeleteSource(w, s)
       \/ SyncSourceBegin(w, s)
       \/ SyncDue(w, s)
       \/ ApproveSource(w, s)
       \/ RejectSource(w, s)
  \/ \E w \in Worker :
       \/ SyncSourceFail(w)
       \/ \E list \in UNION {Importable[s] : s \in Src} : SyncSourceDone(w, list)
       \/ Marshal(w)
       \/ Rename(w)
       \/ PersistError(w)
  \/ Restart

Spec == Init /\ [][Next]_vars

-----------------------------------------------------------------------------
(* Properties.                                                             *)

Owned(src, es) == \A e \in Entry : es[e] # None => src[es[e]] # None

\* No orphaned entries: in memory, in every snapshot or image on its way to the
\* file, and in the file, each entry belongs to a source that exists, so that
\* deleting that source removes it.  At stake: SyncSource applies a list fetched
\* for a source that DeleteSource may have removed in the meantime.
EntriesOwned ==
  /\ Owned(sources, entries)
  /\ Owned(disk.sources, disk.entries)
  /\ \A w \in Worker :
       /\ worker[w].phase = "marshal" => Owned(worker[w].snap.sources, worker[w].snap.entries)
       /\ worker[w].phase = "rename" => Owned(worker[w].image.sources, worker[w].image.entries)

Vanished(s) == {e \in Entry : entries[e] = s /\ entries'[e] = None}

\* Large by the settings: by number, or relative to the lines of the new list.
Large(lost, total) ==
  \/ ThresholdCount > 0 /\ lost >= ThresholdCount
  \/ ThresholdPercent > 0 /\ total # 0 /\ lost * 100 >= ThresholdPercent * total

\* A large removal is reviewed: no step of any goroutine makes so many entries of a
\* source vanish, in number or relative to the lines the source then reports, while
\* that source stays, except the approval of a held-back list.  The comparison must
\* use the entries owned when the list is applied, not those owned when the fetch
\* began.  The percentage is NOT of the distinct entries: a list that repeats a line
\* reports more lines than it has entries, and a removal that is large relative to
\* the entries kept is applied unreviewed (largeChange, manager.go:513 and 2189).
LargeRemovalsReviewed ==
  [][RequiresReview =>
       \A s \in Src :
         \/ sources'[s] = None
         \/ ~Large(Cardinality(Vanished(s)), sources'[s].total)
         \/ \E w \in Worker : ApproveSource(w, s)
         \/ Restart]_vars

\* A deleted source stays deleted: only registering it again, or a restart from an
\* older file, brings it back.  The test of DeleteSource asserts that no source is
\* left; a SyncSource that was fetching meanwhile writes its copy back.
DeletedStaysDeleted ==
  [][\A s \in Src : sources[s] = None /\ sources'[s] # None =>
       \/ \E w \in Worker, c \in Conf : UpsertSource(w, s, c)
       \/ Restart]_vars

=============================================================================
