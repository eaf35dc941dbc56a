-------------------------- MODULE ManagedOverrides --------------------------
(***************************************************************************)
(* The administrator's side of the managed catalog in                      *)
(* internal/aghmanaged/manager.go: overrides over imported entries, the    *)
(* conflicts between entries for the same domain, their resolution, and    *)
(* the rollback history.                                                   *)
(*                                                                         *)
(* Each operation changes the memory under Manager.mu in one step.  Its    *)
(* save runs after the unlock: it reaches the file, fails, or is overtaken *)
(* by the next operation and mixes that one's changes into the file, since *)
(* what copyStateLocked returns shares the map of overrides and the array  *)
(* of records with the memory.  A mixed file is written here with one      *)
(* operation's changes, each override and each record read whole; nothing  *)
(* is claimed of it but its type, so more of them would add nothing.       *)
(* (What overlapping writes do to the file is the subject of StateFile.)   *)
(* Imports are the part of SyncSource, ApproveSource and DeleteSource that *)
(* changes entries and overrides; their control is that of ManagedSources. *)
(*                                                                         *)
(* Abstracted: the fields of an override that neither conflicts nor the    *)
(* feed look at (they are merged like the others), the texts and times of  *)
(* a record, and the order of entry IDs, which are hashes.  An entry keeps *)
(* its imported fields: its ID is a hash of its rule.  Entries without a   *)
(* domain take no part in conflicts and are left out.                      *)
(***************************************************************************)
EXTENDS Naturals, Sequences, FiniteSets

CONSTANTS Src,          \* source IDs
          Entry,        \* entry IDs
          Importable,   \* Importable[s]: the entries source s can list
          Priority,     \* Priority[s]: Source.Priority
          Key,          \* domain and path
          KeyOf,        \* KeyOf[e]: what entry e is about
          Imported,     \* Imported[e]: the fields of e as imported
          Patch,        \* what an administrator sends
          Value,        \* field values
          PresetChoice, \* the presets the administrator picks from
          None, Unset,  \* an absent map entry; an empty or nil field
          MaxRollbacks, \* 50
          Bounded       \* bound of TLC's runs: a save fails only while the file is
                        \* up to date, and Open is not followed into a mixed file

Field    == {"category", "review", "confidence", "verified", "action", "rewrite"}
Override == [Field -> Value \cup {Unset}]
Preset   == {"conservative", "balanced", "aggressive"}

\* rulecatalog fills in an empty category or review status when it imports; an entry's
\* verified flag is not a pointer.
ASSUME ImportedAssumption ==
  /\ Imported \in [Entry -> Override]
  /\ \A e \in Entry : \A f \in {"category", "review", "verified"} : Imported[e][f] # Unset
ASSUME SourceAssumption ==
  /\ Importable \in [Src -> SUBSET Entry]
  /\ Priority \in [Src -> Nat]
  /\ KeyOf \in [Entry -> Key]
ASSUME ChoiceAssumption == Patch \subseteq Override /\ PresetChoice \subseteq Preset
ASSUME TokenAssumption == None \notin Src /\ None \notin Override /\ Unset \notin Value
ASSUME CapAssumption == MaxRollbacks \in Nat \ {0} /\ Bounded \in BOOLEAN

VARIABLES entries,   \* m.entries: entry ID -> owning source or None
          overrides, \* m.overrides: entry ID -> override or None
          rollbacks, \* m.rollbacks, oldest first
          preset,    \* the effective preset
          disk,      \* the state file
          mixed      \* history: the memory was read from a file that is mixed

vars == <<entries, overrides, rollbacks, preset, disk, mixed>>

EntryMap    == [Entry -> Src \cup {None}]
OverrideMap == [Entry -> Override \cup {None}]
\* before and after are None outside ids, and where there was no override.  History:
\* lost, the entries whose override went with their source before they were changed again.
Record      == [ids : SUBSET Entry, before : OverrideMap, after : OverrideMap,
                lost : SUBSET Entry]
Rollbacks   == Seq(Record)
\* History: mixed, the overrides and the records are of different moments.
Images      == [entries : EntryMap, overrides : OverrideMap, rollbacks : Rollbacks,
                preset : Preset, mixed : BOOLEAN]

Image == [entries |-> entries, overrides |-> overrides, rollbacks |-> rollbacks,
          preset |-> preset, mixed |-> mixed]

TypeOK ==
  /\ entries \in EntryMap
  /\ overrides \in OverrideMap
  /\ rollbacks \in Rollbacks /\ Len(rollbacks) <= MaxRollbacks
  /\ preset \in Preset
  /\ disk \in Images /\ Len(disk.rollbacks) <= MaxRollbacks
  /\ mixed \in BOOLEAN

Init ==
  /\ entries = [e \in Entry |-> None]
  /\ overrides = [e \in Entry |-> None]
  /\ rollbacks = <<>>
  /\ preset = "balanced"
  /\ mixed = FALSE
  /\ disk = Image

-----------------------------------------------------------------------------
(* Rows and conflicts.                                                     *)

mergeOverride(dst, src) == [f \in Field |-> IF src[f] # Unset THEN src[f] ELSE dst[f]]

Blank == [f \in Field |-> Unset]

\* m.overrides[e], which is the zero value when there is none.
overrideOf(e) == IF overrides[e] = None THEN Blank ELSE overrides[e]

\* applyOverrideLocked, and effectiveMirageAction for the action.
row(e) == mergeOverride(Imported[e], overrideOf(e))

\* confidenceAtLeast(c, "medium"): an empty confidence counts as medium.
confident(c) == c \in {"medium", "high", Unset}

byPreset(p, r) ==
  CASE p = "conservative" -> r["review"] = "approved" /\ r["verified"] = "true"
    [] p = "aggressive"   -> r["review"] \notin {"rejected", "disabled"}
    [] OTHER              -> \/ r["review"] \in {"approved", "needs_test"}
                             \/ r["review"] = "candidate" /\ confident(r["confidence"])

rewriteEnabled(e) ==
  IF overrideOf(e)["rewrite"] # Unset THEN overrideOf(e)["rewrite"] = "true"
  ELSE byPreset(preset, row(e))

IsAllow(e) == row(e)["category"] = "allow_exception"

conflictParticipant(e) == IsAllow(e) \/ rewriteEnabled(e)

rewriteActionConflictReason(e) ==
  IF ~rewriteEnabled(e) \/ IsAllow(e) THEN {}
  ELSE IF row(e)["action"] = Unset THEN {"missing mirage action"}
  ELSE IF row(e)["action"] \in {"passthrough", "forward-asis"} THEN {"unsafe mirage action"}
  ELSE {}

Rows(k) == {e \in Entry : entries[e] # None /\ KeyOf[e] = k}
Participants(k) == {e \in Rows(k) : conflictParticipant(e)}

Values(rows, f) == {row(e)[f] : e \in rows}

\* buildConflicts: why the entries for k contradict each other.
Reasons(k) ==
  LET rows    == Rows(k)
      parties == {e \in rows : conflictParticipant(e)}
      Because(holds, reason) == IF holds THEN {reason} ELSE {}
  IN UNION {rewriteActionConflictReason(e) : e \in rows}
       \cup Because(Cardinality(Values(parties, "category")) > 1, "category mismatch")
       \cup Because(Cardinality(Values(parties, "review")) > 1, "review_status mismatch")
       \cup Because((\E e \in parties : IsAllow(e)) /\ \E e \in parties : ~IsAllow(e),
                    "allow_exception conflicts with rewrite candidate")

-----------------------------------------------------------------------------
(* Operations.                                                             *)

\* The save of the operation before this one, serialised while this one changes the
\* map of overrides and, in place, the array of records: some overrides and records
\* are read as they were and some as they are then (array).  The other lists and the
\* preset were copied.
Overtaken(array) ==
  \E ahead \in SUBSET {e \in Entry : overrides'[e] # overrides[e]},
     moved \in SUBSET {k \in DOMAIN rollbacks : array[k] # rollbacks[k]} :
    disk' = [entries   |-> entries,
             overrides |-> [e \in Entry |-> IF e \in ahead THEN overrides'[e] ELSE overrides[e]],
             rollbacks |-> [k \in DOMAIN rollbacks |-> IF k \in moved THEN array[k]
                                                       ELSE rollbacks[k]],
             preset    |-> preset,
             mixed     |-> mixed \/ ahead # {} \/ moved # {}]

\* persistState, after the unlock.
Save(array) ==
  \/ disk' = Image'
  \/ Overtaken(array)
  \/ (Bounded => disk = Image) /\ UNCHANGED disk

\* Mutant: the history is not cut.
recordRollbackLocked_Uncapped(ids) ==
  rollbacks' = Append(rollbacks,
    [ids    |-> ids,
     before |-> [e \in Entry |-> IF e \in ids THEN overrides[e] ELSE None],
     after  |-> [e \in Entry |-> IF e \in ids THEN overrides'[e] ELSE None],
     lost   |-> {}])

\* captureOverrides before the change, recordRollbackLocked after it.
recordRollbackLocked(ids) ==
  LET rec == [ids    |-> ids,
              before |-> [e \in Entry |-> IF e \in ids THEN overrides[e] ELSE None],
              after  |-> [e \in Entry |-> IF e \in ids THEN overrides'[e] ELSE None],
              lost   |-> {}]
      all == Append(rollbacks, rec)
  IN rollbacks' = IF Len(all) > MaxRollbacks
                  THEN SubSeq(all, Len(all) - MaxRollbacks + 1, Len(all)) ELSE all

\* The body of all four operations that change overrides.
Merge(ids, patch) ==
  /\ overrides' = [e \in Entry |-> IF e \in ids THEN mergeOverride(overrideOf(e), patch)
                                   ELSE overrides[e]]
  /\ recordRollbackLocked(ids)
  /\ UNCHANGED <<entries, preset, mixed>>
  /\ Save(rollbacks)

PatchEntry(e, patch) ==
  /\ entries[e] # None
  /\ Merge({e}, patch)

BulkPatchEntries(ids, patch) ==
  /\ ids # {}
  /\ \A e \in ids : entries[e] # None
  /\ Merge(ids, patch)

\* The first row that is a rewrite candidate, else the first row.
ResolveConflict(k, patch) ==
  LET candidates == {e \in Rows(k) : ~IsAllow(e) /\ rewriteEnabled(e)}
  IN /\ Reasons(k) # {}
     /\ \E e \in IF candidates # {} THEN candidates ELSE Rows(k) : Merge({e}, patch)

\* Mutant: the review status of the winner is not handed on.
winnerPatch_NoReview(e) ==
  [f \in Field |-> CASE f = "rewrite" -> Unset
                     [] f = "review"  -> Unset
                     [] f = "action"  -> overrideOf(e)["action"]
                     [] OTHER         -> row(e)[f]]

\* What the others get from the winner: its classification and the action of its
\* own override.
winnerPatch(e) ==
  [f \in Field |-> CASE f = "rewrite" -> Unset
                     [] f = "action"  -> overrideOf(e)["action"]
                     [] OTHER         -> row(e)[f]]

\* Refused for a tie of the highest priority.
ResolveConflictByPriority(k) ==
  LET rows    == Rows(k)
      parties == Participants(k)
  IN /\ Reasons(k) # {}
     /\ \E e \in parties :
          /\ \A d \in parties \ {e} : Priority[entries[d]] < Priority[entries[e]]
          /\ rows # {e}
          /\ Merge(rows \ {e}, winnerPatch(e))

\* append(rollbacks[:i-1], rollbacks[i:]...) moves the later records up in the array.
RemovedInPlace(i) ==
  [k \in DOMAIN rollbacks |-> IF k \in i .. Len(rollbacks) - 1 THEN rollbacks[k + 1]
                              ELSE rollbacks[k]]

\* Mutant: a later change of the same entry does not matter.
Rollback_Unchecked(i) ==
  LET rec == rollbacks[i]
  IN /\ \A e \in rec.ids : entries[e] # None
     /\ overrides' = [e \in Entry |-> IF e \in rec.ids THEN rec.before[e] ELSE overrides[e]]
     /\ rollbacks' = SubSeq(rollbacks, 1, i - 1) \o SubSeq(rollbacks, i + 1, Len(rollbacks))
     /\ UNCHANGED <<entries, preset, mixed>>
     /\ Save(RemovedInPlace(i))

\* Refused when an entry is gone or a later record has one of its entries.
Rollback(i) ==
  LET rec == rollbacks[i]
  IN /\ \A e \in rec.ids : entries[e] # None
     /\ \A j \in i + 1 .. Len(rollbacks) : rollbacks[j].ids \cap rec.ids = {}
     /\ overrides' = [e \in Entry |-> IF e \in rec.ids THEN rec.before[e] ELSE overrides[e]]
     /\ rollbacks' = SubSeq(rollbacks, 1, i - 1) \o SubSeq(rollbacks, i + 1, Len(rollbacks))
     /\ UNCHANGED <<entries, preset, mixed>>
     /\ Save(RemovedInPlace(i))

SetPreset(p) ==
  /\ preset' = p
  /\ UNCHANGED <<entries, overrides, rollbacks, mixed>>
  /\ Save(rollbacks)

\* applyEntriesLocked: overrides stay, also those of entries that are gone.
applyEntriesLocked(s, list) ==
  /\ list \subseteq Importable[s]
  /\ entries' = [e \in Entry |-> IF e \in list THEN s
                                 ELSE IF entries[e] = s THEN None ELSE entries[e]]
  /\ UNCHANGED <<overrides, rollbacks, preset, mixed>>
  /\ Save(rollbacks)

\* The entries whose last change record i is.
lastChanged(i) ==
  {e \in rollbacks[i].ids : \A j \in i + 1 .. Len(rollbacks) : e \notin rollbacks[j].ids}

\* The overrides of the entries go with the source, the records do not.
DeleteSource(s) ==
  LET gone == {e \in Entry : entries[e] = s}
  IN /\ entries' = [e \in Entry |-> IF e \in gone THEN None ELSE entries[e]]
     /\ overrides' = [e \in Entry |-> IF e \in gone THEN None ELSE overrides[e]]
     /\ rollbacks' = [i \in DOMAIN rollbacks |->
                        [rollbacks[i] EXCEPT !.lost = @ \cup (gone \cap lastChanged(i))]]
     /\ UNCHANGED <<preset, mixed>>
     /\ Save(rollbacks)

\* The process ends and Open reads the file.
Restart ==
  /\ Bounded => ~disk.mixed
  /\ entries' = disk.entries /\ overrides' = disk.overrides
  /\ rollbacks' = disk.rollbacks /\ preset' = disk.preset /\ mixed' = disk.mixed
  /\ UNCHANGED disk

Next ==
  \/ \E patch \in Patch :
       \/ \E e \in Entry : PatchEntry(e, patch)
       \/ \E ids \in SUBSET Entry : BulkPatchEntries(ids, patch)
       \/ \E k \in Key : ResolveConflict(k, patch)
  \/ \E k \in Key : ResolveConflictByPriority(k)
  \/ \E i \in 1 .. Len(rollbacks) : Rollback(i)
  \/ \E p \in PresetChoice : SetPreset(p)
  \/ \E s \in Src : (\E list \in SUBSET Entry : applyEntriesLocked(s, list)) \/ DeleteSource(s)
  \/ Restart

Spec == Init /\ [][Next]_vars

-----------------------------------------------------------------------------
(* Properties.                                                             *)

\* What a change left is what the next one found, unless the override went with the
\* entry's source in between.
Link(e, rec, found) == found = rec.after[e] \/ (found = None /\ e \in rec.lost)

Chain(ovs, recs) ==
  \A i \in 1 .. Len(recs) : \A e \in recs[i].ids :
    /\ (\A j \in i + 1 .. Len(recs) : e \notin recs[j].ids) => Link(e, recs[i], ovs[e])
    /\ \A j \in i + 1 .. Len(recs) :
         e \in recs[j].ids /\ (\A l \in i + 1 .. j - 1 : e \notin recs[l].ids)
           => Link(e, recs[i], recs[j].before[e])

\* The records chain: for each entry the last record describes the override in force,
\* and each record starts where the one before it ended, whatever was rolled back, cut
\* off, lost in a failed save or read back from an older file; so a rollback that is
\* accepted undoes the change it names.  Two things break the chain in the code.  A
\* deleted source takes overrides along and leaves their records (manager.go:479): the
\* record says so here (lost).  And a file whose save was overtaken by a change is NOT
\* a chain: copyStateLocked shares the overrides and the records (1744, 1750), and
\* persistState serialises them after the unlock (1051-1053, 1127-1131).  Of such a
\* file, and of a memory read from it (mixed), the chain is not claimed.
RollbackChain ==
  /\ ~mixed => Chain(overrides, rollbacks)
  /\ ~disk.mixed => Chain(disk.overrides, disk.rollbacks)

\* Resolving a conflict by priority settles it: no contradiction in classification is
\* left between the entries, whatever overrides they had and whoever takes part only
\* because of the resolution; what may remain is the action of an entry.
PriorityResolves ==
  [][\A k \in Key : ResolveConflictByPriority(k) =>
       Reasons(k)' \subseteq {"missing mirage action", "unsafe mirage action"}]_vars

=============================================================================
