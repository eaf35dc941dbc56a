----------------------- MODULE ManagedOverridesProofs -----------------------
(***************************************************************************)
(* Proofs about ManagedOverrides for any sources, entries, patches and     *)
(* length of the history.                                                  *)
(***************************************************************************)
EXTENDS ManagedOverrides, SequenceTheorems, FiniteSetTheorems, TLAPS

-----------------------------------------------------------------------------
(* Types.                                                                  *)

LEMMA MergeType ==
  ASSUME NEW dst \in Override, NEW src \in Override
  PROVE  mergeOverride(dst, src) \in Override
BY DEF mergeOverride, Override

LEMMA RowType ==
  ASSUME TypeOK, NEW e \in Entry
  PROVE  overrideOf(e) \in Override /\ row(e) \in Override
<1>1. overrideOf(e) \in Override
  BY DEF TypeOK, overrideOf, OverrideMap, Blank, Override
<1>2. QED
  BY <1>1, MergeType, ImportedAssumption DEF row

LEMMA WinnerPatchType ==
  ASSUME TypeOK, NEW e \in Entry
  PROVE  winnerPatch(e) \in Override
BY RowType DEF winnerPatch, Override

\* What a change does to the overrides and to the history, before the cap.
Changed(ids) ==
  [ids    |-> ids,
   before |-> [e \in Entry |-> IF e \in ids THEN overrides[e] ELSE None],
   after  |-> [e \in Entry |-> IF e \in ids THEN overrides'[e] ELSE None],
   lost   |-> {}]

\* The history after a change is well typed and within its cap.
LEMMA RecordType ==
  ASSUME TypeOK, NEW ids \in SUBSET Entry, overrides' \in OverrideMap,
         recordRollbackLocked(ids)
  PROVE  rollbacks' \in Rollbacks /\ Len(rollbacks') <= MaxRollbacks
<1> DEFINE all == Append(rollbacks, Changed(ids))
<1>1. Changed(ids) \in Record
  BY DEF Changed, TypeOK, Record, OverrideMap
<1>2. rollbacks \in Seq(Record) /\ Len(rollbacks) \in Nat /\ Len(rollbacks) <= MaxRollbacks
  BY LenProperties DEF TypeOK, Rollbacks, Record
<1>3. all \in Seq(Record) /\ Len(all) = Len(rollbacks) + 1
  BY <1>1, <1>2, AppendProperties
<1>4. rollbacks' = IF Len(all) > MaxRollbacks
                   THEN SubSeq(all, Len(all) - MaxRollbacks + 1, Len(all)) ELSE all
  BY DEF recordRollbackLocked, Changed
<1> HIDE DEF all
<1>5. CASE Len(all) > MaxRollbacks
  <2>1. Len(all) - MaxRollbacks + 1 \in 1 .. Len(all) + 1 /\ Len(all) \in 0 .. Len(all)
    BY <1>2, <1>3, <1>5, CapAssumption
  <2>2. /\ SubSeq(all, Len(all) - MaxRollbacks + 1, Len(all)) \in Seq(Record)
        /\ Len(SubSeq(all, Len(all) - MaxRollbacks + 1, Len(all))) = MaxRollbacks
    BY <1>2, <1>3, <1>5, <2>1, SubSeqProperties, CapAssumption
  <2>3. QED
    BY <1>4, <1>5, <2>2, CapAssumption DEF Rollbacks, Record
<1>6. CASE ~(Len(all) > MaxRollbacks)
  BY <1>2, <1>3, <1>4, <1>6, CapAssumption DEF Rollbacks, Record
<1>7. QED
  BY <1>5, <1>6

\* The records, read while they are replaced by others in place, are records.
LEMMA MovedType ==
  ASSUME rollbacks \in Rollbacks, Len(rollbacks) <= MaxRollbacks,
         NEW array \in [DOMAIN rollbacks -> Record], NEW moved
  PROVE  LET recs == [k \in DOMAIN rollbacks |-> IF k \in moved THEN array[k] ELSE rollbacks[k]]
         IN recs \in Rollbacks /\ Len(recs) <= MaxRollbacks
<1> DEFINE recs == [k \in DOMAIN rollbacks |-> IF k \in moved THEN array[k] ELSE rollbacks[k]]
<1>1. Len(rollbacks) \in Nat /\ DOMAIN rollbacks = 1 .. Len(rollbacks)
  BY LenProperties DEF Rollbacks
<1>2. \A k \in 1 .. Len(rollbacks) : rollbacks[k] \in Record
  BY ElementOfSeq DEF Rollbacks
<1>3. recs \in [1 .. Len(rollbacks) -> Record]
  BY <1>1, <1>2
<1>4. recs \in Seq(Record) /\ Len(recs) = Len(rollbacks)
  <2>1. recs \in Seq(Record)
    BY <1>1, <1>3, IsASeq DEF recs
  <2>2. DOMAIN recs = 1 .. Len(rollbacks)
    BY <1>1
  <2>3. QED
    BY <1>1, <2>1, <2>2, LenProperties
<1>5. QED
  BY <1>4 DEF Rollbacks

\* The array of records while the history stays as it is, or grows at its end.
LEMMA SameArray ==
  ASSUME rollbacks \in Rollbacks
  PROVE  rollbacks \in [DOMAIN rollbacks -> Record]
<1>1. rollbacks \in Seq(Record)
  BY DEF Rollbacks
<1>2. QED
  BY <1>1, LenProperties, ElementOfSeq

\* A save keeps the file well typed when the memory is, whatever it is overtaken by.
LEMMA SaveType ==
  ASSUME TypeOK, NEW array \in [DOMAIN rollbacks -> Record], Save(array),
         entries' \in EntryMap, overrides' \in OverrideMap,
         rollbacks' \in Rollbacks, Len(rollbacks') <= MaxRollbacks, preset' \in Preset,
         mixed' \in BOOLEAN
  PROVE  disk' \in Images /\ Len(disk'.rollbacks) <= MaxRollbacks
<1>1. CASE disk' = Image'
  BY <1>1 DEF Image, Images
<1>2. CASE Overtaken(array)
  <2>1. PICK ahead \in SUBSET {e \in Entry : overrides'[e] # overrides[e]},
             moved \in SUBSET {k \in DOMAIN rollbacks : array[k] # rollbacks[k]} :
          disk' = [entries   |-> entries,
                   overrides |-> [e \in Entry |-> IF e \in ahead THEN overrides'[e] ELSE overrides[e]],
                   rollbacks |-> [k \in DOMAIN rollbacks |-> IF k \in moved THEN array[k]
                                                             ELSE rollbacks[k]],
                   preset    |-> preset,
                   mixed     |-> mixed \/ ahead # {} \/ moved # {}]
    BY <1>2 DEF Overtaken
  <2>2. entries \in EntryMap /\ preset \in Preset /\ mixed \in BOOLEAN
    BY DEF TypeOK
  <2>3. disk'.overrides \in OverrideMap
    BY <2>1 DEF TypeOK, OverrideMap
  <2>4. disk'.rollbacks \in Rollbacks /\ Len(disk'.rollbacks) <= MaxRollbacks
    <3>1. disk'.rollbacks = [k \in DOMAIN rollbacks |-> IF k \in moved THEN array[k]
                                                        ELSE rollbacks[k]]
      BY <2>1
    <3>2. QED
      BY <3>1, MovedType DEF TypeOK
  <2>5. QED
    BY <2>1, <2>2, <2>3, <2>4 DEF Images
<1>3. CASE UNCHANGED disk
  BY <1>3 DEF TypeOK
<1>4. QED
  BY <1>1, <1>2, <1>3 DEF Save

LEMMA MergeKeepsType ==
  ASSUME TypeOK, NEW ids \in SUBSET Entry, NEW patch \in Override, Merge(ids, patch)
  PROVE  TypeOK'
<1>1. overrides' \in OverrideMap
  <2>1. \A e \in Entry : mergeOverride(overrideOf(e), patch) \in Override
    BY RowType, MergeType
  <2>2. QED
    BY <2>1 DEF Merge, TypeOK, OverrideMap
<1>2. rollbacks' \in Rollbacks /\ Len(rollbacks') <= MaxRollbacks
  BY <1>1, RecordType DEF Merge
<1>3. entries' \in EntryMap /\ preset' \in Preset /\ mixed' \in BOOLEAN /\ Save(rollbacks)
  BY DEF Merge, TypeOK
<1>4. rollbacks \in [DOMAIN rollbacks -> Record]
  BY SameArray DEF TypeOK
<1>5. QED
  BY <1>1, <1>2, <1>3, <1>4, SaveType DEF TypeOK

\* Taking record i out of the history: length and elements of what is left.
LEMMA RemoveAtProperties ==
  ASSUME NEW S, NEW recs \in Seq(S), NEW i \in 1 .. Len(recs)
  PROVE  LET rest == SubSeq(recs, 1, i - 1) \o SubSeq(recs, i + 1, Len(recs))
         IN /\ rest \in Seq(S)
            /\ Len(rest) = Len(recs) - 1
            /\ \A k \in 1 .. Len(rest) : rest[k] = recs[IF k < i THEN k ELSE k + 1]
<1> DEFINE front == SubSeq(recs, 1, i - 1)
           back  == SubSeq(recs, i + 1, Len(recs))
           rest  == front \o back
<1>0. Len(recs) \in Nat /\ i \in Nat /\ 1 <= i /\ i <= Len(recs)
  BY LenProperties
<1>1. /\ front \in Seq(S) /\ Len(front) = i - 1
      /\ \A k \in 1 .. i - 1 : front[k] = recs[k]
  <2>1. 1 \in 1 .. Len(recs) + 1 /\ i - 1 \in 0 .. Len(recs)
    BY <1>0
  <2>2. QED
    BY <1>0, <2>1, SubSeqProperties
<1>2. /\ back \in Seq(S) /\ Len(back) = Len(recs) - i
      /\ \A k \in 1 .. Len(recs) - i : back[k] = recs[k + i]
  <2>1. i + 1 \in 1 .. Len(recs) + 1 /\ Len(recs) \in 0 .. Len(recs)
    BY <1>0
  <2>2. QED
    BY <1>0, <2>1, SubSeqProperties
<1> HIDE DEF front, back
<1>3. /\ rest \in Seq(S) /\ Len(rest) = Len(front) + Len(back)
      /\ \A k \in 1 .. Len(front) + Len(back) :
           rest[k] = IF k <= Len(front) THEN front[k] ELSE back[k - Len(front)]
  BY <1>1, <1>2, ConcatProperties
<1>4. Len(rest) = Len(recs) - 1
  BY <1>0, <1>1, <1>2, <1>3
<1>5. ASSUME NEW k \in 1 .. Len(rest)
      PROVE  rest[k] = recs[IF k < i THEN k ELSE k + 1]
  <2>1. CASE k < i
    BY <1>0, <1>1, <1>2, <1>3, <1>4, <2>1
  <2>2. CASE ~(k < i)
    <3>1. k - (i - 1) \in 1 .. Len(recs) - i
      BY <1>0, <1>4, <2>2
    <3>2. rest[k] = back[k - (i - 1)]
      BY <1>0, <1>1, <1>2, <1>3, <1>4, <2>2
    <3>3. back[k - (i - 1)] = recs[k - (i - 1) + i]
      BY <1>2, <3>1
    <3>4. QED
      BY <1>0, <2>2, <3>2, <3>3
  <2>3. QED
    BY <2>1, <2>2
<1>6. QED
  BY <1>3, <1>4, <1>5 DEF front, back

\* The history after a deletion, which notes the overrides that went with the source.
NotedLost(gone) ==
  [i \in DOMAIN rollbacks |->
     [rollbacks[i] EXCEPT !.lost = @ \cup (gone \cap lastChanged(i))]]

LEMMA NotedLostType ==
  ASSUME rollbacks \in Rollbacks, NEW gone \in SUBSET Entry
  PROVE  /\ NotedLost(gone) \in Seq(Record)
         /\ Len(NotedLost(gone)) = Len(rollbacks)
         /\ \A i \in 1 .. Len(rollbacks) :
              /\ NotedLost(gone)[i].ids = rollbacks[i].ids
              /\ NotedLost(gone)[i].before = rollbacks[i].before
              /\ NotedLost(gone)[i].after = rollbacks[i].after
              /\ NotedLost(gone)[i].lost = rollbacks[i].lost \cup (gone \cap lastChanged(i))
<1>1. Len(rollbacks) \in Nat /\ DOMAIN rollbacks = 1 .. Len(rollbacks)
  BY LenProperties DEF Rollbacks
<1>2. \A i \in 1 .. Len(rollbacks) : rollbacks[i] \in Record
  BY ElementOfSeq DEF Rollbacks
<1>3. \A i \in 1 .. Len(rollbacks) :
        [rollbacks[i] EXCEPT !.lost = @ \cup (gone \cap lastChanged(i))] \in Record
  BY <1>2 DEF Record
<1>4. NotedLost(gone) \in [1 .. Len(rollbacks) -> Record]
  BY <1>1, <1>3 DEF NotedLost
<1>5. NotedLost(gone) \in Seq(Record)
  BY <1>1, <1>4, IsASeq
<1>6. Len(NotedLost(gone)) = Len(rollbacks)
  BY <1>1, <1>4, <1>5, LenProperties
<1>7. QED
  BY <1>1, <1>2, <1>5, <1>6 DEF NotedLost, Record

\* Every reachable state is well typed: in particular no operation, and no file that
\* is read back, has more than MaxRollbacks records.
THEOREM TypeCorrect == Spec => []TypeOK
<1>1. Init => TypeOK
  <2> SUFFICES ASSUME Init PROVE TypeOK
    OBVIOUS
  <2>1. <<>> \in Rollbacks /\ Len(<<>>) = 0
    BY EmptySeq DEF Rollbacks
  <2>2. entries \in EntryMap /\ overrides \in OverrideMap /\ preset \in Preset
    BY DEF Init, EntryMap, OverrideMap, Preset
  <2>3. disk = Image /\ rollbacks = <<>> /\ mixed \in BOOLEAN
    BY DEF Init
  <2>4. Image \in Images /\ Image.rollbacks = <<>>
    BY <2>1, <2>2, <2>3 DEF Image, Images
  <2>5. QED
    BY <2>1, <2>2, <2>3, <2>4, CapAssumption DEF TypeOK
<1>2. TypeOK /\ [Next]_vars => TypeOK'
  <2> SUFFICES ASSUME TypeOK, [Next]_vars PROVE TypeOK'
    OBVIOUS
  <2>1. ASSUME NEW patch \in Patch, NEW e \in Entry, PatchEntry(e, patch) PROVE TypeOK'
    BY <2>1, MergeKeepsType, ChoiceAssumption DEF PatchEntry
  <2>2. ASSUME NEW patch \in Patch, NEW ids \in SUBSET Entry, BulkPatchEntries(ids, patch)
        PROVE  TypeOK'
    BY <2>2, MergeKeepsType, ChoiceAssumption DEF BulkPatchEntries
  <2>3. ASSUME NEW patch \in Patch, NEW k \in Key, ResolveConflict(k, patch) PROVE TypeOK'
    <3>1. PICK e \in Entry : Merge({e}, patch)
      BY <2>3 DEF ResolveConflict, Rows
    <3>2. QED
      BY <3>1, MergeKeepsType, ChoiceAssumption
  <2>4. ASSUME NEW k \in Key, ResolveConflictByPriority(k) PROVE TypeOK'
    <3>1. PICK e \in Entry : Merge(Rows(k) \ {e}, winnerPatch(e))
      BY <2>4 DEF ResolveConflictByPriority, Participants, Rows
    <3>2. Rows(k) \ {e} \subseteq Entry
      BY DEF Rows
    <3>3. QED
      BY <3>1, <3>2, MergeKeepsType, WinnerPatchType
  <2>5. ASSUME NEW i \in 1 .. Len(rollbacks), Rollback(i) PROVE TypeOK'
    <3>1. rollbacks \in Seq(Record)
      BY DEF TypeOK, Rollbacks, Record
    <3>2. rollbacks[i] \in Record
      BY <3>1, ElementOfSeq
    <3>3. overrides' \in OverrideMap
      BY <2>5, <3>2 DEF Rollback, Record, OverrideMap, TypeOK
    <3>4. rollbacks' \in Seq(Record) /\ Len(rollbacks') = Len(rollbacks) - 1
      BY <2>5, <3>1, RemoveAtProperties DEF Rollback
    <3>5. rollbacks' \in Rollbacks /\ Len(rollbacks') <= MaxRollbacks
      <4>1. Len(rollbacks) \in Nat
        BY <3>1, LenProperties
      <4>2. QED
        BY <3>4, <4>1, CapAssumption DEF TypeOK, Rollbacks, Record
    <3>6. /\ entries' \in EntryMap /\ preset' \in Preset /\ mixed' \in BOOLEAN
          /\ Save(RemovedInPlace(i))
      BY <2>5 DEF Rollback, TypeOK
    <3>7. RemovedInPlace(i) \in [DOMAIN rollbacks -> Record]
      <4>1. Len(rollbacks) \in Nat /\ DOMAIN rollbacks = 1 .. Len(rollbacks)
        BY <3>1, LenProperties
      <4>2. \A k \in 1 .. Len(rollbacks) : rollbacks[k] \in Record
        BY <3>1, ElementOfSeq
      <4>3. \A k \in i .. Len(rollbacks) - 1 : k + 1 \in 1 .. Len(rollbacks)
        BY <4>1
      <4>4. QED
        BY <4>1, <4>2, <4>3 DEF RemovedInPlace
    <3>8. QED
      BY <3>3, <3>5, <3>6, <3>7, SaveType DEF TypeOK
  <2>6. ASSUME NEW p \in PresetChoice, SetPreset(p) PROVE TypeOK'
    <3>1. /\ entries' \in EntryMap /\ overrides' \in OverrideMap
          /\ rollbacks' \in Rollbacks /\ Len(rollbacks') <= MaxRollbacks
          /\ preset' \in Preset /\ mixed' \in BOOLEAN /\ Save(rollbacks)
      BY <2>6, ChoiceAssumption DEF SetPreset, TypeOK
    <3>2. QED
      BY <3>1, SaveType, SameArray DEF TypeOK
  <2>7. ASSUME NEW s \in Src, NEW list \in SUBSET Entry, applyEntriesLocked(s, list)
        PROVE  TypeOK'
    <3>1. /\ entries' \in EntryMap /\ overrides' \in OverrideMap
          /\ rollbacks' \in Rollbacks /\ Len(rollbacks') <= MaxRollbacks
          /\ preset' \in Preset /\ mixed' \in BOOLEAN /\ Save(rollbacks)
      BY <2>7 DEF applyEntriesLocked, TypeOK, EntryMap
    <3>2. QED
      BY <3>1, SaveType, SameArray DEF TypeOK
  <2>8. ASSUME NEW s \in Src, DeleteSource(s) PROVE TypeOK'
    <3>1. entries' \in EntryMap /\ overrides' \in OverrideMap
      BY <2>8 DEF DeleteSource, TypeOK, EntryMap, OverrideMap
    <3>2. /\ rollbacks' = NotedLost({e \in Entry : entries[e] = s})
          /\ preset' \in Preset /\ mixed' \in BOOLEAN /\ Save(rollbacks)
      BY <2>8 DEF DeleteSource, NotedLost, TypeOK
    <3>3. rollbacks' \in Rollbacks /\ Len(rollbacks') <= MaxRollbacks
      <4>1. /\ NotedLost({e \in Entry : entries[e] = s}) \in Seq(Record)
            /\ Len(NotedLost({e \in Entry : entries[e] = s})) = Len(rollbacks)
        BY NotedLostType DEF TypeOK
      <4>2. QED
        BY <3>2, <4>1 DEF TypeOK, Rollbacks
    <3>4. QED
      BY <3>1, <3>2, <3>3, SaveType, SameArray DEF TypeOK
  <2>9. ASSUME Restart PROVE TypeOK'
    BY <2>9 DEF Restart, TypeOK, Images
  <2>10. ASSUME UNCHANGED vars PROVE TypeOK'
    BY <2>10 DEF vars, TypeOK
  <2>11. QED
    BY <2>1, <2>2, <2>3, <2>4, <2>5, <2>6, <2>7, <2>8, <2>9, <2>10 DEF Next
<1>3. QED
  BY <1>1, <1>2, PTL DEF Spec

-----------------------------------------------------------------------------
(* The chain of records.                                                   *)

\* Facts about the records used by the lemmas below.
LEMMA RecordFacts ==
  ASSUME NEW recs \in Seq(Record)
  PROVE  Len(recs) \in Nat /\ \A i \in 1 .. Len(recs) : recs[i].ids \subseteq Entry
<1>1. \A i \in 1 .. Len(recs) : recs[i] \in Record
  BY ElementOfSeq
<1>2. QED
  BY <1>1, LenProperties DEF Record

\* A change adds its record to the chain.
LEMMA ChainAppend ==
  ASSUME NEW recs \in Seq(Record), NEW ovs, NEW new, NEW rec \in Record,
         Chain(ovs, recs),
         \A e \in rec.ids : rec.before[e] = ovs[e] /\ rec.after[e] = new[e],
         \A e \in Entry \ rec.ids : new[e] = ovs[e]
  PROVE  Chain(new, Append(recs, rec))
<1> DEFINE all == Append(recs, rec)
           n == Len(recs)
<1>1. n \in Nat /\ \A i \in 1 .. n : recs[i].ids \subseteq Entry
  BY RecordFacts
<1>2. Len(all) = n + 1 /\ all[n + 1] = rec /\ \A i \in 1 .. n : all[i] = recs[i]
  BY AppendProperties
<1> HIDE DEF all, n
<1>3. ASSUME NEW i \in 1 .. n + 1, NEW e \in all[i].ids,
             \A j \in i + 1 .. n + 1 : e \notin all[j].ids
      PROVE  Link(e, all[i], new[e])
  <2>1. CASE i = n + 1
    BY <1>2, <2>1 DEF Link
  <2>2. CASE i # n + 1
    <3>1. i \in 1 .. n /\ all[i] = recs[i] /\ e \in recs[i].ids /\ e \in Entry
      BY <1>1, <1>2, <2>2
    <3>2. \A j \in i + 1 .. n : e \notin recs[j].ids
      BY <1>1, <1>2, <1>3, <3>1
    <3>3. e \notin rec.ids
      BY <1>1, <1>2, <1>3, <3>1
    <3>4. Link(e, recs[i], ovs[e])
      BY <3>1, <3>2 DEF Chain, n
    <3>5. QED
      BY <3>1, <3>3, <3>4
  <2>3. QED
    BY <2>1, <2>2
<1>4. ASSUME NEW i \in 1 .. n + 1, NEW e \in all[i].ids, NEW j \in i + 1 .. n + 1,
             e \in all[j].ids, \A l \in i + 1 .. j - 1 : e \notin all[l].ids
      PROVE  Link(e, all[i], all[j].before[e])
  <2>1. i \in 1 .. n /\ all[i] = recs[i] /\ e \in recs[i].ids
    BY <1>1, <1>2
  <2>2. \A l \in i + 1 .. j - 1 : e \notin recs[l].ids
    BY <1>1, <1>2, <1>4, <2>1
  <2>3. CASE j = n + 1
    <3>1. Link(e, recs[i], ovs[e])
      BY <1>1, <2>1, <2>2, <2>3 DEF Chain, n
    <3>2. QED
      BY <1>2, <1>4, <2>1, <2>3, <3>1
  <2>4. CASE j # n + 1
    <3>1. j \in i + 1 .. n /\ all[j] = recs[j]
      BY <1>1, <1>2, <2>1, <2>4
    <3>2. QED
      BY <1>4, <2>1, <2>2, <3>1 DEF Chain, n
  <2>5. QED
    BY <2>3, <2>4
<1>5. QED
  BY <1>2, <1>3, <1>4 DEF Chain, all

\* Forgetting the oldest records leaves a chain.
LEMMA ChainSuffix ==
  ASSUME NEW recs \in Seq(Record), NEW ovs, NEW m \in 1 .. Len(recs),
         Chain(ovs, recs)
  PROVE  Chain(ovs, SubSeq(recs, m, Len(recs)))
<1> DEFINE sub == SubSeq(recs, m, Len(recs))
           n == Len(recs)
<1>1. n \in Nat /\ m \in Nat /\ 1 <= m /\ m <= n
  BY LenProperties
<1>2. Len(sub) = n - m + 1 /\ \A i \in 1 .. n - m + 1 : sub[i] = recs[i + m - 1]
  <2>1. m \in 1 .. Len(recs) + 1 /\ Len(recs) \in 0 .. Len(recs)
    BY <1>1
  <2>2. /\ Len(sub) = IF m <= Len(recs) THEN Len(recs) - m + 1 ELSE 0
        /\ \A i \in 1 .. Len(recs) - m + 1 : sub[i] = recs[m + i - 1]
    BY <2>1, SubSeqProperties
  <2>3. QED
    BY <1>1, <2>2
<1> HIDE DEF sub, n
<1>3. ASSUME NEW i \in 1 .. n - m + 1, NEW e \in sub[i].ids,
             \A j \in i + 1 .. n - m + 1 : e \notin sub[j].ids
      PROVE  Link(e, sub[i], ovs[e])
  <2>1. i + m - 1 \in 1 .. n /\ sub[i] = recs[i + m - 1]
    BY <1>1, <1>2
  <2>2. ASSUME NEW j \in i + m .. n PROVE e \notin recs[j].ids
    <3>1. j - m + 1 \in i + 1 .. n - m + 1 /\ j - m + 1 + m - 1 = j
      BY <1>1
    <3>2. j - m + 1 \in 1 .. n - m + 1
      BY <1>1, <3>1
    <3>3. sub[j - m + 1] = recs[j]
      BY <1>2, <3>1, <3>2
    <3>4. QED
      BY <1>3, <3>1, <3>3
  <2>3. \A j \in (i + m - 1) + 1 .. n : e \notin recs[j].ids
    BY <1>1, <2>2
  <2>4. QED
    BY <2>1, <2>3 DEF Chain, n
<1>4. ASSUME NEW i \in 1 .. n - m + 1, NEW e \in sub[i].ids, NEW j \in i + 1 .. n - m + 1,
             e \in sub[j].ids, \A l \in i + 1 .. j - 1 : e \notin sub[l].ids
      PROVE  Link(e, sub[i], sub[j].before[e])
  <2>1. /\ i + m - 1 \in 1 .. n /\ sub[i] = recs[i + m - 1]
        /\ j + m - 1 \in (i + m - 1) + 1 .. n /\ sub[j] = recs[j + m - 1]
    BY <1>1, <1>2
  <2>2. ASSUME NEW l \in (i + m - 1) + 1 .. (j + m - 1) - 1 PROVE e \notin recs[l].ids
    <3>1. l - m + 1 \in i + 1 .. j - 1 /\ l - m + 1 \in 1 .. n - m + 1 /\ l - m + 1 + m - 1 = l
      BY <1>1
    <3>2. sub[l - m + 1] = recs[l]
      BY <1>2, <3>1
    <3>3. QED
      BY <1>4, <3>1, <3>2
  <2>3. QED
    BY <1>4, <2>1, <2>2 DEF Chain, n
<1>5. QED
  BY <1>2, <1>3, <1>4 DEF Chain, sub

\* Taking back a change that no later one overlaps leaves a chain.
LEMMA ChainRemove ==
  ASSUME NEW recs \in Seq(Record), NEW ovs, NEW new, NEW i \in 1 .. Len(recs),
         Chain(ovs, recs),
         \A j \in i + 1 .. Len(recs) : recs[j].ids \cap recs[i].ids = {},
         \A e \in Entry : new[e] = IF e \in recs[i].ids THEN recs[i].before[e] ELSE ovs[e]
  PROVE  Chain(new, SubSeq(recs, 1, i - 1) \o SubSeq(recs, i + 1, Len(recs)))
<1> DEFINE rest == SubSeq(recs, 1, i - 1) \o SubSeq(recs, i + 1, Len(recs))
           n == Len(recs)
           at(k) == IF k < i THEN k ELSE k + 1
<1>1. n \in Nat /\ i \in 1 .. n /\ \A k \in 1 .. n : recs[k].ids \subseteq Entry
  BY RecordFacts
<1>2. Len(rest) = n - 1 /\ \A k \in 1 .. n - 1 : rest[k] = recs[at(k)]
  BY RemoveAtProperties
<1> HIDE DEF rest, n
<1>3. ASSUME NEW k \in 1 .. n - 1, NEW e \in rest[k].ids,
             \A j \in k + 1 .. n - 1 : e \notin rest[j].ids
      PROVE  Link(e, rest[k], new[e])
  <2>1. at(k) \in 1 .. n /\ at(k) # i /\ rest[k] = recs[at(k)] /\ e \in Entry
    BY <1>1, <1>2
  <2>2. ASSUME NEW j \in at(k) + 1 .. n, j # i PROVE e \notin recs[j].ids
    <3>1. CASE j < i
      <4>1. j \in k + 1 .. n - 1 /\ at(j) = j
        BY <1>1, <3>1
      <4>2. QED
        BY <1>1, <1>2, <1>3, <4>1
    <3>2. CASE j > i
      <4>1. j - 1 \in k + 1 .. n - 1 /\ at(j - 1) = j /\ j - 1 \in 1 .. n - 1
        BY <1>1, <2>2, <3>2
      <4>2. QED
        BY <1>2, <1>3, <4>1
    <3>3. QED
      BY <1>1, <2>2, <3>1, <3>2
  <2>3. CASE e \in recs[i].ids
    <3>1. i \in at(k) + 1 .. n
      <4>1. ~(at(k) > i)
        BY <1>1, <1>3, <2>1, <2>3 DEF n
      <4>2. QED
        BY <1>1, <2>1, <4>1
    <3>2. \A l \in at(k) + 1 .. i - 1 : e \notin recs[l].ids
      BY <1>1, <2>2
    <3>3. Link(e, recs[at(k)], recs[i].before[e])
      BY <1>3, <2>1, <2>3, <3>1, <3>2 DEF Chain, n
    <3>4. QED
      BY <2>1, <2>3, <3>3
  <2>4. CASE e \notin recs[i].ids
    <3>1. \A j \in at(k) + 1 .. n : e \notin recs[j].ids
      BY <2>2, <2>4
    <3>2. Link(e, recs[at(k)], ovs[e])
      BY <1>3, <2>1, <3>1 DEF Chain, n
    <3>3. QED
      BY <2>1, <2>4, <3>2
  <2>5. QED
    BY <2>3, <2>4
<1>4. ASSUME NEW k \in 1 .. n - 1, NEW e \in rest[k].ids, NEW j \in k + 1 .. n - 1,
             e \in rest[j].ids, \A l \in k + 1 .. j - 1 : e \notin rest[l].ids
      PROVE  Link(e, rest[k], rest[j].before[e])
  <2>1. /\ at(k) \in 1 .. n /\ at(j) \in at(k) + 1 .. n /\ at(j) # i
        /\ rest[k] = recs[at(k)] /\ rest[j] = recs[at(j)]
    <3>1. j \in 1 .. n - 1
      BY <1>1
    <3>2. at(k) \in 1 .. n /\ at(j) \in at(k) + 1 .. n /\ at(j) # i
      BY <1>1, <3>1
    <3>3. QED
      BY <1>2, <3>1, <3>2
  <2>2. ASSUME NEW l \in at(k) + 1 .. at(j) - 1 PROVE e \notin recs[l].ids
    <3>1. CASE l = i
      <4>1. at(j) \in i + 1 .. n
        BY <1>1, <2>1, <3>1
      <4>2. QED
        BY <1>4, <2>1, <3>1, <4>1 DEF n
    <3>2. CASE l < i
      <4>1. l \in k + 1 .. j - 1 /\ at(l) = l /\ l \in 1 .. n - 1
        BY <1>1, <2>1, <3>2
      <4>2. QED
        BY <1>2, <1>4, <4>1
    <3>3. CASE l > i
      <4>1. l - 1 \in k + 1 .. j - 1 /\ at(l - 1) = l /\ l - 1 \in 1 .. n - 1
        BY <1>1, <2>1, <3>3
      <4>2. QED
        BY <1>2, <1>4, <4>1
    <3>4. QED
      BY <1>1, <2>1, <3>1, <3>2, <3>3
  <2>3. QED
    BY <1>4, <2>1, <2>2 DEF Chain, n
<1>5. QED
  BY <1>2, <1>3, <1>4 DEF Chain, rest

\* A deletion takes overrides away, and the last records of their entries say so.
LEMMA ChainDrop ==
  ASSUME rollbacks \in Rollbacks, NEW gone \in SUBSET Entry, NEW new,
         Chain(overrides, rollbacks),
         \A e \in Entry : new[e] = IF e \in gone THEN None ELSE overrides[e]
  PROVE  Chain(new, NotedLost(gone))
<1> DEFINE recs == NotedLost(gone)
           n == Len(rollbacks)
<1>1. n \in Nat /\ \A i \in 1 .. n : rollbacks[i].ids \subseteq Entry
  BY RecordFacts DEF Rollbacks
<1>2. /\ Len(recs) = n
      /\ \A i \in 1 .. n : /\ recs[i].ids = rollbacks[i].ids
                           /\ recs[i].before = rollbacks[i].before
                           /\ recs[i].after = rollbacks[i].after
                           /\ recs[i].lost = rollbacks[i].lost \cup (gone \cap lastChanged(i))
  BY NotedLostType
<1> HIDE DEF recs
<1>3. ASSUME NEW i \in 1 .. n, NEW e \in rollbacks[i].ids,
             \A j \in i + 1 .. n : e \notin rollbacks[j].ids
      PROVE  Link(e, recs[i], new[e])
  <2>1. e \in Entry /\ e \in lastChanged(i)
    BY <1>1, <1>3 DEF lastChanged
  <2>2. CASE e \in gone
    BY <1>2, <2>1, <2>2 DEF Link
  <2>3. CASE e \notin gone
    <3>1. Link(e, rollbacks[i], overrides[e])
      BY <1>3 DEF Chain
    <3>2. QED
      BY <1>2, <2>1, <2>3, <3>1 DEF Link
  <2>4. QED
    BY <2>2, <2>3
<1>4. ASSUME NEW i \in 1 .. n, NEW e \in rollbacks[i].ids, NEW j \in i + 1 .. n,
             e \in rollbacks[j].ids, \A l \in i + 1 .. j - 1 : e \notin rollbacks[l].ids
      PROVE  Link(e, recs[i], recs[j].before[e])
  <2>1. Link(e, rollbacks[i], rollbacks[j].before[e])
    BY <1>4 DEF Chain
  <2>2. j \in 1 .. n
    BY <1>1
  <2>3. QED
    BY <1>2, <2>1, <2>2 DEF Link
<1>5. /\ \A i \in 1 .. n : recs[i].ids = rollbacks[i].ids
      /\ \A i \in 1 .. n : \A j \in i + 1 .. n : recs[j].ids = rollbacks[j].ids
      /\ \A i \in 1 .. n : \A j \in i + 1 .. n : \A l \in i + 1 .. j - 1 :
           recs[l].ids = rollbacks[l].ids
  <2>1. \A i \in 1 .. n : \A j \in i + 1 .. n : j \in 1 .. n /\ \A l \in i + 1 .. j - 1 : l \in 1 .. n
    BY <1>1
  <2>2. QED
    BY <1>2, <2>1
<1> HIDE DEF n
<1>6. ASSUME NEW i \in 1 .. n, NEW e \in recs[i].ids
      PROVE  /\ (\A j \in i + 1 .. n : e \notin recs[j].ids) => Link(e, recs[i], new[e])
             /\ \A j \in i + 1 .. n :
                  e \in recs[j].ids /\ (\A l \in i + 1 .. j - 1 : e \notin recs[l].ids)
                    => Link(e, recs[i], recs[j].before[e])
  <2>1. e \in rollbacks[i].ids
    BY <1>5, <1>6
  <2>2. ASSUME \A j \in i + 1 .. n : e \notin recs[j].ids
        PROVE  Link(e, recs[i], new[e])
    <3>1. \A j \in i + 1 .. n : e \notin rollbacks[j].ids
      BY <1>5, <2>2
    <3>2. QED
      BY <1>3, <2>1, <3>1
  <2>3. ASSUME NEW j \in i + 1 .. n, e \in recs[j].ids,
               \A l \in i + 1 .. j - 1 : e \notin recs[l].ids
        PROVE  Link(e, recs[i], recs[j].before[e])
    <3>1. e \in rollbacks[j].ids /\ \A l \in i + 1 .. j - 1 : e \notin rollbacks[l].ids
      BY <1>5, <2>3
    <3>2. QED
      BY <1>4, <2>1, <3>1
  <2>4. QED
    BY <2>2, <2>3
<1>7. QED
  BY <1>2, <1>6 DEF Chain, recs

\* A save writes the chain in memory, that of the moment before, what is mixed, or
\* nothing.
LEMMA SaveKeepsChain ==
  ASSUME TypeOK, RollbackChain, NEW array, Save(array), mixed' = mixed,
         ~mixed => Chain(overrides', rollbacks')
  PROVE  RollbackChain'
<1>1. CASE disk' = Image'
  BY <1>1 DEF Image, RollbackChain
<1>2. CASE Overtaken(array)
  <2>1. PICK ahead \in SUBSET {e \in Entry : overrides'[e] # overrides[e]},
             moved \in SUBSET {k \in DOMAIN rollbacks : array[k] # rollbacks[k]} :
          disk' = [entries   |-> entries,
                   overrides |-> [e \in Entry |-> IF e \in ahead THEN overrides'[e] ELSE overrides[e]],
                   rollbacks |-> [k \in DOMAIN rollbacks |-> IF k \in moved THEN array[k]
                                                             ELSE rollbacks[k]],
                   preset    |-> preset,
                   mixed     |-> mixed \/ ahead # {} \/ moved # {}]
    BY <1>2 DEF Overtaken
  <2>2. ASSUME ~disk'.mixed PROVE Chain(disk'.overrides, disk'.rollbacks)
    <3>1. ~mixed /\ ahead = {} /\ moved = {}
      BY <2>1, <2>2 DEF TypeOK
    <3>2. disk'.overrides = overrides
      BY <2>1, <3>1 DEF TypeOK, OverrideMap
    <3>3. disk'.rollbacks = rollbacks
      <4>1. disk'.rollbacks = [k \in DOMAIN rollbacks |-> rollbacks[k]]
        BY <2>1, <3>1
      <4>2. rollbacks \in [DOMAIN rollbacks -> Record]
        BY SameArray DEF TypeOK
      <4>3. QED
        BY <4>1, <4>2
    <3>4. QED
      BY <3>1, <3>2, <3>3 DEF RollbackChain
  <2>3. QED
    BY <2>2 DEF RollbackChain
<1>3. CASE UNCHANGED disk
  BY <1>3 DEF RollbackChain
<1>4. QED
  BY <1>1, <1>2, <1>3 DEF Save

LEMMA MergeKeepsChain ==
  ASSUME TypeOK, RollbackChain, NEW ids \in SUBSET Entry, NEW patch \in Override,
         Merge(ids, patch)
  PROVE  RollbackChain'
<1> DEFINE all == Append(rollbacks, Changed(ids))
<1>1. overrides' \in OverrideMap
  BY MergeKeepsType DEF TypeOK
<1>2. Changed(ids) \in Record
  BY <1>1 DEF Changed, TypeOK, Record, OverrideMap
<1>3. rollbacks \in Seq(Record) /\ Len(rollbacks) \in Nat
  BY LenProperties DEF TypeOK, Rollbacks, Record
<1>4. all \in Seq(Record) /\ Len(all) = Len(rollbacks) + 1
  BY <1>2, <1>3, AppendProperties
<1>5. ~mixed => Chain(overrides', all)
  <2>1. /\ Changed(ids).ids = ids
        /\ \A e \in ids : /\ Changed(ids).before[e] = overrides[e]
                          /\ Changed(ids).after[e] = overrides'[e]
    BY DEF Changed
  <2>2. \A e \in Entry \ ids : overrides'[e] = overrides[e]
    BY DEF Merge
  <2>3. ~mixed => Chain(overrides, rollbacks)
    BY DEF RollbackChain
  <2>4. QED
    BY <1>2, <1>3, <2>1, <2>2, <2>3, ChainAppend
<1>6. rollbacks' = IF Len(all) > MaxRollbacks
                   THEN SubSeq(all, Len(all) - MaxRollbacks + 1, Len(all)) ELSE all
  BY DEF Merge, recordRollbackLocked, Changed
<1> HIDE DEF all
<1>7. ~mixed => Chain(overrides', rollbacks')
  <2>1. CASE Len(all) > MaxRollbacks
    <3>1. Len(all) - MaxRollbacks + 1 \in 1 .. Len(all)
      BY <1>3, <1>4, <2>1, CapAssumption
    <3>2. QED
      BY <1>4, <1>5, <1>6, <2>1, <3>1, ChainSuffix
  <2>2. CASE ~(Len(all) > MaxRollbacks)
    BY <1>5, <1>6, <2>2
  <2>3. QED
    BY <2>1, <2>2
<1>8. mixed' = mixed /\ Save(rollbacks)
  BY DEF Merge
<1>9. QED
  BY <1>7, <1>8, SaveKeepsChain

\* In every reachable state the records in memory form a chain, and so do those of the
\* file, unless a save was overtaken by a change of the overrides and left them mixed:
\* a rollback that Rollback accepts undoes exactly the change it names.
THEOREM RollbackChainCorrect == Spec => []RollbackChain
<1>1. Init => RollbackChain
  BY EmptySeq DEF Init, RollbackChain, Chain, Image
<1>2. TypeOK /\ RollbackChain /\ [Next]_vars => RollbackChain'
  <2> SUFFICES ASSUME TypeOK, RollbackChain, [Next]_vars PROVE RollbackChain'
    OBVIOUS
  <2>0. /\ ~mixed => Chain(overrides, rollbacks)
        /\ ~disk.mixed => Chain(disk.overrides, disk.rollbacks)
        /\ rollbacks \in Seq(Record)
    BY DEF RollbackChain, TypeOK, Rollbacks
  <2>1. ASSUME NEW patch \in Patch, NEW e \in Entry, PatchEntry(e, patch)
        PROVE  RollbackChain'
    BY <2>1, MergeKeepsChain, ChoiceAssumption DEF PatchEntry
  <2>2. ASSUME NEW patch \in Patch, NEW ids \in SUBSET Entry, BulkPatchEntries(ids, patch)
        PROVE  RollbackChain'
    BY <2>2, MergeKeepsChain, ChoiceAssumption DEF BulkPatchEntries
  <2>3. ASSUME NEW patch \in Patch, NEW k \in Key, ResolveConflict(k, patch)
        PROVE  RollbackChain'
    <3>1. PICK e \in Entry : Merge({e}, patch)
      BY <2>3 DEF ResolveConflict, Rows
    <3>2. QED
      BY <3>1, MergeKeepsChain, ChoiceAssumption
  <2>4. ASSUME NEW k \in Key, ResolveConflictByPriority(k) PROVE RollbackChain'
    <3>1. PICK e \in Entry : Merge(Rows(k) \ {e}, winnerPatch(e))
      BY <2>4 DEF ResolveConflictByPriority, Participants, Rows
    <3>2. Rows(k) \ {e} \subseteq Entry
      BY DEF Rows
    <3>3. QED
      BY <3>1, <3>2, MergeKeepsChain, WinnerPatchType
  <2>5. ASSUME NEW i \in 1 .. Len(rollbacks), Rollback(i) PROVE RollbackChain'
    <3>1. /\ \A j \in i + 1 .. Len(rollbacks) : rollbacks[j].ids \cap rollbacks[i].ids = {}
          /\ \A e \in Entry : overrides'[e] = IF e \in rollbacks[i].ids
                                              THEN rollbacks[i].before[e] ELSE overrides[e]
          /\ rollbacks' = SubSeq(rollbacks, 1, i - 1)
                            \o SubSeq(rollbacks, i + 1, Len(rollbacks))
          /\ mixed' = mixed /\ Save(RemovedInPlace(i))
      BY <2>5 DEF Rollback
    <3>2. ~mixed => Chain(overrides', rollbacks')
      BY <2>0, <3>1, ChainRemove
    <3>3. QED
      BY <3>1, <3>2, SaveKeepsChain
  <2>6. ASSUME NEW p \in PresetChoice, SetPreset(p) PROVE RollbackChain'
    BY <2>0, <2>6, SaveKeepsChain DEF SetPreset
  <2>7. ASSUME NEW s \in Src, NEW list \in SUBSET Entry, applyEntriesLocked(s, list)
        PROVE  RollbackChain'
    BY <2>0, <2>7, SaveKeepsChain DEF applyEntriesLocked
  <2>8. ASSUME NEW s \in Src, DeleteSource(s) PROVE RollbackChain'
    <3> DEFINE gone == {e \in Entry : entries[e] = s}
    <3>1. /\ rollbacks' = NotedLost(gone) /\ mixed' = mixed /\ Save(rollbacks)
          /\ \A e \in Entry : overrides'[e] = IF e \in gone THEN None ELSE overrides[e]
      BY <2>8 DEF DeleteSource, NotedLost
    <3>2. gone \in SUBSET Entry
      OBVIOUS
    <3> HIDE DEF gone
    <3>3. ~mixed => Chain(overrides', rollbacks')
      BY <2>0, <3>1, <3>2, ChainDrop DEF Rollbacks
    <3>4. QED
      BY <3>1, <3>3, SaveKeepsChain
  <2>9. ASSUME Restart PROVE RollbackChain'
    BY <2>0, <2>9 DEF Restart, RollbackChain
  <2>10. ASSUME UNCHANGED vars PROVE RollbackChain'
    BY <2>0, <2>10 DEF vars, RollbackChain
  <2>11. QED
    BY <2>1, <2>2, <2>3, <2>4, <2>5, <2>6, <2>7, <2>8, <2>9, <2>10 DEF Next
<1>3. QED
  BY <1>1, <1>2, TypeCorrect, PTL DEF Spec

-----------------------------------------------------------------------------
(* Resolution by priority.                                                 *)

LEMMA AtMostOne ==
  ASSUME NEW S, NEW v, S \subseteq {v}
  PROVE  ~(Cardinality(S) > 1)
<1>1. CASE S = {}
  BY <1>1, FS_EmptySet
<1>2. CASE S = {v}
  <2>1. Cardinality({v}) = 1
    BY FS_Singleton
  <2>2. QED
    BY <1>2, <2>1
<1>3. QED
  BY <1>1, <1>2

\* row(d)', written out.
Reclassified(d) ==
  mergeOverride(Imported[d], IF overrides'[d] = None THEN Blank ELSE overrides'[d])

\* After the merge every entry for the key has the classification of the winner.
LEMMA WinnerClassifies ==
  ASSUME TypeOK, NEW ids \in SUBSET Entry, NEW w \in Entry, w \notin ids,
         Merge(ids, winnerPatch(w)), NEW d \in ids \cup {w},
         NEW f \in {"category", "review"}
  PROVE  Reclassified(d)[f] = row(w)[f]
<1>1. overrideOf(w) \in Override /\ row(w) \in Override /\ winnerPatch(w) \in Override
  BY RowType, WinnerPatchType
<1>2. row(w)[f] # Unset /\ f \in Field
  BY ImportedAssumption DEF row, mergeOverride, Field
<1>3. CASE d = w
  <2>1. overrides'[w] = overrides[w]
    BY DEF Merge
  <2>2. QED
    BY <1>3, <2>1 DEF row, overrideOf, Reclassified
<1>4. CASE d \in ids
  <2>1. overrides'[d] = mergeOverride(overrideOf(d), winnerPatch(w))
    BY <1>4 DEF Merge
  <2>2. overrides'[d] \in Override
    BY <1>1, <1>4, <2>1, RowType, MergeType
  <2>3. overrides'[d] # None
    BY <2>2, TokenAssumption
  <2>4. winnerPatch(w)[f] = row(w)[f]
    BY <1>2 DEF winnerPatch
  <2>5. overrides'[d][f] = row(w)[f]
    BY <1>2, <2>1, <2>4 DEF mergeOverride
  <2>6. Reclassified(d) = mergeOverride(Imported[d], overrides'[d])
    BY <2>3 DEF Reclassified
  <2>7. QED
    BY <1>2, <2>5, <2>6 DEF mergeOverride
<1>5. QED
  BY <1>3, <1>4

\* A resolution by priority leaves no contradiction in classification.
THEOREM PriorityResolvesCorrect == Spec => PriorityResolves
<1>1. ASSUME TypeOK, NEW k \in Key, ResolveConflictByPriority(k)
      PROVE  Reasons(k)' \subseteq {"missing mirage action", "unsafe mirage action"}
  <2>1. PICK w \in Participants(k) : Merge(Rows(k) \ {w}, winnerPatch(w))
    BY <1>1 DEF ResolveConflictByPriority
  <2>2. w \in Rows(k) /\ w \in Entry /\ Rows(k) \subseteq Entry
    BY DEF Participants, Rows
  <2>3. Rows(k)' = Rows(k)
    BY <2>1 DEF Rows, Merge
  <2>4. \A d \in Rows(k) : /\ row(d)'["category"] = row(w)["category"]
                           /\ row(d)'["review"] = row(w)["review"]
    <3>1. /\ Rows(k) \ {w} \in SUBSET Entry /\ w \notin Rows(k) \ {w}
          /\ Rows(k) \subseteq (Rows(k) \ {w}) \cup {w}
      BY <2>2
    <3>2. ASSUME NEW d \in Rows(k)
          PROVE  /\ row(d)'["category"] = row(w)["category"]
                 /\ row(d)'["review"] = row(w)["review"]
      <4>1. d \in (Rows(k) \ {w}) \cup {w}
        BY <3>1
      <4>2. row(d)' = Reclassified(d)
        BY DEF row, overrideOf, Reclassified
      <4>3. /\ Reclassified(d)["category"] = row(w)["category"]
            /\ Reclassified(d)["review"] = row(w)["review"]
        BY <1>1, <2>1, <2>2, <3>1, <4>1, WinnerClassifies
      <4>4. QED
        BY <4>2, <4>3
    <3>3. QED
      BY <3>2
  <2> DEFINE parties == {d \in Rows(k) : conflictParticipant(d)'}
  <2>5. ~(Cardinality({row(d)'["category"] : d \in parties}) > 1)
    <3>1. {row(d)'["category"] : d \in parties} \subseteq {row(w)["category"]}
      BY <2>4
    <3>2. QED
      BY <3>1, AtMostOne
  <2>6. ~(Cardinality({row(d)'["review"] : d \in parties}) > 1)
    <3>1. {row(d)'["review"] : d \in parties} \subseteq {row(w)["review"]}
      BY <2>4
    <3>2. QED
      BY <3>1, AtMostOne
  <2>7. ~((\E d \in parties : IsAllow(d)') /\ \E d \in parties : ~IsAllow(d)')
    BY <2>4 DEF IsAllow
  <2>8. \A d \in Rows(k) : rewriteActionConflictReason(d)'
                             \subseteq {"missing mirage action", "unsafe mirage action"}
    BY DEF rewriteActionConflictReason
  <2>9. QED
    BY <2>3, <2>5, <2>6, <2>7, <2>8 DEF Reasons, Values
<1>2. TypeOK /\ [Next]_vars
        => [\A k \in Key : ResolveConflictByPriority(k) =>
              Reasons(k)' \subseteq {"missing mirage action", "unsafe mirage action"}]_vars
  BY <1>1
<1>3. QED
  BY <1>2, TypeCorrect, PTL DEF Spec, PriorityResolves
=============================================================================
