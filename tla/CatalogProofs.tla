----------------------------- MODULE CatalogProofs -----------------------------
(***************************************************************************)
(* Proofs about what the administrator decides and the server carries on:    *)
(* the reviews of the rule catalog (RuleCatalog), the generation of the      *)
(* rewrite feed (ManagedFeed), its registration (FeedRegistration), the      *)
(* files these decisions are kept in (StateFile) and the configuration file  *)
(* and its editors (ConfigFile), for any rules, entries, stores, lines,      *)
(* writers and concurrent calls.  The facts about numbers and sequences that *)
(* they need are those of InputProofs.                                       *)
(***************************************************************************)
EXTENDS RuleCatalog, ManagedFeed, FeedRegistration, StateFile, ConfigFile, InputProofs

-----------------------------------------------------------------------------
(* The rule catalog: types.                                                 *)

\* A set of entries is a function on some of the rules.
LEMMA EntriesAreFunctions ==
  /\ \A e \in Entries : DOMAIN e \subseteq RuleId /\ e \in [DOMAIN e -> ReviewState]
  /\ \A ids \in SUBSET RuleId : [ids -> ReviewState] \subseteq Entries
BY DEF Entries

\* A review changes the state of one entry.
LEMMA ReviewedEntries ==
  ASSUME NEW e \in Entries, NEW id \in DOMAIN e, NEW state \in ReviewState
  PROVE  [e EXCEPT ![id] = state] \in Entries
<1>1. [e EXCEPT ![id] = state] \in [DOMAIN e -> ReviewState]
  BY EntriesAreFunctions
<1>2. QED
  BY <1>1, EntriesAreFunctions

\* What reload and Sync may be doing, and the entries that they hold.
ReloadRec == {CatIdle} \cup [pc : {"opened"}, entries : Entries, unseen : SUBSET RuleId]
SyncRec ==
  {CatIdle} \cup [pc : {"build"}, obj : StoreObj]
  \cup [pc : {"replace", "again"}, obj : StoreObj, entries : Entries]
  \cup [pc : {"putback"}, obj : StoreObj, entries : Entries, missed : SUBSET RuleId]

LEMMA SyncKinds ==
  ASSUME NEW r \in SyncRec
  PROVE  /\ r.pc \in {"build", "replace", "again", "putback"} => r.obj \in StoreObj
         /\ r.pc \in {"replace", "again", "putback"} => r.entries \in Entries
         /\ r.pc = "replace" => [r EXCEPT !.pc = "again"] \in SyncRec
         /\ r.pc = "putback" => r \in [pc : {"putback"}, obj : StoreObj, entries : Entries,
                                       missed : SUBSET RuleId]
BY DEF SyncRec, CatIdle

LEMMA ReloadKinds ==
  ASSUME NEW r \in ReloadRec, r.pc = "opened"
  PROVE  r \in [pc : {"opened"}, entries : Entries, unseen : SUBSET RuleId]
BY DEF ReloadRec, CatIdle

\* What is under way stays well formed when a review overtakes it.
LEMMA OvertakesType ==
  ASSUME CatTypeOK, NEW id \in RuleId, Overtakes(id)
  PROVE  catReload' \in ReloadRec /\ catSync' \in SyncRec /\ late' \subseteq RuleId
<1>1. catReload' \in ReloadRec
  <2>1. CASE catReload.pc = "opened"
    <3>1. catReload \in [pc : {"opened"}, entries : Entries, unseen : SUBSET RuleId]
      BY <2>1, ReloadKinds DEF CatTypeOK, ReloadRec
    <3>2. QED
      BY <2>1, <3>1 DEF Overtakes, ReloadRec
  <2>2. CASE catReload.pc # "opened"
    BY <2>2 DEF Overtakes, CatTypeOK, ReloadRec
  <2>3. QED
    BY <2>1, <2>2
<1>2. catSync' \in SyncRec
  <2>1. CASE catSync.pc = "putback"
    <3>1. catSync \in [pc : {"putback"}, obj : StoreObj, entries : Entries, missed : SUBSET RuleId]
      BY <2>1, SyncKinds DEF CatTypeOK, SyncRec
    <3>2. catSync' \in [pc : {"putback"}, obj : StoreObj, entries : Entries, missed : SUBSET RuleId]
      BY <2>1, <3>1 DEF Overtakes
    <3>3. QED
      BY <3>2 DEF SyncRec
  <2>2. CASE catSync.pc # "putback"
    BY <2>2 DEF Overtakes, CatTypeOK, SyncRec
  <2>3. QED
    BY <2>1, <2>2
<1>3. late' \subseteq RuleId
  BY DEF Overtakes, CatTypeOK
<1>4. QED
  BY <1>1, <1>2, <1>3

LEMMA ReviewRuleType ==
  ASSUME CatTypeOK, NEW id \in RuleId, NEW state \in {"approved", "disabled"},
         ReviewRule(id, state)
  PROVE  CatTypeOK'
<1>1. store[adminHas] \in Entries /\ adminHas \in StoreObj /\ id \in DOMAIN store[adminHas]
  BY DEF CatTypeOK, ReviewRule
<1>2. [store[adminHas] EXCEPT ![id] = state] \in Entries
  BY <1>1, ReviewedEntries DEF ReviewState
<1>3. store' \in [StoreObj -> Entries] /\ catFile' \in Entries
  BY <1>1, <1>2 DEF CatTypeOK, ReviewRule
<1>4. reviewed' \in [RuleId -> ReviewState \cup {NoReview}]
  BY DEF CatTypeOK, ReviewRule, ReviewState
<1>5. QED
  BY <1>3, <1>4, OvertakesType DEF CatTypeOK, ReviewRule, ReloadRec, SyncRec

LEMMA SyncType ==
  ASSUME CatTypeOK,
         SyncStart \/ (\E ids \in SUBSET RuleId : SyncBuilt(ids)) \/ SyncFails \/ SyncReplaces
  PROVE  CatTypeOK'
<1>1. catSync \in SyncRec
  BY DEF CatTypeOK, SyncRec
<1>2. CASE SyncStart
  BY <1>2 DEF SyncStart, CatTypeOK
<1>3. ASSUME NEW ids \in SUBSET RuleId, SyncBuilt(ids) PROVE CatTypeOK'
  <2>1. catSync.obj \in StoreObj
    BY <1>1, <1>3, SyncKinds DEF SyncBuilt
  <2>2. [id \in ids |-> "candidate"] \in Entries
    BY EntriesAreFunctions DEF ReviewState
  <2>3. QED
    BY <1>3, <2>1, <2>2 DEF SyncBuilt, CatTypeOK
<1>4. CASE SyncFails
  <2>1. catSync.obj \in StoreObj
    BY <1>1, <1>4, SyncKinds DEF SyncFails
  <2>2. store[catSync.obj] \in Entries /\ Lacks(store[catSync.obj]) \in SUBSET RuleId
    BY <2>1 DEF CatTypeOK, Lacks
  <2>3. QED
    BY <1>4, <2>1, <2>2 DEF SyncFails, CatTypeOK
<1>5. CASE SyncReplaces
  <2>1. catSync.obj \in StoreObj /\ catSync.entries \in Entries
    BY <1>1, <1>5, SyncKinds DEF SyncReplaces
  <2>2. store' \in [StoreObj -> Entries] /\ catFile' \in Entries
    BY <1>5, <2>1 DEF SyncReplaces, CatTypeOK
  <2>3. reviewed' \in [RuleId -> ReviewState \cup {NoReview}]
    BY <1>5 DEF SyncReplaces, CatTypeOK
  <2>4. catSync' \in SyncRec
    BY <1>1, <1>5, SyncKinds DEF SyncReplaces, SyncRec
  <2>5. QED
    BY <1>5, <2>2, <2>3, <2>4 DEF SyncReplaces, CatTypeOK, SyncRec
<1>6. QED
  BY <1>2, <1>3, <1>4, <1>5

LEMMA ReloadType ==
  ASSUME CatTypeOK, ReloadOpens \/ (\E o \in StoreObj : ReloadServes(o)) \/ CatRestart
  PROVE  CatTypeOK'
<1>1. CASE ReloadOpens
  BY <1>1 DEF ReloadOpens, CatTypeOK
<1>2. ASSUME NEW o \in StoreObj, ReloadServes(o) PROVE CatTypeOK'
  <2>1. catReload \in [pc : {"opened"}, entries : Entries, unseen : SUBSET RuleId]
    BY <1>2, ReloadKinds DEF CatTypeOK, ReloadRec, ReloadServes
  <2>2. QED
    BY <1>2, <2>1 DEF ReloadServes, CatTypeOK
<1>3. CASE CatRestart
  BY <1>3, CatalogAssumption DEF CatRestart, CatTypeOK
<1>4. QED
  BY <1>1, <1>2, <1>3

LEMMA CatInitType == CatInit => CatTypeOK
BY CatalogAssumption DEF CatInit, CatTypeOK

LEMMA CatNextType ==
  ASSUME CatTypeOK, [CatNext]_catVars
  PROVE  CatTypeOK'
<1>1. CASE CatNext
  BY <1>1, ReviewRuleType, SyncType, ReloadType DEF CatNext
<1>2. CASE UNCHANGED catVars
  BY <1>2 DEF catVars, CatTypeOK
<1>3. QED
  BY <1>1, <1>2

\* The store objects, the file and what reload and Sync hold are always entries: no
\* interleaving of reviews, synchronisations, reloads and restarts mixes them up.
THEOREM CatalogTypes == CatSpec => []CatTypeOK
<1>1. CatTypeOK /\ [CatNext]_catVars => CatTypeOK'
  BY CatNextType
<1>2. QED
  BY CatInitType, <1>1, PTL DEF CatSpec

-----------------------------------------------------------------------------
(* The rule catalog: acknowledged reviews.                                  *)

\* The file that a reload has read, and the copy that a failed synchronisation will put
\* back, hold every review that was not made since.
CopiesKeep ==
  /\ catReload.pc = "opened" =>
       \A id \in RuleId \ catReload.unseen :
         reviewed[id] # NoReview => Holds(catReload.entries, id, reviewed[id])
  /\ catSync.pc = "putback" =>
       \A id \in RuleId \ catSync.missed :
         reviewed[id] # NoReview => Holds(catSync.entries, id, reviewed[id])

ReviewInv == CatTypeOK /\ ReviewsKept /\ CopiesKeep

LEMMA ReviewRuleKeeps ==
  ASSUME ReviewInv, NEW id \in RuleId, NEW state \in {"approved", "disabled"},
         ReviewRule(id, state)
  PROVE  ReviewsKept' /\ CopiesKeep'
<1>1. /\ store' = [store EXCEPT ![adminHas] = [store[adminHas] EXCEPT ![id] = state]]
      /\ id \in DOMAIN store[adminHas] /\ adminHas \in StoreObj /\ serving \in StoreObj
      /\ UNCHANGED <<adminHas, serving>>
  BY DEF ReviewRule, ReviewInv, CatTypeOK
<1>2. ASSUME NEW j \in RuleId, j # id PROVE reviewed'[j] = reviewed[j]
  BY <1>2 DEF ReviewRule, ReviewInv, CatTypeOK
<1>3. reviewed'[id] \in {state, NoReview}
  BY DEF ReviewRule, ReviewInv, CatTypeOK
<1>4. Holds(store'[adminHas], id, state)
      /\ \A j \in RuleId : \A v :
           j # id /\ Holds(store[adminHas], j, v) => Holds(store'[adminHas], j, v)
  BY <1>1 DEF Holds, ReviewInv, CatTypeOK
<1>5. ReviewsKept'
  <2> SUFFICES ASSUME NEW j \in RuleId, reviewed'[j] # NoReview
               PROVE  /\ Holds(store'[adminHas], j, reviewed'[j])
                      /\ Holds(catFile', j, reviewed'[j])
                      /\ j \in late' \/ Holds(store'[serving], j, reviewed'[j])
    BY <1>1 DEF ReviewsKept, Holds
  <2>1. Holds(store'[adminHas], j, reviewed'[j])
    BY <1>2, <1>3, <1>4 DEF ReviewInv, ReviewsKept
  <2>2. Holds(catFile', j, reviewed'[j])
    <3>1. CASE catFile' = store'[adminHas]
      BY <2>1, <3>1
    <3>2. CASE catFile' = catFile /\ reviewed' = [reviewed EXCEPT ![id] = NoReview]
      <4>1. j # id
        BY <3>2 DEF ReviewInv, CatTypeOK
      <4>2. QED
        BY <1>2, <3>2, <4>1 DEF ReviewInv, ReviewsKept
    <3>3. QED
      BY <3>1, <3>2 DEF ReviewRule
  <2>3. j \in late' \/ Holds(store'[serving], j, reviewed'[j])
    <3>1. CASE serving = adminHas
      BY <2>1, <3>1
    <3>2. CASE serving # adminHas
      <4>1. late' = late \cup {id} /\ store'[serving] = store[serving]
        BY <1>1, <3>2 DEF ReviewRule, Overtakes, ReviewInv, CatTypeOK
      <4>2. QED
        BY <1>2, <4>1 DEF ReviewInv, ReviewsKept
    <3>3. QED
      BY <3>1, <3>2
  <2>4. QED
    BY <2>1, <2>2, <2>3
<1>6. CopiesKeep'
  <2>1. ASSUME catReload'.pc = "opened", NEW j \in RuleId \ catReload'.unseen,
               reviewed'[j] # NoReview
        PROVE  Holds(catReload'.entries, j, reviewed'[j])
    <3>1. catReload.pc = "opened"
      BY <2>1 DEF ReviewRule, Overtakes
    <3>2. catReload \in [pc : {"opened"}, entries : Entries, unseen : SUBSET RuleId]
      BY <3>1, ReloadKinds DEF ReviewInv, CatTypeOK, ReloadRec
    <3>3. catReload'.entries = catReload.entries /\ catReload'.unseen = catReload.unseen \cup {id}
      BY <3>1, <3>2 DEF ReviewRule, Overtakes
    <3>4. QED
      BY <1>2, <2>1, <3>1, <3>3 DEF ReviewInv, CopiesKeep
  <2>2. ASSUME catSync'.pc = "putback", NEW j \in RuleId \ catSync'.missed,
               reviewed'[j] # NoReview
        PROVE  Holds(catSync'.entries, j, reviewed'[j])
    <3>1. catSync.pc = "putback"
      BY <2>2 DEF ReviewRule, Overtakes
    <3>2. catSync \in [pc : {"putback"}, obj : StoreObj, entries : Entries, missed : SUBSET RuleId]
      BY <3>1, SyncKinds DEF ReviewInv, CatTypeOK, SyncRec
    <3>3. catSync'.entries = catSync.entries /\ catSync'.missed = catSync.missed \cup {id}
      BY <3>1, <3>2 DEF ReviewRule, Overtakes
    <3>4. QED
      BY <1>2, <2>2, <3>1, <3>3 DEF ReviewInv, CopiesKeep
  <2>3. QED
    BY <2>1, <2>2 DEF CopiesKeep, Holds
<1>7. QED
  BY <1>5, <1>6

LEMMA SyncKeeps ==
  ASSUME ReviewInv,
         SyncStart \/ (\E ids \in SUBSET RuleId : SyncBuilt(ids)) \/ SyncFails \/ SyncReplaces
  PROVE  ReviewsKept' /\ CopiesKeep'
<1>1. catSync \in SyncRec
  BY DEF ReviewInv, CatTypeOK, SyncRec
<1>2. CASE SyncStart \/ \E ids \in SUBSET RuleId : SyncBuilt(ids)
  BY <1>2 DEF SyncStart, SyncBuilt, ReviewInv, ReviewsKept, CopiesKeep, Holds
<1>3. CASE SyncFails
  <2>1. /\ catSync'.missed = Lacks(store[catSync.obj])
        /\ catSync'.entries = store[catSync.obj]
        /\ UNCHANGED <<store, catFile, adminHas, serving, catReload, reviewed, late>>
    BY <1>3 DEF SyncFails
  <2>2. QED
    BY <2>1 DEF Lacks, ReviewInv, ReviewsKept, CopiesKeep, Holds
<1>4. CASE SyncReplaces
  <2> DEFINE o == catSync.obj
             kept == catSync.entries
  <2>1. /\ catSync'.pc # "putback"
        /\ store' = [store EXCEPT ![o] = kept] /\ catFile' \in {kept, catFile}
        /\ o \in StoreObj /\ store \in [StoreObj -> Entries]
        /\ UNCHANGED <<adminHas, serving, catReload, late>>
    <3> DEFINE again == [catSync EXCEPT !.pc = "again"]
    <3>1. catSync' = CatIdle \/ (catSync.pc = "replace" /\ catSync' = again)
      BY <1>4 DEF SyncReplaces
    <3>2. CatIdle.pc # "putback" /\ (catSync.pc = "replace" => again.pc # "putback")
      BY <1>1 DEF SyncRec, CatIdle
    <3> HIDE DEF again
    <3>3. catSync'.pc # "putback"
      BY <3>1, <3>2
    <3>4. QED
      BY <1>1, <1>4, <3>3, SyncKinds DEF SyncReplaces, ReviewInv, CatTypeOK
  <2>2. ASSUME NEW j \in RuleId, reviewed'[j] # NoReview
        PROVE  /\ reviewed'[j] = reviewed[j] /\ Holds(kept, j, reviewed[j])
    <3>1. catSync.pc = "putback" /\ j \notin catSync.missed /\ reviewed'[j] = reviewed[j]
      BY <1>4, <2>1, <2>2 DEF SyncReplaces
    <3>2. QED
      BY <2>2, <3>1 DEF ReviewInv, CopiesKeep
  <2> HIDE DEF o, kept
  <2>3. ReviewsKept'
    <3> SUFFICES ASSUME NEW j \in RuleId, reviewed'[j] # NoReview
                 PROVE  /\ Holds(store'[adminHas], j, reviewed'[j])
                        /\ Holds(catFile', j, reviewed'[j])
                        /\ j \in late \/ Holds(store'[serving], j, reviewed'[j])
      BY <2>1 DEF ReviewsKept, Holds
    <3>1. \A x \in StoreObj : store'[x] \in {store[x], kept}
      BY <2>1
    <3>2. /\ Holds(store[adminHas], j, reviewed[j]) /\ Holds(catFile, j, reviewed[j])
          /\ j \in late \/ Holds(store[serving], j, reviewed[j])
      BY <2>2 DEF ReviewInv, ReviewsKept
    <3>3. adminHas \in StoreObj /\ serving \in StoreObj
      BY DEF ReviewInv, CatTypeOK
    <3>4. QED
      BY <2>1, <2>2, <3>1, <3>2, <3>3
  <2>4. CopiesKeep'
    BY <2>1, <2>2 DEF CopiesKeep, CatIdle, ReviewInv, Holds
  <2>5. QED
    BY <2>3, <2>4
<1>5. QED
  BY <1>2, <1>3, <1>4

LEMMA ReloadKeeps ==
  ASSUME ReviewInv, ReloadOpens \/ (\E o \in StoreObj : ReloadServes(o)) \/ CatRestart
  PROVE  ReviewsKept' /\ CopiesKeep'
<1>1. CASE ReloadOpens
  <2>1. /\ catReload'.entries = catFile
        /\ UNCHANGED <<store, catFile, adminHas, serving, catSync, reviewed, late>>
    BY <1>1 DEF ReloadOpens
  <2>2. QED
    BY <2>1 DEF ReviewInv, ReviewsKept, CopiesKeep, Holds
<1>2. ASSUME NEW o \in StoreObj, ReloadServes(o) PROVE ReviewsKept' /\ CopiesKeep'
  <2>1. /\ catReload.pc = "opened" /\ o # adminHas /\ adminHas \in StoreObj
        /\ store'[o] = catReload.entries /\ store'[adminHas] = store[adminHas]
        /\ serving' = o /\ late' = catReload.unseen /\ catReload' = CatIdle
        /\ UNCHANGED <<catFile, adminHas, catSync, reviewed>>
    BY <1>2 DEF ReloadServes, ReviewInv, CatTypeOK
  <2>2. ReviewsKept'
    BY <2>1 DEF ReviewInv, ReviewsKept, CopiesKeep, Holds
  <2>3. CopiesKeep'
    BY <2>1 DEF ReviewInv, CopiesKeep, CatIdle, Holds
  <2>4. QED
    BY <2>2, <2>3
<1>3. CASE CatRestart
  BY <1>3, CatalogAssumption DEF CatRestart, ReviewInv, CatTypeOK, ReviewsKept, CopiesKeep,
     CatIdle, Holds
<1>4. QED
  BY <1>1, <1>2, <1>3

\* A review that was acknowledged is in the store it was made in and in the file, and in
\* force once the serving store was opened after it, until a synchronisation that has not
\* seen it replaces it: one that fetched the lists, or one that failed and puts back a
\* copy taken before the review, or of another store.  For any number of rules and stores,
\* reloads, restarts and the failed synchronisations that copied it lose none.
THEOREM AcknowledgedReviewsKept == CatSpec => []ReviewsKept
<1>1. CatInit => ReviewInv
  BY CatInitType DEF CatInit, ReviewInv, ReviewsKept, CopiesKeep, CatIdle
<1>2. ReviewInv /\ [CatNext]_catVars => ReviewInv'
  <2> SUFFICES ASSUME ReviewInv, [CatNext]_catVars PROVE ReviewInv'
    OBVIOUS
  <2>1. CatTypeOK'
    BY CatNextType DEF ReviewInv
  <2>2. ReviewsKept' /\ CopiesKeep'
    <3>1. CASE CatNext
      BY <3>1, ReviewRuleKeeps, SyncKeeps, ReloadKeeps DEF CatNext
    <3>2. CASE UNCHANGED catVars
      BY <3>2 DEF catVars, ReviewInv, ReviewsKept, CopiesKeep, Holds
    <3>3. QED
      BY <3>1, <3>2
  <2>3. QED
    BY <2>1, <2>2 DEF ReviewInv
<1>3. ReviewInv => ReviewsKept
  BY DEF ReviewInv
<1>4. QED
  BY <1>1, <1>2, <1>3, PTL DEF CatSpec

-----------------------------------------------------------------------------
(* The managed feed: types.                                                 *)

ResolveRec == [pc : {"resolve"}, cfg : FeedConfigs, records : BOOLEAN, empty : BOOLEAN,
               entries : SUBSET EntryId, cached : Age, last : Age]
DecideRec == [pc : {"decide"}, cfg : FeedConfigs, records : BOOLEAN, empty : BOOLEAN,
              entries : SUBSET EntryId, ips : {"none", "fresh", "stale"}]
RecordRec == [pc : {"record"}, included : SUBSET EntryId]

\* A generation by what it is doing.
LEMMA GenKinds ==
  ASSUME NEW r \in GenRec
  PROVE  /\ r.pc = "resolve" => r \in ResolveRec
         /\ r.pc = "decide" => r \in DecideRec
         /\ r.pc = "record" => r \in RecordRec
BY DEF GenRec, GenIdle, ResolveRec, DecideRec, RecordRec

LEMMA GenSets == ResolveRec \cup DecideRec \cup RecordRec \cup {GenIdle} = GenRec
BY DEF GenRec, ResolveRec, DecideRec, RecordRec

LEMMA GenGoesType ==
  ASSUME FeedTypeOK, NEW g \in Generation, NEW r \in GenRec, GenGoes(g, r)
  PROVE  gens' \in [Generation -> GenRec]
BY DEF FeedTypeOK, GenGoes

LEMMA GenResolvesType ==
  ASSUME NEW r \in ResolveRec, NEW ips \in {"none", "fresh", "stale"}
  PROVE  GenResolves(r, ips) \in DecideRec
BY DEF ResolveRec, DecideRec, GenResolves

LEMMA AgeType ==
  /\ {0, Never} \subseteq Age
  /\ \A age \in Age : Older(age) \in Age
  /\ \A ips, last : Cached(ips, last) \in {"none", "fresh", "stale"}
BY FeedAssumption DEF Age, Never, Older, Cached

\* What was added and removed adds up.
LEMMA DeltaAddsUp ==
  ASSUME NEW prev \in SUBSET EntryId, NEW next \in SUBSET EntryId
  PROVE  /\ Delta(prev, next) \in HistRec
         /\ Delta(prev, next).inc = Cardinality(next)
         /\ Delta(prev, next).inc =
              Cardinality(prev) + Delta(prev, next).added - Delta(prev, next).removed
<1>1. /\ IsFiniteSet(prev) /\ IsFiniteSet(next)
      /\ IsFiniteSet(next \ prev) /\ IsFiniteSet(prev \ next)
      /\ IsFiniteSet(prev \cap next)
  BY FS_Subset, FeedAssumption
<1>2. /\ Cardinality(prev) \in Nat /\ Cardinality(next) \in Nat
      /\ Cardinality(next \ prev) \in Nat /\ Cardinality(prev \ next) \in Nat
      /\ Cardinality(prev \cap next) \in Nat
  BY <1>1, FS_CardinalityType
<1>3. Cardinality(prev \ next) = Cardinality(prev) - Cardinality(prev \cap next)
  BY <1>1, FS_Difference
<1>4. Cardinality(next \ prev) = Cardinality(next) - Cardinality(prev \cap next)
  <2>1. Cardinality(next \ prev) = Cardinality(next) - Cardinality(next \cap prev)
    BY <1>1, FS_Difference
  <2>2. next \cap prev = prev \cap next
    OBVIOUS
  <2>3. QED
    BY <2>1, <2>2
<1>5. QED
  BY <1>2, <1>3, <1>4 DEF Delta, HistRec

\* Cutting a history keeps its newest records, in order, at most HistMax of them.
LEMMA CutKeepsTail ==
  ASSUME NEW h \in Seq(HistRec), Len(h) <= HistMax + 1
  PROVE  /\ Cut(h) \in Seq(HistRec) /\ Len(Cut(h)) <= HistMax
         /\ h # <<>> => Cut(h) # <<>>
         /\ \E k \in 0 .. 1 :
              /\ Len(h) = Len(Cut(h)) + k
              /\ \A i \in 1 .. Len(Cut(h)) : Cut(h)[i] = h[i + k]
<1>1. HistMax \in Nat \ {0} /\ Len(h) \in Nat
  BY FeedAssumption
<1>2. CASE Len(h) <= HistMax
  <2>1. Cut(h) = h
    BY <1>1, <1>2 DEF Cut
  <2>2. QED
    BY <1>1, <1>2, <2>1
<1>3. CASE Len(h) = HistMax + 1
  <2>1. Cut(h) = SubSeq(h, 2, Len(h))
    BY <1>1, <1>3 DEF Cut
  <2>2. 2 \in 1 .. Len(h) + 1 /\ Len(h) \in 2 - 1 .. Len(h)
    BY <1>1, <1>3
  <2>3. /\ SubSeq(h, 2, Len(h)) \in Seq(HistRec)
        /\ Len(SubSeq(h, 2, Len(h))) = HistMax
        /\ \A i \in 1 .. HistMax : SubSeq(h, 2, Len(h))[i] = h[i + 1]
    BY <1>1, <1>3, <2>2, SubSeqProperties
  <2>4. QED
    BY <1>1, <1>3, <2>1, <2>3
<1>4. QED
  BY <1>1, <1>2, <1>3

LEMMA GenStartType ==
  ASSUME FeedTypeOK, NEW g \in Generation,
         (\E records \in BOOLEAN : GenCopy(g, records)) \/ GenResolved(g) \/ GenResolveFails(g)
  PROVE  FeedTypeOK'
<1>1. ASSUME NEW records \in BOOLEAN, GenCopy(g, records) PROVE FeedTypeOK'
  <2> DEFINE r == [pc |-> "resolve", cfg |-> feedCfg, records |-> records,
                   empty |-> emergency \/ ~feedCfg.enabled,
                   entries |-> IF records THEN feedEntries ELSE {},
                   cached |-> targetIPs, last |-> lastResolve]
  <2>1. (emergency \/ ~feedCfg.enabled) \in BOOLEAN
    OBVIOUS
  <2>2. r \in ResolveRec
    BY <2>1 DEF FeedTypeOK, ResolveRec
  <2>3. GenResolves(r, "none") \in DecideRec
    BY <2>2, GenResolvesType
  <2>4. r \in GenRec /\ GenResolves(r, "none") \in GenRec
    BY <2>2, <2>3, GenSets
  <2>5. GenGoes(g, r) \/ GenGoes(g, GenResolves(r, "none"))
    BY <1>1 DEF GenCopy
  <2> HIDE DEF r
  <2>6. gens' \in [Generation -> GenRec]
    BY <2>4, <2>5, GenGoesType
  <2>7. QED
    BY <1>1, <2>6 DEF GenCopy, FeedTypeOK
<1>2. CASE GenResolved(g)
  <2>1. gens[g] \in ResolveRec
    BY <1>2, GenKinds DEF GenResolved, FeedTypeOK
  <2>2. GenResolves(gens[g], "fresh") \in GenRec /\ GenResolves(gens[g], "none") \in GenRec
    BY <2>1, GenResolvesType, GenSets
  <2>3. gens' \in [Generation -> GenRec]
    BY <1>2, <2>2, GenGoesType DEF GenResolved
  <2>4. targetIPs' \in Age /\ lastResolve' \in Age
    BY <1>2, AgeType DEF GenResolved
  <2>5. QED
    BY <1>2, <2>3, <2>4 DEF GenResolved, FeedTypeOK
<1>3. CASE GenResolveFails(g)
  <2>1. gens[g] \in ResolveRec
    BY <1>3, GenKinds DEF GenResolveFails, FeedTypeOK
  <2>2. GenResolves(gens[g], Cached(gens[g].cached, gens[g].last)) \in GenRec
    BY <2>1, AgeType, GenResolvesType, GenSets
  <2>3. gens' \in [Generation -> GenRec]
    BY <1>3, <2>2, GenGoesType DEF GenResolveFails
  <2>4. QED
    BY <1>3, <2>3 DEF GenResolveFails, FeedTypeOK
<1>4. QED
  BY <1>1, <1>2, <1>3

\* The book after a generation is recorded.
LEMMA RecordedType ==
  ASSUME NEW book \in Book, Len(book.history) <= HistMax, NEW included \in SUBSET EntryId
  PROVE  Recorded(book, included) \in Book /\ Len(Recorded(book, included).history) <= HistMax
<1> DEFINE d == Delta(book.snapshot, included)
           h == Append(book.history, d)
<1>1. book.snapshot \in SUBSET EntryId /\ book.history \in Seq(HistRec)
  BY DEF Book
<1>2. d \in HistRec
  BY <1>1, DeltaAddsUp
<1> HIDE DEF d
<1>3. h \in Seq(HistRec) /\ Len(h) = Len(book.history) + 1
  BY <1>1, <1>2, AppendProperties
<1>4. Len(h) <= HistMax + 1
  BY <1>1, <1>3, FeedAssumption
<1> HIDE DEF h
<1>5. Cut(h) \in Seq(HistRec) /\ Len(Cut(h)) <= HistMax
  BY <1>3, <1>4, CutKeepsTail
<1>6. Recorded(book, included) = [snapshot |-> included, history |-> Cut(h)]
  BY DEF Recorded, h, d
<1>7. QED
  BY <1>5, <1>6 DEF Book

LEMMA GenEndType ==
  ASSUME FeedTypeOK, NEW g \in Generation, GenEmergency(g) \/ GenDecide(g) \/ GenRecord(g)
  PROVE  FeedTypeOK'
<1>1. CASE GenEmergency(g)
  <2>1. [pc |-> "record", included |-> {}] \in GenRec
    BY DEF GenRec
  <2>2. gens' \in [Generation -> GenRec]
    BY <1>1, <2>1, GenGoesType DEF GenEmergency
  <2>3. QED
    BY <1>1, <2>2 DEF GenEmergency, FeedTypeOK
<1>2. CASE GenDecide(g)
  <2>1. gens[g] \in DecideRec
    BY <1>2, GenKinds DEF GenDecide, FeedTypeOK
  <2>2. /\ [pc |-> "record", included |-> IF gens[g].empty THEN {} ELSE gens[g].entries] \in GenRec
        /\ GenIdle \in GenRec
    BY <2>1 DEF DecideRec, GenRec
  <2>3. gens' \in [Generation -> GenRec]
    BY <1>2, <2>2, GenGoesType DEF GenDecide
  <2>4. QED
    BY <1>2, <2>3 DEF GenDecide, FeedTypeOK
<1>3. CASE GenRecord(g)
  <2>1. gens[g].included \in SUBSET EntryId
    BY <1>3, GenKinds DEF GenRecord, FeedTypeOK, RecordRec
  <2>2. feedBook' \in Book /\ Len(feedBook'.history) <= HistMax
    BY <1>3, <2>1, RecordedType DEF GenRecord, FeedTypeOK
  <2>3. gens' \in [Generation -> GenRec]
    BY <1>3, GenGoesType DEF GenRecord, GenRec
  <2>4. QED
    BY <1>3, <2>2, <2>3 DEF GenRecord, FeedSave, FeedTypeOK
<1>4. QED
  BY <1>1, <1>2, <1>3

\* Time, and a resolve record it passes over.
LEMMA TickType ==
  ASSUME FeedTypeOK, FeedTick
  PROVE  FeedTypeOK'
<1>1. targetIPs' \in Age /\ lastResolve' \in Age
  BY AgeType DEF FeedTick, FeedTypeOK
<1>2. ASSUME NEW g \in Generation, gens[g].pc = "resolve"
      PROVE  [gens[g] EXCEPT !.cached = Older(@), !.last = Older(@)] \in GenRec
  <2>1. gens[g] \in ResolveRec
    BY <1>2, GenKinds DEF FeedTypeOK
  <2>2. Older(gens[g].cached) \in Age /\ Older(gens[g].last) \in Age
    BY <2>1, AgeType DEF ResolveRec
  <2>3. [gens[g] EXCEPT !.cached = Older(@), !.last = Older(@)] \in ResolveRec
    BY <2>1, <2>2 DEF ResolveRec
  <2>4. QED
    BY <2>3, GenSets
<1>3. gens' \in [Generation -> GenRec]
  BY <1>2 DEF FeedTick, FeedTypeOK
<1>4. QED
  BY <1>1, <1>3 DEF FeedTick, FeedTypeOK

LEMMA FeedInitType == FeedInit => FeedTypeOK
<1>1. EmptyBook \in Book /\ Len(EmptyBook.history) = 0
  BY DEF EmptyBook, Book
<1>2. GenIdle \in GenRec /\ HistMax \in Nat
  BY FeedAssumption DEF GenRec
<1>3. Never \in Age
  BY AgeType
<1>4. SUFFICES ASSUME FeedInit PROVE FeedTypeOK
  OBVIOUS
<1>5. feedBook \in Book /\ Len(feedBook.history) <= HistMax
  BY <1>1, <1>2, <1>4 DEF FeedInit
<1>6. gens \in [Generation -> GenRec]
  BY <1>2, <1>4 DEF FeedInit
<1>7. QED
  BY <1>3, <1>4, <1>5, <1>6 DEF FeedInit, FeedTypeOK

LEMMA FeedNextType ==
  ASSUME FeedTypeOK, [FeedNext]_feedVars
  PROVE  FeedTypeOK'
<1>1. CASE \E g \in Generation :
             \/ \E records \in BOOLEAN : GenCopy(g, records)
             \/ GenResolved(g) \/ GenResolveFails(g)
             \/ GenEmergency(g) \/ GenDecide(g) \/ GenRecord(g)
  BY <1>1, GenStartType, GenEndType
<1>2. CASE RefreshTarget
  BY <1>2, AgeType DEF RefreshTarget, FeedTypeOK
<1>3. ASSUME NEW on \in BOOLEAN, SetEmergencyEmpty(on) PROVE FeedTypeOK'
  BY <1>3 DEF SetEmergencyEmpty, FeedSave, FeedTypeOK
<1>4. ASSUME NEW cfg \in FeedConfigs, SetConfig(cfg) PROVE FeedTypeOK'
  BY <1>4 DEF SetConfig, FeedTypeOK
<1>5. ASSUME NEW entries \in SUBSET EntryId, ApplyEntries(entries) PROVE FeedTypeOK'
  BY <1>5 DEF ApplyEntries, FeedSave, FeedTypeOK
<1>6. CASE FeedRestart
  <2>1. GenIdle \in GenRec
    BY DEF GenRec
  <2>2. QED
    BY <1>6, <2>1, AgeType DEF FeedRestart, FeedTypeOK
<1>7. CASE UNCHANGED feedVars
  BY <1>7 DEF feedVars, FeedTypeOK
<1>8. QED
  BY <1>1, <1>2, <1>3, <1>4, <1>5, <1>6, <1>7, TickType DEF FeedNext

\* The feed's settings, addresses, book and generations keep their types, and the history
\* never grows beyond its limit.
THEOREM FeedTypes == FeedSpec => []FeedTypeOK
<1>1. FeedTypeOK /\ [FeedNext]_feedVars => FeedTypeOK'
  BY FeedNextType
<1>2. QED
  BY FeedInitType, <1>1, PTL DEF FeedSpec

-----------------------------------------------------------------------------
(* The managed feed: the history.                                           *)

\* A balanced book stays balanced when a generation is recorded.
LEMMA RecordedBalances ==
  ASSUME NEW book \in Book, Len(book.history) <= HistMax, Balanced(book),
         NEW included \in SUBSET EntryId
  PROVE  Balanced(Recorded(book, included))
<1> DEFINE d == Delta(book.snapshot, included)
           h == Append(book.history, d)
           n == Len(book.history)
<1>1. book.snapshot \in SUBSET EntryId /\ book.history \in Seq(HistRec) /\ n \in 0 .. HistMax
  BY FeedAssumption DEF Book
<1>2. /\ d \in HistRec /\ d.inc = Cardinality(included)
      /\ d.inc = Cardinality(book.snapshot) + d.added - d.removed
  BY <1>1, DeltaAddsUp
<1> HIDE DEF d
<1>3. /\ h \in Seq(HistRec) /\ h # <<>> /\ Len(h) = n + 1
      /\ \A i \in 1 .. n : h[i] = book.history[i]
      /\ h[n + 1] = d
  BY <1>1, <1>2, AppendProperties
<1> HIDE DEF h
<1>4. \A i \in 1 .. n : h[i + 1].inc = h[i].inc + h[i + 1].added - h[i + 1].removed
  <2> SUFFICES ASSUME NEW i \in 1 .. n
               PROVE  h[i + 1].inc = h[i].inc + h[i + 1].added - h[i + 1].removed
    OBVIOUS
  <2>1. CASE i < n
    <3>1. i \in 1 .. n - 1 /\ i + 1 \in 1 .. n
      BY <1>1, <2>1
    <3>2. book.history[i + 1].inc =
            book.history[i].inc + book.history[i + 1].added - book.history[i + 1].removed
      BY <3>1 DEF Balanced
    <3>3. QED
      BY <1>3, <3>1, <3>2
  <2>2. CASE i = n
    <3>1. book.history[n].inc = Cardinality(book.snapshot)
      BY <1>1, <2>2 DEF Balanced
    <3>2. h[n] = book.history[n] /\ h[n + 1] = d
      BY <1>1, <1>3, <2>2
    <3>3. QED
      BY <1>2, <2>2, <3>1, <3>2
  <2>3. QED
    BY <1>1, <2>1, <2>2
<1>5. Len(h) <= HistMax + 1
  BY <1>1, <1>3, FeedAssumption
<1>6. PICK k \in 0 .. 1 : /\ Len(h) = Len(Cut(h)) + k
                          /\ \A i \in 1 .. Len(Cut(h)) : Cut(h)[i] = h[i + k]
  BY <1>3, <1>5, CutKeepsTail
<1>7. Len(Cut(h)) \in Nat /\ Cut(h) # <<>> /\ Len(Cut(h)) > 0
  <2>1. Cut(h) \in Seq(HistRec) /\ Cut(h) # <<>>
    BY <1>3, <1>5, CutKeepsTail
  <2>2. QED
    BY <2>1
<1> DEFINE t == Cut(h)
<1> HIDE DEF t
<1>8. \A i \in 1 .. Len(t) - 1 : t[i + 1].inc = t[i].inc + t[i + 1].added - t[i + 1].removed
  <2> SUFFICES ASSUME NEW i \in 1 .. Len(t) - 1
               PROVE  t[i + 1].inc = t[i].inc + t[i + 1].added - t[i + 1].removed
    OBVIOUS
  <2>1. i \in 1 .. Len(t) /\ i + 1 \in 1 .. Len(t) /\ i + k \in 1 .. n /\ i + 1 + k = (i + k) + 1
    BY <1>1, <1>3, <1>6, <1>7 DEF t
  <2>2. t[i] = h[i + k] /\ t[i + 1] = h[(i + k) + 1]
    BY <1>6, <2>1 DEF t
  <2>3. QED
    BY <1>4, <2>1, <2>2
<1>9. t[Len(t)].inc = Cardinality(included)
  <2>1. t[Len(t)] = h[n + 1]
    BY <1>3, <1>6, <1>7 DEF t
  <2>2. QED
    BY <1>2, <1>3, <2>1
<1>10. Recorded(book, included) = [snapshot |-> included, history |-> t]
  BY DEF Recorded, t, h, d
<1>11. QED
  BY <1>8, <1>9, <1>10 DEF Balanced

\* The history of the feed adds up for any number of entries and of generations that
\* overlap: a delta is taken against the snapshot that it replaces, in one step.
THEOREM FeedHistoryBalances == FeedSpec => []HistoryBalances
<1> DEFINE Inv == FeedTypeOK /\ HistoryBalances
<1>1. FeedInit => Inv
  BY FeedInitType DEF FeedInit, HistoryBalances, Balanced, EmptyBook
<1>2. Inv /\ [FeedNext]_feedVars => Inv'
  <2> SUFFICES ASSUME Inv, [FeedNext]_feedVars PROVE Inv'
    OBVIOUS
  <2>1. FeedTypeOK'
    BY FeedNextType
  <2>2. ASSUME NEW g \in Generation, GenRecord(g) PROVE HistoryBalances'
    <3>1. gens[g].included \in SUBSET EntryId
      BY <2>2, GenKinds DEF GenRecord, FeedTypeOK, RecordRec
    <3>2. feedBook \in Book /\ Len(feedBook.history) <= HistMax /\ Balanced(feedBook)
      BY DEF FeedTypeOK, HistoryBalances
    <3>3. feedBook' = Recorded(feedBook, gens[g].included)
      BY <2>2 DEF GenRecord
    <3>4. Balanced(feedBook')
      BY <3>1, <3>2, <3>3, RecordedBalances
    <3>5. QED
      BY <3>4 DEF HistoryBalances, Balanced
  <2>3. ASSUME UNCHANGED feedBook PROVE HistoryBalances'
    BY <2>3 DEF HistoryBalances, Balanced
  <2>4. HistoryBalances'
    BY <2>2, <2>3 DEF FeedNext, feedVars, GenCopy, GenResolved, GenResolveFails, GenEmergency,
       GenDecide, RefreshTarget, SetEmergencyEmpty, SetConfig, ApplyEntries, FeedTick,
       FeedRestart
  <2>5. QED
    BY <2>1, <2>4
<1>3. Inv => HistoryBalances
  OBVIOUS
<1>4. QED
  BY <1>1, <1>2, <1>3, PTL DEF FeedSpec

-----------------------------------------------------------------------------
(* The managed feed: its target, and the emergency switch.                  *)

\* Addresses of the target never are older than the time that is kept with them.
NoOlder(ips, last) == ips # Never => last # Never /\ ips <= last

AgesTogether ==
  /\ NoOlder(targetIPs, lastResolve)
  /\ \A g \in Generation : gens[g].pc = "resolve" => NoOlder(gens[g].cached, gens[g].last)

TargetInv == FeedTypeOK /\ AgesTogether /\ TargetFresh

\* Time keeps that, and addresses of which it is true are not taken when they are stale.
LEMMA NoOlderKept ==
  ASSUME NEW ips \in Age, NEW last \in Age, NoOlder(ips, last)
  PROVE  NoOlder(Older(ips), Older(last)) /\ Cached(ips, last) # "stale"
BY FeedAssumption DEF Age, Never, NoOlder, Older, Cached

LEMMA TargetStep ==
  ASSUME TargetInv, [FeedNext]_feedVars
  PROVE  AgesTogether' /\ TargetFresh'
<1>0. gens \in [Generation -> GenRec] /\ targetIPs \in Age /\ lastResolve \in Age
  BY DEF TargetInv, FeedTypeOK
<1>1. ASSUME NEW g \in Generation, NEW records \in BOOLEAN, GenCopy(g, records)
      PROVE  AgesTogether' /\ TargetFresh'
  <2>1. /\ UNCHANGED <<targetIPs, lastResolve>>
        /\ \A f \in Generation : f # g => gens'[f] = gens[f]
        /\ \/ gens'[g].pc = "resolve" /\ gens'[g].cached = targetIPs /\ gens'[g].last = lastResolve
           \/ gens'[g].pc = "decide" /\ gens'[g].ips = "none"
    BY <1>0, <1>1 DEF GenCopy, GenGoes, GenResolves
  <2>2. QED
    BY <2>1 DEF TargetInv, AgesTogether, TargetFresh, NoOlder
<1>2. ASSUME NEW g \in Generation, GenResolved(g) PROVE AgesTogether' /\ TargetFresh'
  <2>1. /\ lastResolve' = 0 /\ targetIPs' \in {0, Never}
        /\ \A f \in Generation : f # g => gens'[f] = gens[f]
        /\ gens'[g].pc = "decide" /\ gens'[g].ips \in {"fresh", "none"}
    BY <1>0, <1>2 DEF GenResolved, GenGoes, GenResolves
  <2>2. QED
    BY <2>1 DEF TargetInv, AgesTogether, TargetFresh, NoOlder, Never
<1>3. ASSUME NEW g \in Generation, GenResolveFails(g) PROVE AgesTogether' /\ TargetFresh'
  <2>1. /\ UNCHANGED <<targetIPs, lastResolve>>
        /\ \A f \in Generation : f # g => gens'[f] = gens[f]
        /\ gens'[g].pc = "decide" /\ gens'[g].ips = Cached(gens[g].cached, gens[g].last)
    BY <1>0, <1>3 DEF GenResolveFails, GenGoes, GenResolves
  <2>2. gens[g].pc = "resolve" /\ gens[g].cached \in Age /\ gens[g].last \in Age
    BY <1>0, <1>3, GenKinds DEF GenResolveFails, ResolveRec
  <2>3. gens'[g].ips # "stale"
    BY <2>1, <2>2, NoOlderKept DEF TargetInv, AgesTogether
  <2>4. QED
    BY <2>1, <2>3 DEF TargetInv, AgesTogether, TargetFresh, NoOlder
<1>4. ASSUME NEW g \in Generation, GenEmergency(g) \/ GenDecide(g) \/ GenRecord(g)
      PROVE  AgesTogether' /\ TargetFresh'
  <2>1. /\ UNCHANGED <<targetIPs, lastResolve>>
        /\ \A f \in Generation : f # g => gens'[f] = gens[f]
        /\ gens'[g].pc \in {"record", "idle"}
    BY <1>0, <1>4 DEF GenEmergency, GenDecide, GenRecord, GenGoes, GenIdle
  <2>2. QED
    BY <2>1 DEF TargetInv, AgesTogether, TargetFresh, NoOlder
<1>5. CASE RefreshTarget
  <2>1. lastResolve' = 0 /\ targetIPs' \in {0, Never} /\ UNCHANGED gens
    BY <1>5 DEF RefreshTarget
  <2>2. QED
    BY <2>1 DEF TargetInv, AgesTogether, TargetFresh, NoOlder, Never
<1>6. CASE FeedTick
  <2>1. NoOlder(targetIPs', lastResolve')
    BY <1>0, <1>6, NoOlderKept DEF FeedTick, TargetInv, AgesTogether
  <2>2. ASSUME NEW g \in Generation
        PROVE  /\ gens'[g].pc = gens[g].pc
               /\ gens[g].pc = "resolve" => NoOlder(gens'[g].cached, gens'[g].last)
               /\ gens[g].pc = "decide" => gens'[g] = gens[g]
    <3>1. CASE gens[g].pc = "resolve"
      <4>1. gens[g] \in ResolveRec
        BY <1>0, <3>1, GenKinds
      <4>2. /\ gens'[g].pc = "resolve" /\ gens'[g].cached = Older(gens[g].cached)
            /\ gens'[g].last = Older(gens[g].last)
        BY <1>6, <3>1, <4>1 DEF FeedTick, ResolveRec
      <4>3. QED
        BY <3>1, <4>1, <4>2, NoOlderKept DEF TargetInv, AgesTogether, ResolveRec
    <3>2. CASE gens[g].pc # "resolve"
      BY <1>6, <3>2 DEF FeedTick
    <3>3. QED
      BY <3>1, <3>2
  <2>3. QED
    BY <2>1, <2>2 DEF TargetInv, AgesTogether, TargetFresh, NoOlder
<1>7. CASE FeedRestart
  BY <1>7 DEF FeedRestart, AgesTogether, TargetFresh, NoOlder, GenIdle
<1>8. CASE UNCHANGED <<targetIPs, lastResolve, gens>>
  BY <1>8 DEF TargetInv, AgesTogether, TargetFresh, NoOlder
<1>9. QED
  BY <1>1, <1>2, <1>3, <1>4, <1>5, <1>6, <1>7, <1>8
  DEF FeedNext, feedVars, SetEmergencyEmpty, SetConfig, ApplyEntries

\* No feed is built from addresses of the target older than stale_target_ttl, for any
\* value of it and any number of generations: the addresses and the time of their
\* resolution are copied in one lock section, so that a refresh in between cannot make
\* old addresses look recent.
THEOREM TargetStaysFresh == FeedSpec => []TargetFresh
<1>1. FeedInit => TargetInv
  BY FeedInitType DEF FeedInit, TargetInv, AgesTogether, TargetFresh, NoOlder, GenIdle
<1>2. TargetInv /\ [FeedNext]_feedVars => TargetInv'
  <2> SUFFICES ASSUME TargetInv, [FeedNext]_feedVars PROVE TargetInv'
    OBVIOUS
  <2>1. FeedTypeOK'
    BY FeedNextType DEF TargetInv
  <2>2. QED
    BY <2>1, TargetStep DEF TargetInv
<1>3. TargetInv => TargetFresh
  BY DEF TargetInv
<1>4. QED
  BY <1>1, <1>2, <1>3, PTL DEF FeedSpec

\* Nothing but the administrator's hand or a restart turns the emergency switch off: no
\* generation under way, no reload, no synchronisation and no passing of time.
THEOREM EmergencyIsSticky == FeedSpec => EmergencySticks
<1>1. ASSUME [FeedNext]_feedVars
      PROVE  [emergency /\ ~emergency' => SetEmergencyEmpty(FALSE) \/ FeedRestart]_feedVars
  <2> SUFFICES ASSUME FeedNext, emergency, ~emergency'
               PROVE  SetEmergencyEmpty(FALSE) \/ FeedRestart
    BY <1>1
  <2>1. ASSUME NEW on \in BOOLEAN, SetEmergencyEmpty(on) PROVE SetEmergencyEmpty(FALSE)
    <3>1. on = FALSE
      BY <2>1 DEF SetEmergencyEmpty
    <3>2. QED
      BY <2>1, <3>1
  <2>2. CASE emergency' = emergency
    BY <2>2
  <2>3. CASE \E g \in Generation : GenEmergency(g)
    BY <2>3 DEF GenEmergency
  <2>4. QED
    BY <2>1, <2>2, <2>3 DEF FeedNext, GenCopy, GenResolved, GenResolveFails, GenDecide,
       GenRecord, RefreshTarget, SetConfig, ApplyEntries, FeedTick
<1>2. QED
  BY <1>1, PTL DEF FeedSpec, EmergencySticks

-----------------------------------------------------------------------------
(* The registration of the feed with AdGuard Home.                          *)

\* AGH has the feed at most once, under either spelling, and not at all while the
\* handler that has looked for it is about to add it.
OnceInv ==
  /\ filters \in Seq(Filter) /\ Len(filters) <= 1
  /\ regStep = "add" => Len(filters) = 0

\* Every URL that AGH has is one of the feed's: a filter is there when the feed is.
LEMMA AnyFilterIsTheFeed ==
  ASSUME filters \in Seq(Filter), ~Registered
  PROVE  Len(filters) = 0
<1>1. \A k \in DOMAIN filters : filters[k].url \in URLs
  <2>1. \A k \in DOMAIN filters : filters[k] \in Filter
    OBVIOUS
  <2>2. QED
    BY <2>1 DEF Filter
<1>2. \A url \in URLs : NormalURL(url) = NormalURL("feed")
  BY DEF URLs, NormalURL
<1>3. DOMAIN filters = {}
  BY <1>1, <1>2 DEF Registered, FeedFilters
<1>4. QED
  BY <1>3

\* A step of AGH's administrator, or the refresh, changes the filters one by one.
LEMMA ChangedFilters ==
  ASSUME filters \in Seq(Filter), Len(filters) <= 1,
         \/ Fetches
         \/ \E k \in DOMAIN filters : FilterRemoved(k) \/ FilterSwitched(k)
  PROVE  filters' \in Seq(Filter) /\ Len(filters') <= Len(filters)
<1>1. Len(filters) \in Nat /\ DOMAIN filters = 1..Len(filters)
      /\ \A k \in DOMAIN filters : filters[k] \in Filter
  OBVIOUS
<1>2. CASE Fetches
  <2>1. \A k \in DOMAIN filters :
          [filters[k] EXCEPT !.fetched = @ \/ filters[k].enabled] \in Filter
    BY <1>1 DEF Filter
  <2>2. filters' = [k \in 1..Len(filters) |->
                     [filters[k] EXCEPT !.fetched = @ \/ filters[k].enabled]]
    BY <1>1, <1>2 DEF Fetches
  <2>3. filters' \in Seq(Filter) /\ Len(filters') = Len(filters)
    BY <1>1, <2>1, <2>2
  <2>4. QED
    BY <1>1, <2>3
<1>3. ASSUME NEW k \in DOMAIN filters, FilterRemoved(k)
      PROVE  filters' \in Seq(Filter) /\ Len(filters') <= Len(filters)
  <2>1. Len(filters) = 1
    BY <1>1, <1>3
  <2>2. DOMAIN filters' = 1..0 /\ filters' = [j \in 1..0 |-> filters[IF j < k THEN j ELSE j + 1]]
    BY <1>3, <2>1 DEF FilterRemoved
  <2>3. filters' \in Seq(Filter) /\ Len(filters') = 0
    BY <2>2
  <2>4. QED
    BY <2>1, <2>3
<1>4. ASSUME NEW k \in DOMAIN filters, FilterSwitched(k)
      PROVE  filters' \in Seq(Filter) /\ Len(filters') <= Len(filters)
  <2> DEFINE f == [filters[k] EXCEPT !.enabled = ~@, !.fetched = @ \/ ~filters[k].enabled]
  <2>1. f \in Filter
    BY <1>1 DEF Filter
  <2>2. filters' = [filters EXCEPT ![k] = f]
    BY <1>1, <1>4 DEF FilterSwitched, Filter
  <2>3. filters' \in Seq(Filter) /\ Len(filters') = Len(filters)
    BY <1>1, <2>1, <2>2
  <2>4. QED
    BY <1>1, <2>3
<1>5. QED
  BY <1>2, <1>3, <1>4

LEMMA OnceInvariant == RegistrationSpec => []OnceInv
<1>1. RegistrationInit => OnceInv
  <2> SUFFICES ASSUME RegistrationInit PROVE OnceInv
    OBVIOUS
  <2>1. CASE filters = <<>>
    BY <2>1 DEF RegistrationInit, OnceInv
  <2>2. ASSUME NEW f \in [url : URLs, enabled : BOOLEAN, fetched : {TRUE}], filters = <<f>>
        PROVE  OnceInv
    <3>1. f \in Filter
      BY DEF Filter
    <3>2. filters \in Seq(Filter) /\ Len(filters) = 1
      BY <2>2, <3>1
    <3>3. QED
      BY <3>2 DEF RegistrationInit, OnceInv
  <2>3. QED
    BY <2>1, <2>2 DEF RegistrationInit
<1>2. OnceInv /\ [RegistrationNext]_registrationVars => OnceInv'
  <2> SUFFICES ASSUME OnceInv, [RegistrationNext]_registrationVars PROVE OnceInv'
    OBVIOUS
  <2>1. filters \in Seq(Filter) /\ Len(filters) \in Nat /\ Len(filters) <= 1
    BY DEF OnceInv
  <2>2. CASE UNCHANGED registrationVars \/ RegisterStart \/ RegisterRechecks
    BY <2>2 DEF registrationVars, RegisterStart, RegisterRechecks, RequestFails, OnceInv
  <2>3. CASE RegisterChecks
    BY <2>1, <2>3, AnyFilterIsTheFeed DEF RegisterChecks, RequestFails, OnceInv
  <2>4. CASE RegisterAdds
    <3>1. Len(filters) = 0 /\ regStep' # "add"
      BY <2>4 DEF RegisterAdds, RequestFails, OnceInv
    <3>2. [url |-> "feed", enabled |-> TRUE, fetched |-> FALSE] \in Filter
      BY DEF Filter, URLs
    <3>3. CASE AddsFilter
      <4>1. filters' \in Seq(Filter) /\ Len(filters') = 1
        BY <2>1, <3>1, <3>2, <3>3 DEF AddsFilter
      <4>2. QED
        BY <3>1, <4>1 DEF OnceInv
    <3>4. CASE UNCHANGED filters
      BY <2>1, <3>1, <3>4 DEF OnceInv
    <3>5. QED
      BY <2>4, <3>3, <3>4 DEF RegisterAdds
  <2>5. CASE RegisterRefreshes
    <3>1. regStep' # "add"
      BY <2>5 DEF RegisterRefreshes, RequestFails
    <3>2. filters' \in Seq(Filter) /\ Len(filters') <= Len(filters)
      BY <2>1, <2>5, ChangedFilters DEF RegisterRefreshes
    <3>3. QED
      BY <2>1, <3>1, <3>2 DEF OnceInv
  <2>6. CASE \E k \in DOMAIN filters : FilterRemoved(k) \/ FilterSwitched(k)
    <3>1. regStep' = regStep
      BY <2>6 DEF FilterRemoved, FilterSwitched
    <3>2. filters' \in Seq(Filter) /\ Len(filters') <= Len(filters)
      BY <2>1, <2>6, ChangedFilters
    <3>3. Len(filters') \in Nat
      BY <3>2
    <3>4. QED
      BY <2>1, <3>1, <3>2, <3>3 DEF OnceInv
  <2>7. QED
    BY <2>2, <2>3, <2>4, <2>5, <2>6 DEF RegistrationNext
<1>3. QED
  BY <1>1, <1>2, PTL DEF RegistrationSpec

\* registerAGHFeed adds the feed only when it has just seen that AGH does not have it,
\* and a request that AGH carried out although its answer was lost is seen by the next
\* registration: whatever is tried again, AGH never fetches the feed twice.
THEOREM FeedAddedOnce == RegistrationSpec => []FeedOnce
<1>1. OnceInv => FeedOnce
  BY DEF OnceInv, FeedOnce
<1>2. QED
  BY <1>1, OnceInvariant, PTL

RegSteps == {"idle", "check", "add", "refresh", "recheck"}
RegAnswers == {RegError} \cup [ok : {TRUE}, registered : BOOLEAN, enabled : BOOLEAN,
                              already : BOOLEAN, refreshed : BOOLEAN]
RegStepInv == regStep \in RegSteps /\ regAnswer \in RegAnswers

\* The registration keeps its types: with AGH's filters a sequence within its bound, and an
\* answer with every field, or an error with none.
THEOREM RegistrationTypes == RegistrationSpec => []RegistrationTypeOK
<1>1. \A step \in {"idle", "check", "add", "refresh", "recheck"} : step \in RegSteps
  BY DEF RegSteps
<1>2. RegError \in RegAnswers
  BY DEF RegAnswers
<1>3. ASSUME NEW there \in BOOLEAN, NEW on \in BOOLEAN, NEW had \in BOOLEAN, NEW anew \in BOOLEAN
      PROVE  [ok |-> TRUE, registered |-> there, enabled |-> on, already |-> had, refreshed |-> anew]
             \in RegAnswers
  BY DEF RegAnswers
<1>4. RegistrationInit => RegStepInv
  BY <1>1, <1>2 DEF RegistrationInit, RegStepInv
<1>5. ASSUME RegStepInv, [RegistrationNext]_registrationVars
      PROVE  RegStepInv'
  <2>1. FeedEnabled \in BOOLEAN /\ Registered \in BOOLEAN /\ (Registered /\ FeedEnabled) \in BOOLEAN
    BY DEF Registered, FeedEnabled
  <2> HIDE DEF RegSteps, RegAnswers
  <2>2. CASE UNCHANGED registrationVars \/ RegisterStart
    BY <1>1, <1>5, <2>2 DEF registrationVars, RegisterStart, RegStepInv
  <2>3. CASE RegisterChecks
    <3>1. CASE RequestFails
      BY <1>1, <1>2, <3>1 DEF RequestFails, RegStepInv
    <3>2. CASE regStep' = "add" /\ UNCHANGED regAnswer
      BY <1>1, <1>5, <3>2 DEF RegStepInv
    <3>3. CASE /\ regStep' = "idle"
               /\ regAnswer' = [ok |-> TRUE, registered |-> TRUE, enabled |-> FeedEnabled,
                                already |-> TRUE, refreshed |-> FALSE]
      <4>1. regAnswer' \in RegAnswers
        BY <1>3, <2>1, <3>3
      <4>2. QED
        BY <1>1, <3>3, <4>1 DEF RegStepInv
    <3>4. QED
      BY <2>3, <3>1, <3>2, <3>3 DEF RegisterChecks
  <2>4. CASE RegisterAdds \/ RegisterRefreshes
    BY <1>1, <1>2, <1>5, <2>4 DEF RegisterAdds, RegisterRefreshes, RequestFails, RegStepInv
  <2>5. CASE RegisterRechecks
    <3>1. CASE RequestFails
      BY <1>1, <1>2, <3>1 DEF RequestFails, RegStepInv
    <3>2. CASE /\ regStep' = "idle"
               /\ regAnswer' = [ok |-> TRUE, registered |-> Registered,
                                enabled |-> Registered /\ FeedEnabled,
                                already |-> FALSE, refreshed |-> TRUE]
      <4>1. regAnswer' \in RegAnswers
        BY <1>3, <2>1, <3>2
      <4>2. QED
        BY <1>1, <3>2, <4>1 DEF RegStepInv
    <3>3. QED
      BY <2>5, <3>1, <3>2 DEF RegisterRechecks
  <2>6. CASE \E k \in DOMAIN filters : FilterRemoved(k) \/ FilterSwitched(k)
    BY <1>5, <2>6 DEF FilterRemoved, FilterSwitched, RegStepInv
  <2>7. QED
    BY <1>5, <2>2, <2>3, <2>4, <2>5, <2>6 DEF RegistrationNext
<1>6. OnceInv /\ RegStepInv => RegistrationTypeOK
  <2> SUFFICES ASSUME OnceInv, RegStepInv PROVE RegistrationTypeOK
    OBVIOUS
  <2>2. filters \in Seq(Filter) /\ Len(filters) <= 1
    BY Zenon DEF OnceInv
  <2>3. Len(filters) \in Nat
    BY <2>2, LenProperties
  <2>4. Len(filters) <= FilterMax
    BY <2>2, <2>3, FilterMaxAssumption
  <2>5. QED
    BY <2>2, <2>4, Zenon DEF RegStepInv, RegSteps, RegAnswers, RegistrationTypeOK
<1>7. RegistrationSpec => []RegStepInv
  BY <1>4, <1>5, PTL DEF RegistrationSpec
<1>8. QED
  BY <1>6, <1>7, OnceInvariant, PTL

-----------------------------------------------------------------------------
(* The state files.  A store that holds its mutex over the save (admin.Store, *)
(* rulecatalog.Store) is a durable register, for any number of goroutines and *)
(* updates.                                                                  *)

Active(w) == writer[w].pc # "idle"

\* One goroutine saves at a time, on an inode that only it has written and that
\* is not the file; what it saves is the version in memory.
SaverInv ==
  /\ \A v, w \in Writer : Active(v) /\ Active(w) => v = w
  /\ \A w \in Writer :
       /\ Active(w) => writer[w].val = mem
       /\ writer[w].pc \in {"write", "writing"} => tmp # None /\ writer[w].inode = tmp
       /\ writer[w].pc = "write" => by[tmp] = {}
       /\ writer[w].pc = "writing" => by[tmp] = {w}
       /\ writer[w].pc = "rename" => tmp # None /\ data[tmp] = mem

\* The file is a complete version, at least the acknowledged one.
FileInv ==
  /\ tmp # None => tmp # path
  /\ stored \in Version /\ stored <= mem /\ acked <= stored
  /\ up

Inv == TypeOK /\ SaverInv /\ FileInv

LEMMA Fields ==
  ASSUME NEW ws \in WriterState
  PROVE  /\ ws.pc \in {"idle", "open", "write", "writing", "rename"}
         /\ ws.pc # "idle" => ws.val \in Version
         /\ ws.pc \in {"write", "writing"} => ws.inode \in Inode
BY DEF WriterState, Idle

LEMMA TokensDiffer == Torn \notin Version /\ Empty \notin Version
BY TokenAssumption, BoundAssumption DEF Version

LEMMA InitInv == Init => Inv
BY BoundAssumption
DEF Init, Inv, TypeOK, SaverInv, FileInv, Active, Idle, WriterState, Version, stored

LEMMA StepInv == ASSUME MutexHeld, Inv, [Next]_vars PROVE Inv'
<1> USE BoundAssumption DEF Inv
<1>1. ASSUME NEW w \in Writer, Update(w) PROVE Inv'
  <2>1. mem + 1 \in Version /\ mem + 1 > mem
    BY <1>1 DEF Update, TypeOK, Version
  <2>2. TypeOK'
    BY <1>1, <2>1 DEF Update, TypeOK, WriterState
  <2>3. SaverInv'
    BY <1>1 DEF Update, SaverInv, Active, TypeOK
  <2>4. FileInv'
    BY <1>1, <2>1 DEF Update, FileInv, stored, TypeOK, Version
  <2>5. QED
    BY <2>2, <2>3, <2>4
<1>2. ASSUME NEW w \in Writer, NEW i \in Inode, OpenTmp(w, i) PROVE Inv'
  <2>1. i # path
    BY <1>2 DEF OpenTmp, Unused, FileInv
  <2>2. writer[w].val \in Version
    BY <1>2, Fields DEF OpenTmp, TypeOK
  <2>3. TypeOK'
    BY <1>2, <2>2 DEF OpenTmp, TypeOK, WriterState
  <2>4. SaverInv'
    BY <1>2, TokenAssumption DEF OpenTmp, SaverInv, Active, TypeOK
  <2>5. FileInv'
    BY <1>2, <2>1 DEF OpenTmp, FileInv, stored, TypeOK
  <2>6. QED
    BY <2>3, <2>4, <2>5
<1>3. ASSUME NEW w \in Writer, WriteBegin(w) PROVE Inv'
  <2>1. writer[w].inode = tmp /\ tmp \in Inode /\ tmp # path /\ writer[w].val \in Version
    BY <1>3, Fields DEF WriteBegin, SaverInv, FileInv, TypeOK
  <2>2. TypeOK'
    <3>1. [writer[w] EXCEPT !.pc = "writing"] \in WriterState
      BY <1>3 DEF WriteBegin, TypeOK, WriterState, Idle
    <3>2. QED
      BY <1>3, <2>1, <3>1 DEF WriteBegin, TypeOK
  <2>3. SaverInv'
    BY <1>3, <2>1 DEF WriteBegin, SaverInv, Active, TypeOK, WriterState, Idle
  <2>4. FileInv'
    BY <1>3, <2>1 DEF WriteBegin, FileInv, stored, TypeOK
  <2>5. QED
    BY <2>2, <2>3, <2>4
<1>4. ASSUME NEW w \in Writer, NEW d \in Version \cup {Torn}, WriteEnd(w, d) PROVE Inv'
  <2>1. writer[w].inode = tmp /\ tmp \in Inode /\ tmp # path /\ writer[w].val \in Version
    BY <1>4, Fields DEF WriteEnd, SaverInv, FileInv, TypeOK
  <2>2. d = mem
    BY <1>4, <2>1 DEF WriteEnd, SaverInv, Active
  <2>3. TypeOK'
    BY <1>4, <2>1, <2>2 DEF WriteEnd, TypeOK, WriterState
  <2>4. SaverInv'
    BY <1>4, <2>1, <2>2 DEF WriteEnd, SaverInv, Active, TypeOK
  <2>5. FileInv'
    BY <1>4, <2>1 DEF WriteEnd, FileInv, stored, TypeOK
  <2>6. QED
    BY <2>3, <2>4, <2>5
<1>5. ASSUME NEW w \in Writer, Rename(w) PROVE Inv'
  <2>1. tmp \in Inode /\ data[tmp] = mem /\ writer[w].val = mem
    BY <1>5 DEF Rename, SaverInv, Active, TypeOK
  <2>2. acked' = mem /\ stored' = mem
    BY <1>5, <2>1, TokenAssumption DEF Rename, FileInv, stored, TypeOK, Version
  <2>3. TypeOK'
    BY <1>5, <2>2 DEF Rename, TypeOK, WriterState
  <2>4. SaverInv'
    BY <1>5 DEF Rename, SaverInv, Active, TypeOK, Idle
  <2>5. FileInv'
    BY <1>5, <2>2 DEF Rename, FileInv, TypeOK, Version
  <2>6. QED
    BY <2>3, <2>4, <2>5
<1>6. ASSUME NEW w \in Writer, SaveError(w) PROVE Inv'
  <2>1. TypeOK'
    BY <1>6 DEF SaveError, TypeOK, WriterState
  <2>2. SaverInv'
    BY <1>6 DEF SaveError, SaverInv, Active, TypeOK, Idle
  <2>3. FileInv'
    BY <1>6 DEF SaveError, FileInv, stored
  <2>4. QED
    BY <2>1, <2>2, <2>3
<1>7. ASSUME Crash PROVE Inv'
  <2>1. mem' = stored /\ up' = TRUE
    BY <1>7 DEF Crash, FileInv
  <2>2. TypeOK'
    BY <1>7, <2>1 DEF Crash, FileInv, TypeOK, WriterState
  <2>3. SaverInv'
    BY <1>7 DEF Crash, SaverInv, Active, Idle
  <2>4. FileInv'
    BY <1>7, <2>1 DEF Crash, FileInv, stored, Version
  <2>5. QED
    BY <2>2, <2>3, <2>4
<1>8. ASSUME UNCHANGED vars PROVE Inv'
  BY <1>8 DEF vars, TypeOK, SaverInv, FileInv, Active, stored
<1>9. QED
  BY <1>1, <1>2, <1>3, <1>4, <1>5, <1>6, <1>7, <1>8 DEF Next

\* Whether the mutex is held or not, the files, the writers and the versions have their
\* types: what is in an inode is a version, torn or empty, whoever has written to it.
LEMMA FileStepType == ASSUME TypeOK, [Next]_vars PROVE TypeOK'
<1> USE BoundAssumption
<1>1. ASSUME NEW w \in Writer, Update(w) PROVE TypeOK'
  BY <1>1 DEF Update, TypeOK, WriterState, Version
<1>2. ASSUME NEW w \in Writer, NEW i \in Inode, OpenTmp(w, i) PROVE TypeOK'
  <2>1. writer[w].val \in Version
    BY <1>2, Fields DEF OpenTmp, TypeOK
  <2>2. QED
    BY <1>2, <2>1 DEF OpenTmp, TypeOK, WriterState
<1>3. ASSUME NEW w \in Writer, WriteBegin(w) PROVE TypeOK'
  <2>1. [writer[w] EXCEPT !.pc = "writing"] \in WriterState /\ writer[w].inode \in Inode
    BY <1>3, Fields DEF WriteBegin, TypeOK, WriterState, Idle
  <2>2. QED
    BY <1>3, <2>1 DEF WriteBegin, TypeOK
<1>4. ASSUME NEW w \in Writer, NEW d \in Version \cup {Torn}, WriteEnd(w, d) PROVE TypeOK'
  <2>1. writer[w].inode \in Inode /\ writer[w].val \in Version
    BY <1>4, Fields DEF WriteEnd, TypeOK
  <2>2. QED
    BY <1>4, <2>1 DEF WriteEnd, TypeOK, WriterState
<1>5. ASSUME NEW w \in Writer, Rename(w) PROVE TypeOK'
  <2>1. writer[w].val \in Version
    BY <1>5, Fields DEF Rename, TypeOK
  <2>2. QED
    BY <1>5, <2>1 DEF Rename, TypeOK, WriterState
<1>6. ASSUME NEW w \in Writer, SaveError(w) PROVE TypeOK'
  BY <1>6 DEF SaveError, TypeOK, WriterState
<1>7. ASSUME Crash PROVE TypeOK'
  <2>1. mem' \in Version /\ up' \in BOOLEAN
    BY <1>7 DEF Crash, Version
  <2>2. QED
    BY <1>7, <2>1 DEF Crash, TypeOK, WriterState
<1>8. ASSUME UNCHANGED vars PROVE TypeOK'
  BY <1>8 DEF vars, TypeOK
<1>9. QED
  BY <1>1, <1>2, <1>3, <1>4, <1>5, <1>6, <1>7, <1>8 DEF Next

\* The types of a state file, with the mutex held over the save or released before it.
THEOREM StateFileTypes == Spec => []TypeOK
<1>1. Init => TypeOK
  BY InitInv DEF Inv
<1>2. QED
  BY <1>1, FileStepType, PTL DEF Spec

\* With the mutex held over the save, an acknowledged update is always whole in
\* the file, however many goroutines save and wherever the process dies.
THEOREM LockedAckedDurable == ASSUME MutexHeld PROVE Spec => []AckedDurable
<1>1. Inv => AckedDurable
  BY BoundAssumption DEF Inv, FileInv, AckedDurable, TypeOK, Version
<1>2. Inv /\ [Next]_vars => Inv'
  BY StepInv
<1>3. QED
  BY <1>1, <1>2, InitInv, PTL DEF Spec

\* With the mutex held over the save, the store implements DurableRegister.
THEOREM LockedRefinesRegister == ASSUME MutexHeld PROVE Spec => RegisterSpec
<1>1. Init => Register!Init
  BY DEF Init, Register!Init, stored
<1>2. Inv /\ [Next]_vars => [Register!Next]_(Register!vars)
  <2> SUFFICES ASSUME Inv, [Next]_vars PROVE Register!Next \/ UNCHANGED Register!vars
    OBVIOUS
  <2> USE DEF Inv, Register!Next, Register!vars
  <2>1. ASSUME NEW w \in Writer, Update(w) PROVE Register!Update
    BY <2>1 DEF Update, Register!Update, stored
  <2>2. ASSUME NEW w \in Writer, NEW i \in Inode, OpenTmp(w, i) PROVE UNCHANGED Register!vars
    <3>1. i # path
      BY <2>2 DEF OpenTmp, Unused, FileInv
    <3>2. QED
      BY <2>2, <3>1 DEF OpenTmp, stored, TypeOK
  <2>3. ASSUME NEW w \in Writer, WriteBegin(w) PROVE UNCHANGED Register!vars
    <3>1. writer[w].inode = tmp /\ tmp # path
      BY <2>3 DEF WriteBegin, SaverInv, FileInv
    <3>2. QED
      BY <2>3, <3>1 DEF WriteBegin, stored, TypeOK
  <2>4. ASSUME NEW w \in Writer, NEW d \in Version \cup {Torn}, WriteEnd(w, d)
        PROVE  UNCHANGED Register!vars
    <3>1. writer[w].inode = tmp /\ tmp # path
      BY <2>4 DEF WriteEnd, SaverInv, FileInv
    <3>2. QED
      BY <2>4, <3>1 DEF WriteEnd, stored, TypeOK
  <2>5. ASSUME NEW w \in Writer, Rename(w) PROVE Register!Commit
    <3>1. tmp \in Inode /\ data[tmp] = mem /\ writer[w].val = mem
      BY <2>5 DEF Rename, SaverInv, Active, TypeOK
    <3>2. acked' = mem /\ stored' = mem
      BY <2>5, <3>1, TokenAssumption, BoundAssumption DEF Rename, FileInv, stored, TypeOK, Version
    <3>3. QED
      BY <2>5, <3>2 DEF Rename, Register!Commit
  <2>6. ASSUME NEW w \in Writer, SaveError(w) PROVE UNCHANGED Register!vars
    BY <2>6 DEF SaveError, stored
  <2>7. ASSUME Crash PROVE Register!Crash
    BY <2>7 DEF Crash, FileInv, stored, Register!Crash
  <2>8. ASSUME UNCHANGED vars PROVE UNCHANGED Register!vars
    BY <2>8 DEF vars, stored
  <2>9. QED
    BY <2>1, <2>2, <2>3, <2>4, <2>5, <2>6, <2>7, <2>8 DEF Next
<1>3. Inv /\ [Next]_vars => Inv'
  BY StepInv
<1>4. QED
  BY <1>1, <1>2, <1>3, InitInv, PTL DEF Spec, RegisterSpec, Register!Spec

-----------------------------------------------------------------------------
(* ConfigFile: lines and their sections.                                    *)

LEMMA LineFacts ==
  ASSUME NEW line \in Line
  PROVE  /\ IsHeader(line) \/ HasKey(line) \/ line = ArrayRest
         /\ IsHeader(line) => /\ line.sec \in Section /\ ~ HasKey(line)
                              /\ line = Header(line.sec) \/ line = Noted(line.sec)
         /\ HasKey(line) => /\ line.key \in Key /\ line.val \in Value \cup {"bad"}
                            /\ ~ IsHeader(line)
BY DEF Line, IsHeader, HasKey, Header, Noted, Assign, ArrayOpen, ArrayRest

LEMMA FileFacts ==
  ASSUME NEW lines \in Seq(Line)
  PROVE  /\ Len(lines) \in Nat /\ DOMAIN lines = 1..Len(lines)
         /\ \A i \in 1..Len(lines) : lines[i] \in Line
BY LenProperties, ElementOfSeq

\* The header of line i, if it has one.
Above(lines, h, i) ==
  h \in 1..i /\ IsHeader(lines[h]) /\ \A j \in h + 1..i : ~ IsHeader(lines[j])

LEMMA SectionIs ==
  ASSUME NEW lines, NEW i \in Nat, NEW h, Above(lines, h, i)
  PROVE  SectionOf(lines, i) = lines[h].sec
<1> DEFINE above == {j \in 1..i : IsHeader(lines[j])}
           top == CHOOSE j \in above : \A k \in above : k <= j
<1>1. h \in above /\ \A k \in above : k <= h
  <2>1. h \in 1..i /\ h \in above
    BY DEF Above
  <2>2. ASSUME NEW k \in above PROVE k <= h
    <3>1. ~ (k \in h + 1..i)
      BY DEF Above
    <3>2. QED
      BY <2>1, <3>1
  <2>3. QED
    BY <2>1, <2>2
<1>2. \A j \in above : (\A k \in above : k <= j) => j = h
  BY <1>1
<1>3. above # {} /\ above \subseteq Nat
  BY <1>1
<1>4. SectionOf(lines, i) = IF above = {} THEN "" ELSE lines[top].sec
  BY DEF SectionOf
<1> HIDE DEF above
<1>5. top = h
  BY <1>1, <1>2
<1>6. QED
  BY <1>3, <1>4, <1>5

LEMMA NoSection ==
  ASSUME NEW lines, NEW i \in Nat, \A j \in 1..i : ~ IsHeader(lines[j])
  PROVE  SectionOf(lines, i) = ""
BY DEF SectionOf

LEMMA SectionHas ==
  ASSUME NEW lines, NEW i \in Nat
  PROVE  (\A j \in 1..i : ~ IsHeader(lines[j])) \/ \E h : Above(lines, h, i)
<1> DEFINE T == {d \in Nat : i - d \in 1..i /\ IsHeader(lines[i - d])}
<1>1. SUFFICES ASSUME NEW j \in 1..i, IsHeader(lines[j]) PROVE \E h : Above(lines, h, i)
  OBVIOUS
<1>2. i - j \in T
  <2>1. i - j \in Nat /\ i - (i - j) = j
    OBVIOUS
  <2>2. QED
    BY <1>1, <2>1
<1>3. PICK d \in T : \A k \in T : d <= k
  <2>1. T # {} /\ T \subseteq Nat
    BY <1>2
  <2> HIDE DEF T
  <2>2. QED
    BY <2>1, LeastNat
<1>4. d \in Nat /\ i - d \in 1..i /\ IsHeader(lines[i - d])
  BY <1>3
<1>5. ASSUME NEW k \in (i - d) + 1..i PROVE ~ IsHeader(lines[k])
  <2>1. i - k \in Nat /\ i - (i - k) = k /\ i - k < d /\ k \in 1..i
    BY <1>4
  <2>2. i - k \notin T
    BY <1>3, <1>4, <2>1
  <2>3. QED
    BY <2>1, <2>2
<1>6. Above(lines, i - d, i)
  BY <1>4, <1>5 DEF Above
<1>7. QED
  BY <1>6

LEMMA SectionType ==
  ASSUME NEW lines \in Seq(Line), NEW i \in 0..Len(lines)
  PROVE  SectionOf(lines, i) \in Section \cup {""}
<1>1. i \in Nat /\ i <= Len(lines) /\ Len(lines) \in Nat
  BY FileFacts
<1>2. CASE \A j \in 1..i : ~ IsHeader(lines[j])
  BY <1>1, <1>2, NoSection
<1>3. CASE \E h : Above(lines, h, i)
  <2>1. PICK h : Above(lines, h, i)
    BY <1>3
  <2>2. h \in 1..Len(lines) /\ IsHeader(lines[h])
    BY <1>1, <2>1 DEF Above
  <2>3. lines[h].sec \in Section
    BY <2>2, FileFacts, LineFacts
  <2>4. QED
    BY <1>1, <2>1, <2>3, SectionIs
<1>4. QED
  BY <1>1, <1>2, <1>3, SectionHas

\* Two texts whose headers are the same up to there have the same section there.
LEMMA SameSection ==
  ASSUME NEW a, NEW b, NEW i \in Nat,
         \A j \in 1..i : (IsHeader(a[j]) <=> IsHeader(b[j])) /\ (IsHeader(a[j]) => a[j] = b[j])
  PROVE  SectionOf(a, i) = SectionOf(b, i)
<1>1. CASE \A j \in 1..i : ~ IsHeader(a[j])
  <2>1. \A j \in 1..i : ~ IsHeader(b[j])
    BY <1>1
  <2>2. QED
    BY <1>1, <2>1, NoSection
<1>2. CASE \E h : Above(a, h, i)
  <2>1. PICK h : Above(a, h, i)
    BY <1>2
  <2>2. h \in 1..i /\ IsHeader(a[h]) /\ \A j \in h + 1..i : ~ IsHeader(a[j])
    BY <2>1 DEF Above
  <2>3. ASSUME NEW j \in h + 1..i PROVE ~ IsHeader(b[j])
    <3>1. j \in 1..i
      BY <2>2
    <3>2. QED
      BY <2>2, <3>1
  <2>4. Above(b, h, i) /\ a[h] = b[h]
    BY <2>2, <2>3 DEF Above
  <2>5. QED
    BY <2>1, <2>4, SectionIs
<1>3. QED
  BY <1>1, <1>2, SectionHas

-----------------------------------------------------------------------------
(* ConfigFile: what the lines say.                                          *)

\* The first condition of a file that loads: no section and no key of a section twice.
Unique(lines) ==
  \A i, j \in DOMAIN lines : i # j =>
    /\ ~ (IsHeader(lines[i]) /\ IsHeader(lines[j]) /\ lines[i].sec = lines[j].sec)
    /\ ~ (HasKey(lines[i]) /\ HasKey(lines[j]) /\ lines[i].key = lines[j].key
          /\ SectionOf(lines, i) = SectionOf(lines, j))

\* Line i sets the key of the section.
Sets(lines, i, sec, key) ==
  i \in 1..Len(lines) /\ HasKey(lines[i]) /\ lines[i].key = key /\ SectionOf(lines, i) = sec

LEMMA SettingIs ==
  ASSUME NEW lines \in Seq(Line), Unique(lines), NEW sec, NEW key, NEW i, Sets(lines, i, sec, key)
  PROVE  Setting(lines, sec, key) = lines[i].val
<1> DEFINE at == {k \in DOMAIN lines :
                    HasKey(lines[k]) /\ lines[k].key = key /\ SectionOf(lines, k) = sec}
<1>1. i \in at
  BY FileFacts DEF Sets
<1>2. \A k \in at : k = i
  BY <1>1 DEF Unique
<1>3. Setting(lines, sec, key) = IF at = {} THEN "default" ELSE lines[CHOOSE k \in at : TRUE].val
  BY DEF Setting
<1> HIDE DEF at
<1>4. (CHOOSE k \in at : TRUE) = i /\ at # {}
  BY <1>1, <1>2
<1>5. QED
  BY <1>3, <1>4

LEMMA SettingIsDefault ==
  ASSUME NEW lines \in Seq(Line), NEW sec, NEW key, \A i : ~ Sets(lines, i, sec, key)
  PROVE  Setting(lines, sec, key) = "default"
<1>1. {k \in DOMAIN lines : HasKey(lines[k]) /\ lines[k].key = key /\ SectionOf(lines, k) = sec} = {}
  BY FileFacts DEF Sets
<1>2. QED
  BY <1>1 DEF Setting

LEMMA SettingType ==
  ASSUME NEW lines \in Seq(Line), Unique(lines)
  PROVE  Settings(lines) \in Wants
<1>1. ASSUME NEW sec \in Section, NEW key \in Key
      PROVE  Setting(lines, sec, key) \in Value \cup {"default", "bad"}
  <2>1. CASE \A i : ~ Sets(lines, i, sec, key)
    BY <2>1, SettingIsDefault
  <2>2. CASE \E i : Sets(lines, i, sec, key)
    <3>1. PICK i : Sets(lines, i, sec, key)
      BY <2>2
    <3>2. lines[i].val \in Value \cup {"bad"}
      BY <3>1, FileFacts, LineFacts DEF Sets
    <3>3. QED
      BY <3>1, <3>2, SettingIs
  <2>3. QED
    BY <2>1, <2>2
<1>2. QED
  BY <1>1 DEF Settings, Wants


-----------------------------------------------------------------------------
(* ConfigFile: how a patch lays out the lines.                              *)

\* The lines of an edit: one for each key, in some order.
LEMMA KeyLinesAre ==
  ASSUME NEW keys, IsFiniteSet(keys), keys \subseteq Key,
         NEW vals, \A k \in keys : vals[k] \in Value \cup {"bad"}
  PROVE  LET out == KeyLines(keys, vals)
         IN  /\ out \in Seq(Line) /\ Len(out) \in Nat
             /\ \A j \in 1..Len(out) : \E k \in keys : out[j] = Assign(k, vals[k])
             /\ \A k \in keys : \E j \in 1..Len(out) : out[j] = Assign(k, vals[k])
<1> DEFINE S == {Assign(k, vals[k]) : k \in keys}
           n == Cardinality(S)
           out == CHOOSE f \in [1..n -> S] : IsInjective(f)
<1>1. IsFiniteSet(S)
  <2> DEFINE f == [k \in keys |-> Assign(k, vals[k])]
  <2>1. f \in [keys -> S] /\ \A x \in S : \E k \in keys : f[k] = x
    OBVIOUS
  <2> HIDE DEF f, S
  <2>2. f \in Surjection(keys, S)
    BY <2>1 DEF Surjection
  <2>3. QED
    BY <2>2, FS_Surjection
<1>2. S \subseteq Line
  BY DEF Line
<1>3. KeyLines(keys, vals) = out
  BY DEF KeyLines, SetToSeq
<1>4. \A x \in S : \E k \in keys : x = Assign(k, vals[k])
  OBVIOUS
<1>5. \A k \in keys : Assign(k, vals[k]) \in S
  OBVIOUS
<1> HIDE DEF S
<1>6. n \in Nat /\ ExistsBijection(1..n, S)
  BY <1>1, FS_CardinalityType
<1>7. out \in [1..n -> S] /\ IsInjective(out)
  <2>1. \E f \in [1..n -> S] : IsInjective(f)
    BY <1>6 DEF ExistsBijection, Bijection, Injection
  <2>2. QED
    BY <2>1
<1> HIDE DEF out
<1>8. out \in Injection(1..n, S)
  BY <1>7 DEF Injection
<1>9. Cardinality(1..n) = n
  BY <1>6, FS_Interval
<1>10. out \in Surjection(1..n, S)
  BY <1>1, <1>8, <1>9, FS_Injection
<1>11. \A x \in S : \E j \in 1..n : out[j] = x
  BY <1>10 DEF Surjection
<1>12. out \in Seq(Line)
  <2>1. out \in [1..n -> Line]
    BY <1>2, <1>7
  <2>2. QED
    BY <1>6, <2>1, SeqDef
<1>13. Len(out) = n
  <2>1. Len(out) \in Nat /\ 1..Len(out) = 1..n
    BY <1>7, <1>12, LenProperties
  <2> HIDE DEF n
  <2>2. QED
    BY <1>6, <2>1
<1> HIDE DEF n
<1>14. \A j \in 1..n : \E k \in keys : out[j] = Assign(k, vals[k])
  BY <1>4, <1>7
<1>15. \A k \in keys : \E j \in 1..n : out[j] = Assign(k, vals[k])
  BY <1>5, <1>11
<1>16. QED
  BY <1>3, <1>6, <1>12, <1>13, <1>14, <1>15

LEMMA ThreeParts ==
  ASSUME NEW X, NEW a \in Seq(X), NEW b \in Seq(X), NEW c \in Seq(X)
  PROVE  LET all == a \o b \o c
         IN  /\ all \in Seq(X) /\ Len(all) = Len(a) + Len(b) + Len(c)
             /\ \A i \in 1..Len(a) : all[i] = a[i]
             /\ \A i \in 1..Len(b) : all[Len(a) + i] = b[i]
             /\ \A i \in 1..Len(c) : all[Len(a) + Len(b) + i] = c[i]
<1> DEFINE ab == a \o b
           all == ab \o c
           m == Len(a)
           n == Len(b)
           k == Len(c)
<1>1. m \in Nat /\ n \in Nat /\ k \in Nat
  BY LenProperties
<1>2. /\ ab \in Seq(X) /\ Len(ab) = m + n
      /\ \A i \in 1..m + n : ab[i] = IF i <= m THEN a[i] ELSE b[i - m]
  BY ConcatProperties
<1> HIDE DEF ab
<1>3. /\ all \in Seq(X) /\ Len(all) = Len(ab) + k
      /\ \A i \in 1..Len(ab) + k : all[i] = IF i <= Len(ab) THEN ab[i] ELSE c[i - Len(ab)]
  <2>1. ab \in Seq(X) /\ c \in Seq(X)
    BY <1>2
  <2>2. QED
    BY <2>1, ConcatProperties
<1> HIDE DEF all, m, n, k
<1>4. /\ Len(all) = m + n + k
      /\ \A i \in 1..m + n + k : all[i] = IF i <= m + n THEN ab[i] ELSE c[i - (m + n)]
  BY <1>1, <1>2, <1>3
<1>5. ASSUME NEW i \in 1..m PROVE all[i] = a[i]
  <2>1. i \in 1..m + n + k /\ i <= m + n /\ i \in 1..m + n /\ i <= m
    BY <1>1
  <2>2. QED
    BY <1>2, <1>4, <2>1
<1>6. ASSUME NEW i \in 1..n PROVE all[m + i] = b[i]
  <2>1. /\ m + i \in 1..m + n + k /\ m + i <= m + n /\ m + i \in 1..m + n
        /\ ~ (m + i <= m) /\ (m + i) - m = i
    BY <1>1
  <2>2. QED
    BY <1>2, <1>4, <2>1
<1>7. ASSUME NEW i \in 1..k PROVE all[m + n + i] = c[i]
  <2>1. /\ m + n + i \in 1..m + n + k /\ ~ (m + n + i <= m + n) /\ (m + n + i) - (m + n) = i
    BY <1>1
  <2>2. QED
    BY <1>4, <2>1
<1>8. QED
  BY <1>3, <1>4, <1>5, <1>6, <1>7 DEF all, ab, m, n, k

NewLine(lines, start, keys, vals, i) ==
  IF i > start /\ HasKey(lines[i]) /\ lines[i].key \in keys
  THEN Assign(lines[i].key, vals[lines[i].key]) ELSE lines[i]
SeenKeys(lines, start, e) == {lines[i].key : i \in {j \in start + 1..e - 1 : HasKey(lines[j])}}

\* out is lines with the keys of the section, from its header at start up to e, replaced, and
\* the others put before e, in r lines.
Laid(lines, sec, vals, start, e, r, out) ==
  LET keys == SectionKeys[sec]
      missing == keys \ SeenKeys(lines, start, e)
  IN  /\ start \in 1..Len(lines) /\ lines[start] = Header(sec)
      /\ e \in start + 1..Len(lines) + 1 /\ (e <= Len(lines) => IsHeader(lines[e]))
      /\ \A i \in start + 1..e - 1 : ~ IsHeader(lines[i])
      /\ r \in Nat /\ out \in Seq(Line) /\ Len(out) = Len(lines) + r
      /\ \A i \in 1..e - 1 : out[i] = NewLine(lines, start, keys, vals, i)
      /\ \A j \in e..e - 1 + r : \E k \in missing : out[j] = Assign(k, vals[k])
      /\ \A k \in missing : \E j \in e..e - 1 + r : out[j] = Assign(k, vals[k])
      /\ \A i \in e..Len(lines) : out[i + r] = lines[i]

\* The end of a section; the parser sees it there too if no header with a comment behind
\* it comes before.
LEMMA EndOfSection ==
  ASSUME NEW lines \in Seq(Line), NEW sec \in DOMAIN SectionKeys,
         NEW start \in 1..Len(lines), lines[start] = Header(sec)
  PROVE  LET e == SectionEnd(lines, start)
         IN  /\ e \in start + 1..Len(lines) + 1 /\ (e <= Len(lines) => IsHeader(lines[e]))
             /\ ~ NoteInside(lines, sec) => \A i \in start + 1..e - 1 : ~ IsHeader(lines[i])
<1> DEFINE L == Len(lines)
           after == {i \in start + 1..L : lines[i] \in {Header(s) : s \in Section}}
           e == SectionEnd(lines, start)
<1>1. L \in Nat /\ DOMAIN lines = 1..L
  BY FileFacts
<1>2. e = IF after = {} THEN L + 1 ELSE CHOOSE i \in after : \A j \in after : i <= j
  BY DEF SectionEnd
<1>3. /\ e \in start + 1..L + 1 /\ (e <= L => e \in after)
      /\ \A i \in start + 1..e - 1 : i \notin after
  <2>1. CASE after = {}
    BY <1>1, <1>2, <2>1
  <2>2. CASE after # {}
    <3>1. \E i \in after : \A j \in after : i <= j
      <4>1. after \subseteq Nat
        BY <1>1
      <4> HIDE DEF after
      <4>2. QED
        BY <2>2, <4>1, LeastNat
    <3>2. e \in after /\ \A j \in after : e <= j
      BY <1>2, <2>2, <3>1
    <3> HIDE DEF e
    <3>3. e \in start + 1..L
      BY <3>2
    <3>4. ASSUME NEW i \in start + 1..e - 1 PROVE i \notin after
      <4>1. i \in Nat /\ i < e
        BY <1>1, <3>3
      <4>2. QED
        BY <3>2, <3>3, <4>1
    <3>5. QED
      BY <1>1, <3>2, <3>3, <3>4
  <2>3. QED
    BY <2>1, <2>2
<1> HIDE DEF e
<1>4. ASSUME e <= L PROVE IsHeader(lines[e])
  BY <1>3, <1>4 DEF IsHeader, Header
<1>5. ASSUME ~ NoteInside(lines, sec), NEW i \in start + 1..e - 1 PROVE ~ IsHeader(lines[i])
  <2>1. SUFFICES ASSUME IsHeader(lines[i]) PROVE FALSE
    OBVIOUS
  <2>2. i \in start + 1..L /\ i \in 1..L /\ start < i
    BY <1>1, <1>3
  <2>3. lines[i] \in Line
    BY <2>2, FileFacts
  <2>4. lines[i].sec \in Section /\ (lines[i] = Header(lines[i].sec) \/ lines[i] = Noted(lines[i].sec))
    BY <2>1, <2>3, LineFacts
  <2>5. lines[i] \notin {Header(s) : s \in Section}
    BY <1>3, <2>2
  <2>6. lines[i] \in {Noted(s) : s \in Section}
    BY <2>4, <2>5
  <2>7. start \in SectionStart(lines, sec)
    BY <1>1 DEF SectionStart
  <2>8. NoteInside(lines, sec)
    BY <2>6, <2>7 DEF NoteInside, e
  <2>9. QED
    BY <1>5, <2>8
<1>6. QED
  BY <1>3, <1>4, <1>5 DEF e, L


-----------------------------------------------------------------------------
(* ConfigFile: what a patched text says.                                    *)

LEMMA LaidIs ==
  ASSUME NEW lines \in Seq(Line), NEW sec \in DOMAIN SectionKeys, NEW vals, NEW start, NEW e, NEW r,
         NEW out, Laid(lines, sec, vals, start, e, r, out)
  PROVE  /\ start \in Nat /\ e \in Nat /\ r \in Nat /\ Len(lines) \in Nat
         /\ 1 <= start /\ start < e /\ e <= Len(lines) + 1
         /\ sec \in Section /\ SectionKeys[sec] \subseteq Key
         /\ lines[start] = Header(sec) /\ IsHeader(lines[start]) /\ lines[start].sec = sec
         /\ out[start] = lines[start] /\ out \in Seq(Line) /\ Len(out) = Len(lines) + r
<1>1. Len(lines) \in Nat
  BY FileFacts
<1>2. /\ start \in 1..Len(lines) /\ lines[start] = Header(sec) /\ e \in start + 1..Len(lines) + 1
      /\ r \in Nat /\ out \in Seq(Line) /\ Len(out) = Len(lines) + r
      /\ \A i \in 1..e - 1 : out[i] = NewLine(lines, start, SectionKeys[sec], vals, i)
  BY DEF Laid
<1>3. start \in Nat /\ e \in Nat /\ 1 <= start /\ start < e /\ e <= Len(lines) + 1
  BY <1>1, <1>2
<1>4. sec \in Section /\ SectionKeys[sec] \subseteq Key
  BY ConfigAssumption
<1>5. IsHeader(lines[start]) /\ lines[start].sec = sec
  BY <1>2 DEF IsHeader, Header
<1>6. out[start] = lines[start]
  <2>1. start \in 1..e - 1 /\ ~ (start > start)
    BY <1>3
  <2>2. QED
    BY <1>2, <2>1 DEF NewLine
<1>7. QED
  BY <1>1, <1>2, <1>3, <1>4, <1>5, <1>6

\* Up to e headers stay and a key stays a key.
LEMMA LaidLines ==
  ASSUME NEW lines \in Seq(Line), NEW sec \in DOMAIN SectionKeys, NEW vals, NEW start, NEW e, NEW r,
         NEW out, Laid(lines, sec, vals, start, e, r, out), NEW i \in 1..e - 1
  PROVE  /\ i \in 1..Len(lines)
         /\ (IsHeader(out[i]) <=> IsHeader(lines[i])) /\ (IsHeader(lines[i]) => out[i] = lines[i])
         /\ (HasKey(out[i]) <=> HasKey(lines[i]))
         /\ HasKey(lines[i]) =>
              /\ out[i].key = lines[i].key
              /\ ~ (i > start /\ lines[i].key \in SectionKeys[sec]) => out[i] = lines[i]
              /\ i > start /\ lines[i].key \in SectionKeys[sec] =>
                   out[i] = Assign(lines[i].key, vals[lines[i].key])
<1>1. i \in 1..Len(lines) /\ lines[i] \in Line
  BY LaidIs, FileFacts
<1>2. out[i] = NewLine(lines, start, SectionKeys[sec], vals, i)
  BY DEF Laid
<1>3. /\ IsHeader(lines[i]) \/ HasKey(lines[i]) \/ lines[i] = ArrayRest
      /\ IsHeader(lines[i]) => ~ HasKey(lines[i])
      /\ HasKey(lines[i]) => ~ IsHeader(lines[i])
  BY <1>1, LineFacts
<1>4. CASE i > start /\ HasKey(lines[i]) /\ lines[i].key \in SectionKeys[sec]
  <2>1. out[i] = Assign(lines[i].key, vals[lines[i].key])
    BY <1>2, <1>4 DEF NewLine
  <2>2. out[i].key = lines[i].key /\ HasKey(out[i]) /\ ~ IsHeader(out[i])
    BY <2>1 DEF Assign, HasKey, IsHeader
  <2>3. QED
    BY <1>1, <1>3, <1>4, <2>1, <2>2
<1>5. CASE ~ (i > start /\ HasKey(lines[i]) /\ lines[i].key \in SectionKeys[sec])
  <2>1. out[i] = lines[i]
    BY <1>2, <1>5, Zenon DEF NewLine
  <2>2. QED
    BY <1>1, <1>5, <2>1
<1>6. QED
  BY <1>4, <1>5

\* The lines of the section, and those of the others.
LEMMA LaidSections ==
  ASSUME NEW lines \in Seq(Line), Unique(lines), NEW sec \in DOMAIN SectionKeys, NEW vals,
         NEW start, NEW e, NEW r, NEW out, Laid(lines, sec, vals, start, e, r, out)
  PROVE  /\ \A i \in 1..start - 1 : SectionOf(out, i) = SectionOf(lines, i) /\ SectionOf(lines, i) # sec
         /\ \A i \in start..e - 1 : SectionOf(lines, i) = sec
         /\ \A i \in start..e - 1 + r : SectionOf(out, i) = sec
         /\ \A i \in e..Len(lines) : /\ SectionOf(out, i + r) = SectionOf(lines, i)
                                     /\ SectionOf(lines, i) # sec
<1> DEFINE L == Len(lines)
<1>1. /\ start \in Nat /\ e \in Nat /\ r \in Nat /\ L \in Nat
      /\ 1 <= start /\ start < e /\ e <= L + 1
      /\ IsHeader(lines[start]) /\ lines[start].sec = sec /\ out[start] = lines[start]
  BY LaidIs
<1>2. /\ e <= L => IsHeader(lines[e])
      /\ \A i \in start + 1..e - 1 : ~ IsHeader(lines[i])
      /\ \A j \in e..e - 1 + r : \E k \in SectionKeys[sec] : out[j] = Assign(k, vals[k])
      /\ \A i \in e..L : out[i + r] = lines[i]
  BY DEF Laid
<1>3. \A i \in 1..e - 1 : /\ IsHeader(out[i]) <=> IsHeader(lines[i])
                          /\ IsHeader(lines[i]) => out[i] = lines[i]
  <2>1. ASSUME NEW i \in 1..e - 1
        PROVE  (IsHeader(out[i]) <=> IsHeader(lines[i])) /\ (IsHeader(lines[i]) => out[i] = lines[i])
    BY LaidLines
  <2>2. QED
    BY <2>1
<1>4. \A i \in 1..L : i # start /\ IsHeader(lines[i]) => lines[i].sec # sec
  <2>1. start \in DOMAIN lines /\ DOMAIN lines = 1..L
    BY <1>1, FileFacts
  <2>2. QED
    BY <1>1, <2>1 DEF Unique
<1> HIDE DEF L
<1>5. ASSUME NEW i \in 1..start - 1
      PROVE  SectionOf(out, i) = SectionOf(lines, i) /\ SectionOf(lines, i) # sec
  <2>1. i \in Nat /\ \A j \in 1..i : j \in 1..e - 1 /\ j \in 1..L /\ j # start
    BY <1>1
  <2>2. SectionOf(out, i) = SectionOf(lines, i)
    BY <1>3, <2>1, SameSection
  <2>3. CASE \A j \in 1..i : ~ IsHeader(lines[j])
    <3>1. SectionOf(lines, i) = ""
      BY <2>1, <2>3, NoSection
    <3>2. sec # ""
      BY ConfigAssumption
    <3>3. QED
      BY <2>2, <3>1, <3>2
  <2>4. CASE \E h : Above(lines, h, i)
    <3>1. PICK h : Above(lines, h, i)
      BY <2>4
    <3>2. SectionOf(lines, i) = lines[h].sec
      BY <2>1, <3>1, SectionIs
    <3>3. lines[h].sec # sec
      BY <1>4, <2>1, <3>1 DEF Above
    <3>4. QED
      BY <2>2, <3>2, <3>3
  <2>5. QED
    BY <2>1, <2>3, <2>4, SectionHas
<1>6. ASSUME NEW i \in start..e - 1 PROVE SectionOf(lines, i) = sec
  <2>1. i \in Nat /\ start \in 1..i /\ \A j \in start + 1..i : j \in start + 1..e - 1
    BY <1>1
  <2>2. Above(lines, start, i)
    BY <1>1, <1>2, <2>1 DEF Above
  <2>3. QED
    BY <1>1, <2>1, <2>2, SectionIs
<1>7. ASSUME NEW i \in start..e - 1 + r PROVE SectionOf(out, i) = sec
  <2>1. i \in Nat /\ start \in 1..i
    BY <1>1
  <2>2. ASSUME NEW j \in start + 1..i PROVE ~ IsHeader(out[j])
    <3>1. CASE j \in start + 1..e - 1
      <4>1. j \in 1..e - 1
        BY <1>1, <3>1
      <4>2. QED
        BY <1>2, <1>3, <3>1, <4>1
    <3>2. CASE j \in e..e - 1 + r
      <4>1. PICK k \in SectionKeys[sec] : out[j] = Assign(k, vals[k])
        BY <1>2, <3>2
      <4>2. QED
        BY <4>1 DEF Assign, IsHeader
    <3>3. j \in start + 1..e - 1 \/ j \in e..e - 1 + r
      BY <1>1
    <3>4. QED
      BY <3>1, <3>2, <3>3
  <2>3. Above(out, start, i)
    BY <1>1, <2>1, <2>2 DEF Above
  <2>4. QED
    BY <1>1, <2>1, <2>3, SectionIs
<1>8. ASSUME NEW i \in e..L
      PROVE  SectionOf(out, i + r) = SectionOf(lines, i) /\ SectionOf(lines, i) # sec
  <2>1. i \in Nat /\ i + r \in Nat /\ e \in 1..i /\ e <= L
    BY <1>1
  <2>2. IsHeader(lines[e])
    BY <1>2, <2>1
  <2>3. PICK h : Above(lines, h, i)
    BY <2>1, <2>2, SectionHas
  <2>4. h \in 1..i /\ IsHeader(lines[h]) /\ \A j \in h + 1..i : ~ IsHeader(lines[j])
    BY <2>3 DEF Above
  <2>5. h >= e /\ h \in e..L /\ h \in 1..L /\ h # start
    <3>1. ~ (e \in h + 1..i)
      BY <2>2, <2>4
    <3>2. QED
      BY <1>1, <2>1, <2>4, <3>1
  <2>6. ASSUME NEW j \in (h + r) + 1..i + r PROVE ~ IsHeader(out[j])
    <3>1. j - r \in e..L /\ j - r \in h + 1..i /\ (j - r) + r = j
      BY <1>1, <2>1, <2>4, <2>5
    <3>2. out[(j - r) + r] = lines[j - r]
      BY <1>2, <3>1, Zenon
    <3>3. QED
      BY <2>4, <3>1, <3>2
  <2>7. h + r \in 1..i + r /\ out[h + r] = lines[h]
    BY <1>1, <1>2, <2>1, <2>4, <2>5
  <2>8. Above(out, h + r, i + r)
    BY <2>4, <2>6, <2>7 DEF Above
  <2>9. SectionOf(lines, i) = lines[h].sec /\ SectionOf(out, i + r) = lines[h].sec
    BY <2>1, <2>3, <2>7, <2>8, SectionIs
  <2>10. lines[h].sec # sec
    BY <1>4, <2>4, <2>5
  <2>11. QED
    BY <2>9, <2>10
<1>9. QED
  BY <1>5, <1>6, <1>7, <1>8 DEF L


\* What a line of the patched text sets, and what it set before.
LEMMA LaidKept ==
  ASSUME NEW lines \in Seq(Line), Unique(lines), NEW sec \in DOMAIN SectionKeys, NEW vals,
         NEW start, NEW e, NEW r, NEW out, Laid(lines, sec, vals, start, e, r, out),
         NEW s, NEW key, s # sec \/ key \notin SectionKeys[sec]
  PROVE  /\ \A i : Sets(lines, i, s, key) => \E p : Sets(out, p, s, key) /\ out[p] = lines[i]
         /\ \A p : Sets(out, p, s, key) => \E i : Sets(lines, i, s, key)
<1> DEFINE L == Len(lines)
<1>1. /\ start \in Nat /\ e \in Nat /\ r \in Nat /\ L \in Nat
      /\ 1 <= start /\ start < e /\ e <= L + 1 /\ Len(out) = L + r
  BY LaidIs
<1>2. /\ \A i \in 1..start - 1 : SectionOf(out, i) = SectionOf(lines, i)
      /\ \A i \in start..e - 1 : SectionOf(lines, i) = sec
      /\ \A i \in start..e - 1 + r : SectionOf(out, i) = sec
      /\ \A i \in e..L : SectionOf(out, i + r) = SectionOf(lines, i)
  BY LaidSections
<1>3. /\ \A j \in e..e - 1 + r : \E k \in SectionKeys[sec] : out[j] = Assign(k, vals[k])
      /\ \A i \in e..L : out[i + r] = lines[i]
  BY DEF Laid
<1>4. ASSUME NEW i \in 1..e - 1
      PROVE  /\ HasKey(out[i]) <=> HasKey(lines[i])
             /\ HasKey(lines[i]) =>
                  /\ out[i].key = lines[i].key
                  /\ ~ (i > start /\ lines[i].key \in SectionKeys[sec]) => out[i] = lines[i]
  BY LaidLines
<1> HIDE DEF L
<1>5. ASSUME NEW i, Sets(lines, i, s, key)
      PROVE  \E p : Sets(out, p, s, key) /\ out[p] = lines[i]
  <2>1. i \in 1..L /\ HasKey(lines[i]) /\ lines[i].key = key /\ SectionOf(lines, i) = s
    BY <1>5 DEF Sets, L
  <2>2. CASE i \in 1..start - 1
    <3>1. i \in 1..e - 1 /\ ~ (i > start) /\ i \in 1..L + r
      BY <1>1, <2>2
    <3>2. out[i] = lines[i]
      BY <1>4, <2>1, <3>1
    <3>3. SectionOf(out, i) = s
      BY <1>2, <2>1, <2>2
    <3>4. Sets(out, i, s, key)
      BY <1>1, <2>1, <3>1, <3>2, <3>3 DEF Sets
    <3>5. QED
      BY <3>2, <3>4
  <2>3. CASE i \in start..e - 1
    <3>1. i \in 1..e - 1 /\ i \in 1..L + r /\ i \in start..e - 1 + r
      BY <1>1, <2>3
    <3>2. s = sec
      BY <1>2, <2>1, <2>3
    <3>3. out[i] = lines[i]
      BY <1>4, <2>1, <3>1, <3>2
    <3>4. SectionOf(out, i) = s
      BY <1>2, <3>1, <3>2
    <3>5. Sets(out, i, s, key)
      BY <1>1, <2>1, <3>1, <3>3, <3>4 DEF Sets
    <3>6. QED
      BY <3>3, <3>5
  <2>4. CASE i \in e..L
    <3>1. i + r \in 1..L + r
      BY <1>1, <2>4
    <3>2. out[i + r] = lines[i] /\ SectionOf(out, i + r) = s
      BY <1>2, <1>3, <2>1, <2>4
    <3>3. Sets(out, i + r, s, key)
      BY <1>1, <2>1, <3>1, <3>2 DEF Sets
    <3>4. QED
      BY <3>2, <3>3
  <2>5. i \in 1..start - 1 \/ i \in start..e - 1 \/ i \in e..L
    BY <1>1, <2>1
  <2>6. QED
    BY <2>2, <2>3, <2>4, <2>5
<1>6. ASSUME NEW p, Sets(out, p, s, key)
      PROVE  \E i : Sets(lines, i, s, key)
  <2>1. p \in 1..L + r /\ HasKey(out[p]) /\ out[p].key = key /\ SectionOf(out, p) = s
    BY <1>1, <1>6 DEF Sets
  <2>2. CASE p \in 1..e - 1
    <3>1. p \in 1..L /\ HasKey(lines[p]) /\ lines[p].key = key
      BY <1>1, <1>4, <2>1, <2>2
    <3>2. SectionOf(lines, p) = s
      <4>1. CASE p \in 1..start - 1
        BY <1>2, <2>1, <4>1
      <4>2. CASE p \in start..e - 1
        <5>1. p \in start..e - 1 + r
          BY <1>1, <4>2
        <5>2. QED
          BY <1>2, <2>1, <4>2, <5>1
      <4>3. p \in 1..start - 1 \/ p \in start..e - 1
        BY <1>1, <2>2
      <4>4. QED
        BY <4>1, <4>2, <4>3
    <3>3. Sets(lines, p, s, key)
      BY <3>1, <3>2 DEF Sets, L
    <3>4. QED
      BY <3>3
  <2>3. CASE p \in e..e - 1 + r
    <3>1. PICK k \in SectionKeys[sec] : out[p] = Assign(k, vals[k])
      BY <1>3, <2>3
    <3>2. key = k
      BY <2>1, <3>1 DEF Assign
    <3>3. p \in start..e - 1 + r
      BY <1>1, <2>3
    <3>4. s = sec
      BY <1>2, <2>1, <3>3
    <3>5. QED
      BY <3>1, <3>2, <3>4
  <2>4. CASE p \in e + r..L + r
    <3>1. p - r \in e..L /\ p - r \in 1..L /\ (p - r) + r = p
      BY <1>1, <2>4
    <3>2. out[(p - r) + r] = lines[p - r] /\ SectionOf(out, (p - r) + r) = SectionOf(lines, p - r)
      BY <1>2, <1>3, <3>1, Zenon
    <3>3. Sets(lines, p - r, s, key)
      BY <2>1, <3>1, <3>2 DEF Sets, L
    <3>4. QED
      BY <3>3
  <2>5. p \in 1..e - 1 \/ p \in e..e - 1 + r \/ p \in e + r..L + r
    BY <1>1, <2>1
  <2>6. QED
    BY <2>2, <2>3, <2>4, <2>5
<1>7. QED
  BY <1>5, <1>6

\* A key of the edit has its value.
LEMMA LaidSets ==
  ASSUME NEW lines \in Seq(Line), Unique(lines), NEW sec \in DOMAIN SectionKeys, NEW vals,
         NEW start, NEW e, NEW r, NEW out, Laid(lines, sec, vals, start, e, r, out),
         NEW key \in SectionKeys[sec]
  PROVE  \E p : Sets(out, p, sec, key) /\ out[p] = Assign(key, vals[key])
<1> DEFINE L == Len(lines)
           seen == SeenKeys(lines, start, e)
<1>1. /\ start \in Nat /\ e \in Nat /\ r \in Nat /\ L \in Nat
      /\ 1 <= start /\ start < e /\ e <= L + 1 /\ Len(out) = L + r
  BY LaidIs
<1>2. \A i \in start..e - 1 + r : SectionOf(out, i) = sec
  BY LaidSections
<1>3. \A k \in SectionKeys[sec] \ seen : \E j \in e..e - 1 + r : out[j] = Assign(k, vals[k])
  BY DEF Laid
<1> HIDE DEF L
<1>4. ASSUME NEW p \in start..e - 1 + r, out[p] = Assign(key, vals[key])
      PROVE  Sets(out, p, sec, key)
  <2>1. p \in 1..L + r
    BY <1>1
  <2>2. HasKey(out[p]) /\ out[p].key = key
    BY <1>4 DEF HasKey, Assign
  <2>3. QED
    BY <1>1, <1>2, <2>1, <2>2 DEF Sets
<1>5. CASE key \in seen
  <2>1. PICK i \in start + 1..e - 1 : HasKey(lines[i]) /\ lines[i].key = key
    BY <1>5 DEF SeenKeys
  <2>2. i \in 1..e - 1 /\ i > start /\ i \in start..e - 1 + r
    BY <1>1
  <2>3. out[i] = Assign(key, vals[key])
    BY <2>1, <2>2, LaidLines
  <2>4. QED
    BY <1>4, <2>2, <2>3
<1>6. CASE key \notin seen
  <2>1. PICK j \in e..e - 1 + r : out[j] = Assign(key, vals[key])
    BY <1>3, <1>6
  <2>2. j \in start..e - 1 + r
    BY <1>1
  <2>3. QED
    BY <1>4, <2>1, <2>2
<1>7. QED
  BY <1>5, <1>6

LEMMA LaidSettings ==
  ASSUME NEW lines \in Seq(Line), Unique(lines), NEW sec \in DOMAIN SectionKeys, NEW vals,
         NEW start, NEW e, NEW r, NEW out, Laid(lines, sec, vals, start, e, r, out), Unique(out),
         NEW s, NEW key
  PROVE  Setting(out, s, key) = IF s = sec /\ key \in SectionKeys[sec] THEN vals[key]
                                ELSE Setting(lines, s, key)
<1>1. out \in Seq(Line)
  BY LaidIs
<1>2. CASE s = sec /\ key \in SectionKeys[sec]
  <2>1. PICK p : Sets(out, p, sec, key) /\ out[p] = Assign(key, vals[key])
    BY <1>2, LaidSets
  <2>2. Setting(out, s, key) = out[p].val
    BY <1>1, <1>2, <2>1, SettingIs
  <2>3. out[p].val = vals[key]
    BY <2>1 DEF Assign
  <2>4. QED
    BY <1>2, <2>2, <2>3
<1>3. CASE ~ (s = sec /\ key \in SectionKeys[sec])
  <2>1. /\ \A i : Sets(lines, i, s, key) => \E p : Sets(out, p, s, key) /\ out[p] = lines[i]
        /\ \A p : Sets(out, p, s, key) => \E i : Sets(lines, i, s, key)
    BY <1>3, LaidKept
  <2>2. CASE \E i : Sets(lines, i, s, key)
    <3>1. PICK i : Sets(lines, i, s, key)
      BY <2>2
    <3>2. PICK p : Sets(out, p, s, key) /\ out[p] = lines[i]
      BY <2>1, <3>1
    <3>3. Setting(lines, s, key) = lines[i].val
      BY <3>1, SettingIs
    <3>4. Setting(out, s, key) = out[p].val
      BY <1>1, <3>2, SettingIs
    <3>5. QED
      BY <1>3, <3>2, <3>3, <3>4
  <2>3. CASE \A i : ~ Sets(lines, i, s, key)
    <3>1. \A p : ~ Sets(out, p, s, key)
      BY <2>1, <2>3
    <3>2. Setting(lines, s, key) = "default"
      BY <2>3, SettingIsDefault
    <3>3. Setting(out, s, key) = "default"
      BY <1>1, <3>1, SettingIsDefault
    <3>4. QED
      BY <1>3, <3>2, <3>3
  <2>4. QED
    BY <2>2, <2>3
<1>4. QED
  BY <1>2, <1>3


LEMMA NewLineIs ==
  ASSUME NEW lines \in Seq(Line), NEW sec \in DOMAIN SectionKeys,
         NEW vals \in [SectionKeys[sec] -> Value \cup {"bad"}], NEW start, NEW i \in 1..Len(lines)
  PROVE  NewLine(lines, start, SectionKeys[sec], vals, i) \in Line
<1>1. lines[i] \in Line
  BY FileFacts
<1>2. CASE i > start /\ HasKey(lines[i]) /\ lines[i].key \in SectionKeys[sec]
  <2>1. lines[i].key \in Key /\ vals[lines[i].key] \in Value \cup {"bad"}
    BY <1>1, <1>2, LineFacts
  <2>2. Assign(lines[i].key, vals[lines[i].key]) \in Line
    BY <2>1 DEF Line
  <2>3. QED
    BY <1>2, <2>2 DEF NewLine
<1>3. CASE ~ (i > start /\ HasKey(lines[i]) /\ lines[i].key \in SectionKeys[sec])
  BY <1>1, <1>3, Zenon DEF NewLine
<1>4. QED
  BY <1>2, <1>3

\* A patch of a section that is there.
LEMMA PatchInside ==
  ASSUME NEW lines \in Seq(Line), NEW sec \in DOMAIN SectionKeys,
         NEW vals \in [SectionKeys[sec] -> Value \cup {"bad"}], SectionStart(lines, sec) # {}
  PROVE  /\ Patched(lines, sec, vals) \in Seq(Line)
         /\ ~ NoteInside(lines, sec) =>
              \E start, e, r : Laid(lines, sec, vals, start, e, r, Patched(lines, sec, vals))
<1> DEFINE L == Len(lines)
           keys == SectionKeys[sec]
           start == CHOOSE i \in SectionStart(lines, sec) : TRUE
           e == SectionEnd(lines, start)
           seen == SeenKeys(lines, start, e)
           front == [i \in 1..e - 1 |-> NewLine(lines, start, keys, vals, i)]
           added == KeyLines(keys \ seen, vals)
           back == SubSeq(lines, e, L)
           out == front \o added \o back
<1>1. L \in Nat /\ DOMAIN lines = 1..L
  BY FileFacts
<1>2. start \in 1..L /\ lines[start] = Header(sec)
  <2>1. start \in SectionStart(lines, sec)
    OBVIOUS
  <2> HIDE DEF start
  <2>2. QED
    BY <1>1, <2>1 DEF SectionStart
<1>3. Patched(lines, sec, vals) =
        [i \in 1..e - 1 |->
           IF i \in start + 1..e - 1 /\ HasKey(lines[i]) /\ lines[i].key \in keys
           THEN Assign(lines[i].key, vals[lines[i].key]) ELSE lines[i]] \o added \o back
  BY DEF Patched, SeenKeys
<1> HIDE DEF start
<1>4. /\ e \in start + 1..L + 1 /\ (e <= L => IsHeader(lines[e]))
      /\ ~ NoteInside(lines, sec) => \A i \in start + 1..e - 1 : ~ IsHeader(lines[i])
  BY <1>2, EndOfSection
<1> HIDE DEF e, keys
<1>5. [i \in 1..e - 1 |->
           IF i \in start + 1..e - 1 /\ HasKey(lines[i]) /\ lines[i].key \in keys
           THEN Assign(lines[i].key, vals[lines[i].key]) ELSE lines[i]] = front
  <2>1. \A i \in 1..e - 1 : i \in start + 1..e - 1 <=> i > start
    BY <1>1, <1>2, <1>4
  <2>2. ASSUME NEW i \in 1..e - 1
        PROVE  (IF i \in start + 1..e - 1 /\ HasKey(lines[i]) /\ lines[i].key \in keys
                THEN Assign(lines[i].key, vals[lines[i].key]) ELSE lines[i])
               = NewLine(lines, start, keys, vals, i)
    BY <2>1, Zenon DEF NewLine
  <2>3. QED
    BY <2>2
<1>6. e \in Nat /\ e - 1 \in Nat /\ start \in Nat
  BY <1>1, <1>2, <1>4
<1>7. /\ front \in Seq(Line) /\ Len(front) = e - 1
      /\ \A i \in 1..e - 1 : front[i] = NewLine(lines, start, keys, vals, i)
  <2>1. \A i \in 1..e - 1 : i \in 1..L
    BY <1>1, <1>2, <1>4
  <2>2. ASSUME NEW i \in 1..e - 1 PROVE NewLine(lines, start, keys, vals, i) \in Line
    BY <2>1, NewLineIs DEF keys
  <2>3. front \in [1..e - 1 -> Line] /\ \A i \in 1..e - 1 : front[i] = NewLine(lines, start, keys, vals, i)
    BY <2>2
  <2> HIDE DEF front
  <2>4. front \in Seq(Line)
    BY <1>6, <2>3, SeqDef
  <2>5. Len(front) \in Nat /\ 1..Len(front) = 1..e - 1
    BY <2>3, <2>4, LenProperties
  <2>6. Len(front) = e - 1
    BY <1>6, <2>5
  <2>7. QED
    BY <2>3, <2>4, <2>6
<1> DEFINE r == Len(added)
<1>8. /\ added \in Seq(Line) /\ r \in Nat
      /\ \A j \in 1..r : \E k \in keys \ seen : added[j] = Assign(k, vals[k])
      /\ \A k \in keys \ seen : \E j \in 1..r : added[j] = Assign(k, vals[k])
  <2>1. IsFiniteSet(keys) /\ keys \subseteq Key
    BY ConfigAssumption DEF keys
  <2>2. IsFiniteSet(keys \ seen) /\ keys \ seen \subseteq Key
    BY <2>1, FS_Subset
  <2>3. \A k \in keys \ seen : vals[k] \in Value \cup {"bad"}
    BY DEF keys
  <2> DEFINE missing == keys \ seen
             new == KeyLines(missing, vals)
  <2>4. IsFiniteSet(missing) /\ missing \subseteq Key
        /\ \A k \in missing : vals[k] \in Value \cup {"bad"}
    BY <2>2, <2>3
  <2> HIDE DEF missing
  <2>5. /\ new \in Seq(Line) /\ Len(new) \in Nat
        /\ \A j \in 1..Len(new) : \E k \in missing : new[j] = Assign(k, vals[k])
        /\ \A k \in missing : \E j \in 1..Len(new) : new[j] = Assign(k, vals[k])
    BY <2>4, KeyLinesAre
  <2> HIDE DEF new
  <2>6. added = new
    BY DEF new, missing
  <2>7. QED
    BY <2>5, <2>6 DEF missing
<1> HIDE DEF seen, front, added
<1>9. /\ back \in Seq(Line) /\ Len(back) = L - e + 1
      /\ \A i \in 1..L - e + 1 : back[i] = lines[e + i - 1]
  <2>1. e \in 1..Len(lines) + 1 /\ Len(lines) \in e - 1..Len(lines)
    BY <1>1, <1>2, <1>4
  <2>2. QED
    BY <2>1, SubSeqProperties
<1> HIDE DEF back
<1>10. /\ out \in Seq(Line) /\ Len(out) = Len(front) + Len(added) + Len(back)
       /\ \A i \in 1..Len(front) : out[i] = front[i]
       /\ \A i \in 1..Len(added) : out[Len(front) + i] = added[i]
       /\ \A i \in 1..Len(back) : out[Len(front) + Len(added) + i] = back[i]
  <2>1. front \in Seq(Line) /\ added \in Seq(Line) /\ back \in Seq(Line)
    BY <1>7, <1>8, <1>9
  <2>2. QED
    BY <2>1, ThreeParts
<1>11. Patched(lines, sec, vals) = out
  BY <1>3, <1>5
<1> HIDE DEF out, r, L
<1>12. Len(out) = L + r
  <2>1. Len(out) = (e - 1) + r + (L - e + 1)
    BY <1>7, <1>9, <1>10 DEF r
  <2>2. QED
    BY <1>1, <1>6, <1>8, <2>1
<1>13. \A i \in 1..e - 1 : out[i] = NewLine(lines, start, keys, vals, i)
  BY <1>7, <1>10
<1>14. ASSUME NEW j \in e..e - 1 + r PROVE \E k \in keys \ seen : out[j] = Assign(k, vals[k])
  <2>1. j - (e - 1) \in 1..r /\ (e - 1) + (j - (e - 1)) = j
    <3>1. e \in Nat /\ r \in Nat /\ j \in e..e - 1 + r
      BY <1>6, <1>8
    <3>2. QED
      BY <3>1
  <2>2. out[(e - 1) + (j - (e - 1))] = added[j - (e - 1)]
    BY <1>7, <1>10, <2>1, Zenon DEF r
  <2>3. QED
    BY <1>8, <2>1, <2>2
<1>15. ASSUME NEW k \in keys \ seen PROVE \E j \in e..e - 1 + r : out[j] = Assign(k, vals[k])
  <2>1. PICK j \in 1..r : added[j] = Assign(k, vals[k])
    BY <1>8
  <2>2. (e - 1) + j \in e..e - 1 + r
    BY <1>6, <1>8
  <2>3. out[(e - 1) + j] = added[j]
    BY <1>7, <1>10 DEF r
  <2>4. QED
    BY <2>1, <2>2, <2>3
<1>16. ASSUME NEW i \in e..L PROVE out[i + r] = lines[i]
  <2>1. /\ i - (e - 1) \in 1..L - e + 1 /\ (e - 1) + r + (i - (e - 1)) = i + r
        /\ e + (i - (e - 1)) - 1 = i
    BY <1>1, <1>6, <1>8
  <2>2. out[(e - 1) + r + (i - (e - 1))] = back[i - (e - 1)]
    BY <1>7, <1>9, <1>10, <2>1, Zenon DEF r
  <2>3. back[i - (e - 1)] = lines[e + (i - (e - 1)) - 1]
    BY <1>9, <2>1, Zenon
  <2>4. QED
    BY <2>1, <2>2, <2>3
<1>17. ASSUME ~ NoteInside(lines, sec) PROVE Laid(lines, sec, vals, start, e, r, out)
  BY <1>2, <1>4, <1>8, <1>10, <1>12, <1>13, <1>14, <1>15, <1>16, <1>17 DEF Laid, keys, seen, L
<1>18. QED
  BY <1>10, <1>11, <1>17


\* The header that a patch of a section that is not there adds says nothing itself.
LEMMA HeaderAdded ==
  ASSUME NEW lines \in Seq(Line), Unique(lines), NEW sec \in Section,
         NEW all \in Seq(Line), Unique(all), Len(all) = Len(lines) + 1,
         all[Len(lines) + 1] = Header(sec), \A i \in 1..Len(lines) : all[i] = lines[i]
  PROVE  \A s, key : Setting(all, s, key) = Setting(lines, s, key)
<1> DEFINE L == Len(lines)
           head == Header(sec)
<1>1. L \in Nat /\ DOMAIN lines = 1..L
  BY FileFacts
<1>2. head \in Line
  BY DEF Line
<1>3. ~ HasKey(head)
  BY DEF Header, HasKey
<1> HIDE DEF head
<1>4. /\ all \in Seq(Line) /\ Len(all) = L + 1 /\ all[L + 1] = head
      /\ \A i \in 1..L : all[i] = lines[i]
  BY DEF head
<1>5. DOMAIN all = 1..L + 1
  BY <1>4, FileFacts
<1> HIDE DEF L
<1>6. ASSUME NEW i \in 1..L PROVE SectionOf(all, i) = SectionOf(lines, i)
  <2>1. i \in Nat /\ \A j \in 1..i : all[j] = lines[j]
    BY <1>1, <1>4
  <2>2. QED
    BY <2>1, SameSection
<1>7. ASSUME NEW i, NEW s, NEW key PROVE Sets(all, i, s, key) <=> Sets(lines, i, s, key)
  <2>1. ASSUME Sets(lines, i, s, key) PROVE Sets(all, i, s, key)
    <3>1. i \in 1..L /\ i \in 1..L + 1
      BY <1>1, <2>1 DEF Sets, L
    <3>2. QED
      BY <1>4, <1>6, <2>1, <3>1 DEF Sets
  <2>2. ASSUME Sets(all, i, s, key) PROVE Sets(lines, i, s, key)
    <3>1. i \in 1..L + 1 /\ HasKey(all[i])
      BY <1>4, <2>2 DEF Sets
    <3>2. i # L + 1
      BY <1>3, <1>4, <3>1
    <3>3. i \in 1..L
      BY <1>1, <3>1, <3>2
    <3>4. QED
      BY <1>4, <1>6, <2>2, <3>3 DEF Sets, L
  <2>3. QED
    BY <2>1, <2>2
<1>8. ASSUME NEW s, NEW key PROVE Setting(all, s, key) = Setting(lines, s, key)
  <2>1. CASE \E i : Sets(lines, i, s, key)
    <3>1. PICK i : Sets(lines, i, s, key)
      BY <2>1
    <3>2. Sets(all, i, s, key)
      BY <1>7, <3>1
    <3>3. i \in 1..L
      BY <3>1 DEF Sets, L
    <3>4. Setting(all, s, key) = all[i].val
      <4>1. all \in Seq(Line) /\ Unique(all)
        BY <1>4
      <4>2. QED
        BY <3>2, <4>1, SettingIs
    <3>5. Setting(lines, s, key) = lines[i].val
      BY <3>1, SettingIs
    <3>6. QED
      BY <1>4, <3>3, <3>4, <3>5
  <2>2. CASE \A i : ~ Sets(lines, i, s, key)
    <3>1. \A i : ~ Sets(all, i, s, key)
      BY <1>7, <2>2
    <3>2. Setting(all, s, key) = "default"
      BY <1>4, <3>1, SettingIsDefault
    <3>3. Setting(lines, s, key) = "default"
      BY <2>2, SettingIsDefault
    <3>4. QED
      BY <3>2, <3>3
  <2>3. QED
    BY <2>1, <2>2
<1>9. QED
  BY <1>8

\* A patch of a section that is not there.
LEMMA PatchBehind ==
  ASSUME NEW lines \in Seq(Line), Unique(lines),
         NEW sec \in DOMAIN SectionKeys, NEW vals \in [SectionKeys[sec] -> Value \cup {"bad"}],
         SectionStart(lines, sec) = {}, Unique(Patched(lines, sec, vals))
  PROVE  \E all, start, e, r :
           /\ all \in Seq(Line) /\ Unique(all)
           /\ \A s, key : Setting(all, s, key) = Setting(lines, s, key)
           /\ Laid(all, sec, vals, start, e, r, Patched(lines, sec, vals))
<1> DEFINE L == Len(lines)
           keys == SectionKeys[sec]
           head == <<Header(sec)>>
           all == lines \o head
           added == KeyLines(keys, vals)
           out == lines \o head \o added
           r == Len(added)
<1>1. Patched(lines, sec, vals) = out
  BY DEF Patched
<1>2. L \in Nat /\ sec \in Section
  BY FileFacts, ConfigAssumption
<1>3. head \in Seq(Line) /\ Len(head) = 1 /\ head[1] = Header(sec)
  <2>1. Header(sec) \in Line
    BY <1>2 DEF Line
  <2>2. QED
    BY <2>1
<1>4. /\ all \in Seq(Line) /\ Len(all) = L + 1 /\ all[L + 1] = Header(sec)
      /\ \A i \in 1..L : all[i] = lines[i]
  <2>1. Header(sec) \in Line
    BY <1>2 DEF Line
  <2>2. all = Append(lines, Header(sec))
    BY <2>1, AppendIsConcat
  <2> HIDE DEF all
  <2>3. QED
    BY <2>1, <2>2, AppendProperties
<1>5. /\ added \in Seq(Line) /\ r \in Nat
      /\ \A j \in 1..r : \E k \in keys : added[j] = Assign(k, vals[k])
      /\ \A k \in keys : \E j \in 1..r : added[j] = Assign(k, vals[k])
  <2>1. IsFiniteSet(keys) /\ keys \subseteq Key /\ \A k \in keys : vals[k] \in Value \cup {"bad"}
    BY ConfigAssumption
  <2> HIDE DEF keys
  <2>2. QED
    BY <2>1, KeyLinesAre
<1> HIDE DEF head, added, all
<1>6. /\ out \in Seq(Line) /\ Len(out) = Len(lines) + Len(head) + Len(added)
      /\ \A i \in 1..Len(lines) : out[i] = lines[i]
      /\ \A i \in 1..Len(head) : out[Len(lines) + i] = head[i]
      /\ \A i \in 1..Len(added) : out[Len(lines) + Len(head) + i] = added[i]
  <2>1. lines \in Seq(Line) /\ head \in Seq(Line) /\ added \in Seq(Line)
    BY <1>3, <1>5
  <2>2. QED
    BY ONLY <2>1, ThreeParts
<1> HIDE DEF out, r, L
<1>7. /\ Len(out) = L + 1 + r
      /\ \A i \in 1..L : out[i] = all[i]
      /\ out[L + 1] = all[L + 1]
      /\ \A i \in 1..r : out[L + 1 + i] = added[i]
  <2>1. Len(out) = L + 1 + r /\ \A i \in 1..r : out[L + 1 + i] = added[i]
    BY <1>3, <1>6 DEF r, L
  <2>2. \A i \in 1..L : out[i] = all[i]
    BY <1>4, <1>6 DEF L
  <2>3. out[L + 1] = all[L + 1]
    <3>1. out[Len(lines) + 1] = head[1]
      BY <1>3, <1>6
    <3>2. QED
      BY <1>3, <1>4, <3>1 DEF L
  <2>4. QED
    BY <2>1, <2>2, <2>3
<1>8. \A i \in 1..L + 1 : out[i] = all[i]
  <2>1. \A i \in 1..L + 1 : i \in 1..L \/ i = L + 1
    BY <1>2
  <2>2. QED
    BY <1>7, <2>1
<1>9. Unique(all)
  <2>1. DOMAIN all = 1..L + 1
    BY <1>4, FileFacts
  <2>2. \A i \in 1..L + 1 : i \in DOMAIN out
    <3>1. DOMAIN out = 1..L + 1 + r
      BY <1>6, <1>7, FileFacts
    <3>2. QED
      BY <1>2, <1>5, <3>1
  <2>3. ASSUME NEW i \in 1..L + 1 PROVE SectionOf(all, i) = SectionOf(out, i)
    <3>1. i \in Nat /\ \A j \in 1..i : all[j] = out[j]
      BY <1>2, <1>8
    <3>2. QED
      BY <3>1, SameSection
  <2>4. Unique(out)
    BY <1>1
  <2>5. ASSUME NEW i \in 1..L + 1, NEW j \in 1..L + 1, i # j
        PROVE  /\ ~ (IsHeader(all[i]) /\ IsHeader(all[j]) /\ all[i].sec = all[j].sec)
               /\ ~ (HasKey(all[i]) /\ HasKey(all[j]) /\ all[i].key = all[j].key
                     /\ SectionOf(all, i) = SectionOf(all, j))
    <3>1. out[i] = all[i] /\ out[j] = all[j] /\ i \in DOMAIN out /\ j \in DOMAIN out
      BY <1>8, <2>2
    <3>2. /\ ~ (IsHeader(out[i]) /\ IsHeader(out[j]) /\ out[i].sec = out[j].sec)
          /\ ~ (HasKey(out[i]) /\ HasKey(out[j]) /\ out[i].key = out[j].key
                /\ SectionOf(out, i) = SectionOf(out, j))
      BY <2>4, <2>5, <3>1 DEF Unique
    <3>3. QED
      BY <2>3, <3>1, <3>2
  <2>6. QED
    BY <2>1, <2>5 DEF Unique
<1>10. \A s, key : Setting(all, s, key) = Setting(lines, s, key)
  <2>1. /\ sec \in Section /\ all \in Seq(Line) /\ Len(all) = Len(lines) + 1
        /\ all[Len(lines) + 1] = Header(sec) /\ \A i \in 1..Len(lines) : all[i] = lines[i]
    BY <1>2, <1>4 DEF L
  <2>2. QED
    BY <1>9, <2>1, HeaderAdded
<1> DEFINE e == L + 2
           start == L + 1
<1>11. /\ start \in 1..Len(all) /\ e \in start + 1..Len(all) + 1 /\ ~ (e <= Len(all))
       /\ \A i : i \notin start + 1..e - 1
       /\ e - 1 = L + 1 /\ e - 1 + r = L + 1 + r
  BY <1>2, <1>4, <1>5
<1>12. ASSUME NEW i \in 1..L + 1 PROVE out[i] = NewLine(all, start, keys, vals, i)
  <2>1. ~ (i > start)
    BY <1>2
  <2>2. QED
    BY <1>8, <2>1 DEF NewLine
<1>13. SeenKeys(all, start, e) = {}
  BY <1>11 DEF SeenKeys
<1>14. ASSUME NEW j \in e..L + 1 + r PROVE \E k \in keys : out[j] = Assign(k, vals[k])
  <2>1. j - (L + 1) \in 1..r /\ L + 1 + (j - (L + 1)) = j
    <3>1. L \in Nat /\ r \in Nat
      BY <1>2, <1>5
    <3>2. QED
      BY <3>1
  <2>2. out[L + 1 + (j - (L + 1))] = added[j - (L + 1)]
    BY <1>7, <2>1, Zenon
  <2>3. QED
    BY <1>5, <2>1, <2>2
<1>15. ASSUME NEW k \in keys PROVE \E j \in e..L + 1 + r : out[j] = Assign(k, vals[k])
  <2>1. PICK j \in 1..r : added[j] = Assign(k, vals[k])
    BY <1>5
  <2>2. L + 1 + j \in e..L + 1 + r
    BY <1>2, <1>5
  <2>3. out[L + 1 + j] = added[j]
    BY <1>7
  <2>4. QED
    BY <2>1, <2>2, <2>3
<1>16. \A i : i \notin e..Len(all)
  BY <1>2, <1>4
<1>17. keys \ {} = keys
  OBVIOUS
<1> HIDE DEF e, start
<1>18. Laid(all, sec, vals, start, e, r, out)
  <2>1. all[start] = Header(sec) /\ Len(out) = Len(all) + r
    BY <1>4, <1>7 DEF start
  <2>2. SectionKeys[sec] \ SeenKeys(all, start, e) = keys /\ SectionKeys[sec] = keys
    BY <1>13
  <2>3. \A i \in 1..e - 1 : out[i] = NewLine(all, start, SectionKeys[sec], vals, i)
    BY <1>11, <1>12, <2>2
  <2>4. /\ \A j \in e..e - 1 + r : \E k \in keys : out[j] = Assign(k, vals[k])
        /\ \A k \in keys : \E j \in e..e - 1 + r : out[j] = Assign(k, vals[k])
    BY <1>11, <1>14, <1>15
  <2> HIDE DEF keys
  <2>5. /\ start \in 1..Len(all) /\ e \in start + 1..Len(all) + 1
        /\ (e <= Len(all) => IsHeader(all[e]))
        /\ \A i \in start + 1..e - 1 : ~ IsHeader(all[i])
        /\ \A i \in e..Len(all) : out[i + r] = all[i]
    BY <1>11, <1>16
  <2>6. r \in Nat /\ out \in Seq(Line)
    BY <1>5, <1>6
  <2>7. QED
    BY <2>1, <2>2, <2>3, <2>4, <2>5, <2>6, Zenon DEF Laid
<1>19. QED
  BY <1>1, <1>4, <1>9, <1>10, <1>18


\* Whichever way, the patched text is one, and says what it was to say.
LEMMA PatchedType ==
  ASSUME NEW lines \in Seq(Line), Unique(lines),
         NEW sec \in DOMAIN SectionKeys, NEW vals \in [SectionKeys[sec] -> Value \cup {"bad"}],
         Unique(Patched(lines, sec, vals))
  PROVE  Patched(lines, sec, vals) \in Seq(Line)
<1>1. CASE SectionStart(lines, sec) = {}
  BY <1>1, PatchBehind, LaidIs
<1>2. CASE SectionStart(lines, sec) # {}
  BY <1>2, PatchInside
<1>3. QED
  BY <1>1, <1>2

LEMMA PatchSays ==
  ASSUME NEW lines \in Seq(Line), Unique(lines), NEW sec \in DOMAIN SectionKeys,
         ~ NoteInside(lines, sec), NEW vals \in [SectionKeys[sec] -> Value \cup {"bad"}],
         Unique(Patched(lines, sec, vals))
  PROVE  \A s, key : Setting(Patched(lines, sec, vals), s, key) =
           IF s = sec /\ key \in SectionKeys[sec] THEN vals[key] ELSE Setting(lines, s, key)
<1> DEFINE out == Patched(lines, sec, vals)
<1>1. Unique(out)
  OBVIOUS
<1> HIDE DEF out
<1>2. PICK all, start, e, r :
        /\ all \in Seq(Line) /\ Unique(all)
        /\ \A s, key : Setting(all, s, key) = Setting(lines, s, key)
        /\ Laid(all, sec, vals, start, e, r, out)
  <2>1. CASE SectionStart(lines, sec) = {}
    BY <2>1, PatchBehind DEF out
  <2>2. CASE SectionStart(lines, sec) # {}
    <3>1. \E start, e, r : Laid(lines, sec, vals, start, e, r, out)
      BY <2>2, PatchInside DEF out
    <3>2. QED
      BY <3>1
  <2>3. QED
    BY <2>1, <2>2
<1>3. ASSUME NEW s, NEW key
      PROVE  Setting(out, s, key) = IF s = sec /\ key \in SectionKeys[sec]
                                    THEN vals[key] ELSE Setting(lines, s, key)
  <2>1. Setting(out, s, key) = IF s = sec /\ key \in SectionKeys[sec]
                               THEN vals[key] ELSE Setting(all, s, key)
    BY <1>1, <1>2, LaidSettings
  <2>2. QED
    BY <1>2, <2>1
<1>4. QED
  BY <1>3 DEF out

-----------------------------------------------------------------------------
(* ConfigFile: the edits.                                                   *)

LEMMA LoadsUnique ==
  ASSUME NEW lines, LoadsAndChecks(lines)
  PROVE  Unique(lines)
BY DEF LoadsAndChecks, WellFormed, Unique

\* What a failed write leaves is a file like any other.
LEMMA EmptyLoads ==
  <<>> \in Seq(Line) /\ LoadsAndChecks(<<>>)
<1>1. <<>> \in Seq(Line) /\ Len(<<>>) = 0 /\ DOMAIN <<>> = {}
  BY EmptySeq, FileFacts
<1> DEFINE empty == <<>>
<1>2. empty \in Seq(Line) /\ DOMAIN empty = {} /\ 1..Len(empty) = {}
  BY <1>1
<1> HIDE DEF empty
<1>3. WellFormed(empty)
  BY <1>2 DEF WellFormed
<1>4. ASSUME NEW s \in DOMAIN SectionKeys, NEW k \in SectionKeys[s]
      PROVE  Settings(empty)[s][k] # "bad"
  <2>1. s \in Section /\ k \in Key
    BY ConfigAssumption
  <2>2. \A i : ~ Sets(empty, i, s, k)
    BY <1>2 DEF Sets
  <2>3. Setting(empty, s, k) = "default"
    BY <1>2, <2>2, SettingIsDefault
  <2>4. Settings(empty)[s][k] = Setting(empty, s, k)
    BY <2>1 DEF Settings
  <2>5. QED
    BY <2>3, <2>4
<1>5. LoadsAndChecks(empty)
  BY <1>3, <1>4 DEF LoadsAndChecks
<1>6. QED
  BY <1>2, <1>3, <1>5 DEF empty

\* What a file that loads says has the type of what an edit asks for.
LEMMA SettingsType ==
  ASSUME NEW lines \in Seq(Line), LoadsAndChecks(lines)
  PROVE  Settings(lines) \in Wants
BY LoadsUnique, SettingType DEF Settings, Wants

ConfInv == ConfigTypeOK /\ PatchCorrect

LEMMA WritesKeep ==
  ASSUME NEW lines \in Seq(Line), LoadsAndChecks(lines), NEW want \in Wants,
         NEW misread \in BOOLEAN, ~ misread => Settings(lines) = want,
         Writes(lines, want, misread)
  PROVE  ConfInv'
<1>1. CASE confFile' = lines /\ confWant' = want /\ strayed' = misread
  BY <1>1 DEF ConfInv, ConfigTypeOK, PatchCorrect
<1>2. CASE confFile' = <<>> /\ confWant' = Settings(<<>>) /\ strayed' = FALSE
  <2>1. confFile' \in Seq(Line) /\ LoadsAndChecks(confFile')
    BY <1>2, EmptyLoads
  <2>2. Settings(confFile') = confWant' /\ strayed' \in BOOLEAN
    BY <1>2
  <2>3. QED
    BY <2>1, <2>2, SettingsType DEF ConfInv, ConfigTypeOK, PatchCorrect
<1>3. QED
  BY <1>1, <1>2 DEF Writes

LEMMA ConfInitInv == ConfigInit => ConfInv
BY ConfigAssumption, SettingsType DEF ConfigInit, ConfInv, ConfigTypeOK, PatchCorrect

LEMMA ConfPatch ==
  ASSUME ConfInv, NEW sec \in DOMAIN SectionKeys,
         NEW vals \in [SectionKeys[sec] -> Value \cup {"bad"}], Patch(sec, vals)
  PROVE  ConfInv'
<1> DEFINE out == Patched(confFile, sec, vals)
<1>1. /\ LoadsAndChecks(out) /\ Writes(out, Edited(sec, vals), NoteInside(confFile, sec))
      /\ confFile \in Seq(Line) /\ LoadsAndChecks(confFile) /\ Unique(confFile)
  BY LoadsUnique DEF Patch, ConfInv, ConfigTypeOK, PatchCorrect
<1>2. Unique(out)
  BY <1>1, LoadsUnique
<1>3. out \in Seq(Line)
  BY <1>1, <1>2, PatchedType
<1> HIDE DEF out
<1>4. Edited(sec, vals) \in Wants
  <2>1. Settings(confFile) \in Wants
    BY <1>1, SettingsType
  <2>2. \A k \in SectionKeys[sec] : vals[k] \in Value \cup {"bad"}
    OBVIOUS
  <2>3. QED
    BY <2>1, <2>2 DEF Edited, Wants
<1>5. ASSUME ~ NoteInside(confFile, sec) PROVE Settings(out) = Edited(sec, vals)
  <2> \A s, key : Setting(out, s, key) = IF s = sec /\ key \in SectionKeys[sec]
                                         THEN vals[key] ELSE Setting(confFile, s, key)
    BY <1>1, <1>2, <1>5, PatchSays DEF out
  <2>1. sec \in Section
    BY ConfigAssumption
  <2>2. Edited(sec, vals) =
          [s \in Section |->
             IF s = sec THEN [k \in Key |-> IF k \in SectionKeys[sec] THEN vals[k]
                                            ELSE Settings(confFile)[sec][k]]
             ELSE Settings(confFile)[s]]
    BY <2>1 DEF Edited, Settings
  <2>3. ASSUME NEW s \in Section
        PROVE  Settings(out)[s] =
                 IF s = sec THEN [k \in Key |-> IF k \in SectionKeys[sec] THEN vals[k]
                                                ELSE Settings(confFile)[sec][k]]
                 ELSE Settings(confFile)[s]
    <3>1. Settings(out)[s] = [k \in Key |-> Setting(out, s, k)]
          /\ Settings(confFile)[s] = [k \in Key |-> Setting(confFile, s, k)]
          /\ \A k \in Key : Settings(confFile)[sec][k] = Setting(confFile, sec, k)
      BY <2>1 DEF Settings
    <3>2. CASE s = sec
      BY <3>1, <3>2
    <3>3. CASE s # sec
      BY <3>1, <3>3
    <3>4. QED
      BY <3>2, <3>3
  <2>4. Settings(out) = [s \in Section |-> Settings(out)[s]]
    BY DEF Settings
  <2>5. QED
    BY <2>2, <2>3, <2>4
<1>6. NoteInside(confFile, sec) \in BOOLEAN
  BY DEF NoteInside
<1>7. QED
  BY <1>1, <1>3, <1>4, <1>5, <1>6, WritesKeep

LEMMA ConfStep ==
  ASSUME ConfInv, [ConfigNext]_configVars
  PROVE  ConfInv'
<1>1. ASSUME NEW sec \in DOMAIN SectionKeys, NEW vals \in [SectionKeys[sec] -> Value \cup {"bad"}],
             Patch(sec, vals)
      PROVE  ConfInv'
  BY <1>1, ConfPatch
<1>2. ASSUME NEW lines \in ConfFiles, PutConfig(lines) PROVE ConfInv'
  <2>1. lines \in Seq(Line)
    BY ConfigAssumption
  <2>2. LoadsAndChecks(lines) /\ Writes(lines, Settings(lines), FALSE)
    BY <1>2 DEF PutConfig
  <2>3. QED
    BY <2>1, <2>2, SettingsType, WritesKeep
<1>3. CASE UNCHANGED configVars
  BY <1>3 DEF configVars, ConfInv, ConfigTypeOK, PatchCorrect
<1>4. QED
  BY <1>1, <1>2, <1>3 DEF ConfigNext

LEMMA ConfInvariant == ConfigSpec => []ConfInv
<1>1. ConfInv /\ [ConfigNext]_configVars => ConfInv'
  BY ConfStep
<1>2. QED
  BY <1>1, ConfInitInv, PTL DEF ConfigSpec

\* The edits of the configuration file keep its types: what is written is a sequence of
\* lines, and what the last edit asked for gives every key of every section a value.
THEOREM ConfigTypes == ConfigSpec => []ConfigTypeOK
<1>1. ConfInv => ConfigTypeOK
  BY DEF ConfInv
<1>2. QED
  BY <1>1, ConfInvariant, PTL

\* PUT of the configuration, patchAGHManagedTargetConfig and patchAGHManagedSchedulerConfig:
\* after any sequence of edits the file loads, and the parser reads in it what the last of them
\* asked for, the keys of the edit with its values and every other setting as it was, unless
\* that edit was a patch of a section in which a header with a comment behind it follows.
THEOREM PatchesCorrect == ConfigSpec => []PatchCorrect
<1>1. ConfInv => PatchCorrect
  BY DEF ConfInv
<1>2. QED
  BY <1>1, ConfInvariant, PTL

=============================================================================
