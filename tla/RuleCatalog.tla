----------------------------- MODULE RuleCatalog -----------------------------
(***************************************************************************)
(* The rule catalog (rulecatalog.Store) and who holds which copy of it: the *)
(* admin server keeps the store it was started with, reload opens another   *)
(* one on the same file and gives it to the request path and to Sync.  A    *)
(* review changes an entry and saves under the store's mutex; Sync fetches  *)
(* the lists without it and then replaces all entries by new candidates, or *)
(* puts its copy of the old ones back when the fetch failed.  Each Replace  *)
(* takes the mutex anew: the reviews made before it, since the fetch or the *)
(* copy or a first Replace that failed, are overwritten.                    *)
(*                                                                         *)
(* An entry is its review state: Promote approves, Downgrade disables,      *)
(* Review sets either; the other fields (MarkCNAME's) are kept or lost with *)
(* it.                                                                      *)
(***************************************************************************)
EXTENDS Naturals, FiniteSets

CONSTANTS RuleId, StoreObj, FirstStore, NoReview

ReviewState == {"candidate", "approved", "disabled"}

ASSUME CatalogAssumption ==
  /\ FirstStore \in StoreObj
  /\ NoReview \notin ReviewState

VARIABLES store,     \* the entries of each store object
          catFile,   \* the entries in the file
          adminHas,  \* the store that the admin server reviews in
          serving,   \* Server.rules, the store that requests and syncs use
          catReload, \* what reload is doing
          catSync,   \* what a Sync is doing
          reviewed,  \* ghost: the acknowledged review of each entry, if nothing
                     \* has replaced it since
          late       \* ghost: entries reviewed since the serving store was opened

catVars == <<store, catFile, adminHas, serving, catReload, catSync, reviewed, late>>

Entries == UNION {[ids -> ReviewState] : ids \in SUBSET RuleId}
CatIdle == [pc |-> "idle"]

CatTypeOK ==
  /\ store \in [StoreObj -> Entries] /\ catFile \in Entries
  /\ {adminHas, serving} \subseteq StoreObj
  /\ catReload \in {CatIdle} \cup [pc : {"opened"}, entries : Entries, unseen : SUBSET RuleId]
  /\ catSync \in {CatIdle} \cup [pc : {"build"}, obj : StoreObj]
                  \cup [pc : {"replace", "again"}, obj : StoreObj, entries : Entries]
                  \cup [pc : {"putback"}, obj : StoreObj, entries : Entries, missed : SUBSET RuleId]
  /\ reviewed \in [RuleId -> ReviewState \cup {NoReview}]
  /\ late \subseteq RuleId

\* the reviews that are not in these entries
Lacks(entries) ==
  {id \in RuleId : reviewed[id] # NoReview /\ ~(id \in DOMAIN entries /\ entries[id] = reviewed[id])}

\* what the actions under way have not seen of a review made now
Overtakes(id) ==
  /\ late' = IF serving = adminHas THEN late ELSE late \cup {id}
  /\ catReload' = IF catReload.pc = "opened"
                  THEN [catReload EXCEPT !.unseen = @ \cup {id}] ELSE catReload
  /\ catSync' = IF catSync.pc = "putback"
                THEN [catSync EXCEPT !.missed = @ \cup {id}] ELSE catSync

CatInit ==
  /\ catFile \in {e \in Entries : \A id \in DOMAIN e : e[id] = "candidate"}
  /\ store = [o \in StoreObj |-> catFile]
  /\ adminHas = FirstStore /\ serving = FirstStore
  /\ catReload = CatIdle /\ catSync = CatIdle
  /\ reviewed = [id \in RuleId |-> NoReview]
  /\ late = {}

-----------------------------------------------------------------------------
\* Review, Promote, Downgrade: the administrator is told that it is done unless the
\* save fails, and then the memory keeps the change all the same.
ReviewRule(id, state) ==
  /\ id \in DOMAIN store[adminHas]
  /\ store' = [store EXCEPT ![adminHas][id] = state]
  /\ \/ catFile' = store'[adminHas] /\ reviewed' = [reviewed EXCEPT ![id] = state]
     \/ catFile' = catFile /\ reviewed' = [reviewed EXCEPT ![id] = NoReview]
  /\ Overtakes(id)
  /\ UNCHANGED <<adminHas, serving>>

\* Sync, on the store that serves when it starts (the administrator's request, or
\* the end of a reload)
SyncStart ==
  /\ catSync = CatIdle
  /\ catSync' = [pc |-> "build", obj |-> serving]
  /\ UNCHANGED <<store, catFile, adminHas, serving, catReload, reviewed, late>>

\* Build answers with the rules of the lists, none of them reviewed.
SyncBuilt(ids) ==
  /\ catSync.pc = "build"
  /\ catSync' = [pc |-> "replace", obj |-> catSync.obj,
                 entries |-> [id \in ids |-> "candidate"]]
  /\ UNCHANGED <<store, catFile, adminHas, serving, catReload, reviewed, late>>

\* mutant: after an error the store is replaced by what was fetched until then
SyncFailsEmpty ==
  /\ catSync.pc = "build"
  /\ catSync' = [pc |-> "putback", obj |-> catSync.obj, entries |-> [id \in {} |-> "candidate"],
                 missed |-> Lacks(store[catSync.obj])]
  /\ UNCHANGED <<store, catFile, adminHas, serving, catReload, reviewed, late>>

\* Build fails: List copies the entries.
SyncFails ==
  /\ catSync.pc = "build"
  /\ catSync' = [pc |-> "putback", obj |-> catSync.obj, entries |-> store[catSync.obj],
                 missed |-> Lacks(store[catSync.obj])]
  /\ UNCHANGED <<store, catFile, adminHas, serving, catReload, reviewed, late>>

\* Replace, which a Sync that has fetched the lists does again when it fails to save.
\* What it overwrites is no longer a review of the catalog: after a fetch that is every
\* entry, after a failed one those that its copy has not, in memory or in the file.
SyncReplaces ==
  LET o == catSync.obj
      kept == catSync.entries
      lost == IF catSync.pc = "putback" THEN catSync.missed ELSE RuleId
  IN  /\ catSync.pc \in {"replace", "again", "putback"}
      /\ store' = [store EXCEPT ![o] = kept]
      /\ reviewed' = [id \in RuleId |-> IF id \in lost THEN NoReview ELSE reviewed[id]]
      /\ \/ catFile' = kept /\ catSync' = CatIdle
         \/ /\ catFile' = catFile
            /\ catSync' = IF catSync.pc = "replace" THEN [catSync EXCEPT !.pc = "again"]
                          ELSE CatIdle
      /\ UNCHANGED <<adminHas, serving, catReload, late>>

\* reload with refresh_on_reload: Open reads the file, then Server.rules changes.
ReloadOpens ==
  /\ catReload = CatIdle
  /\ catReload' = [pc |-> "opened", entries |-> catFile, unseen |-> {}]
  /\ UNCHANGED <<store, catFile, adminHas, serving, catSync, reviewed, late>>

ReloadServes(o) ==
  /\ catReload.pc = "opened"
  /\ o \notin {adminHas, serving} /\ (catSync # CatIdle => catSync.obj # o)
  /\ store' = [store EXCEPT ![o] = catReload.entries]
  /\ serving' = o /\ late' = catReload.unseen
  /\ catReload' = CatIdle
  /\ UNCHANGED <<catFile, adminHas, catSync, reviewed>>

\* The process stops or dies and starts again with one store.
CatRestart ==
  /\ store' = [o \in StoreObj |-> catFile]
  /\ adminHas' = FirstStore /\ serving' = FirstStore
  /\ catReload' = CatIdle /\ catSync' = CatIdle /\ late' = {}
  /\ UNCHANGED <<catFile, reviewed>>

CatNext ==
  \/ \E id \in RuleId, state \in {"approved", "disabled"} : ReviewRule(id, state)
  \/ SyncStart
  \/ \E ids \in SUBSET RuleId : SyncBuilt(ids)
  \/ SyncFails \/ SyncReplaces
  \/ ReloadOpens
  \/ \E o \in StoreObj : ReloadServes(o)
  \/ CatRestart

CatSpec == CatInit /\ [][CatNext]_catVars

-----------------------------------------------------------------------------
Holds(entries, id, state) == id \in DOMAIN entries /\ entries[id] = state

\* An acknowledged review is in the store it was made in and in the file, and it
\* takes effect on requests: reload's second store, restarts, failed saves and the
\* failed synchronisations that had seen it carry it on, as does a fetch that has not
\* replaced the entries yet.  What was reviewed since the serving store was opened is
\* in the admin server's store only.  It is NOT kept from a Sync that has not seen it:
\* one that has fetched the lists replaces every review, twice when the first save
\* fails (catalog.go:429-431), and one whose fetch failed puts a copy back
\* (catalog.go:425) that lacks what was reviewed between List and Replace, and what
\* was reviewed in the admin server's store while another one serves.
ReviewsKept ==
  \A id \in RuleId : reviewed[id] # NoReview =>
    /\ Holds(store[adminHas], id, reviewed[id])
    /\ Holds(catFile, id, reviewed[id])
    /\ id \in late \/ Holds(store[serving], id, reviewed[id])

=============================================================================
