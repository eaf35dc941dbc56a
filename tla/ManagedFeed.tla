----------------------------- MODULE ManagedFeed -----------------------------
(***************************************************************************)
(* The generation of the rewrite feed (Manager.generate): it copies what it *)
(* needs under the lock, resolves the target's name without it, may turn    *)
(* the emergency switch on, records its result under the lock and saves.    *)
(* The fetch of the feed and the export record a history (Generate with     *)
(* includeRows false); a status and a preview do not.  Several run at once, *)
(* and the entries, the settings and the switch change meanwhile.           *)
(*                                                                         *)
(* An entry here is one that feedItem includes (ManagedOverrides has the    *)
(* overrides that decide it).  A time is its age, which stops growing when  *)
(* it exceeds StaleTargetTTL; an address of the target is the age of its    *)
(* resolution.  A save is one step with the change that it stores; a save   *)
(* that fails or is overtaken is in ManagedSources and StateFile.           *)
(***************************************************************************)
EXTENDS Integers, FiniteSets, Sequences

CONSTANTS EntryId,        \* entries of the managed catalog
          Generation,     \* concurrent calls of generate
          FeedConfigs,    \* settings that a reload may bring
          StaleTargetTTL,
          HistMax         \* length of the history (50 in the code)

ASSUME FeedAssumption ==
  /\ IsFiniteSet(EntryId)
  /\ FeedConfigs \subseteq [resolved : BOOLEAN, auto : BOOLEAN, enabled : BOOLEAN]
  /\ StaleTargetTTL \in Nat /\ HistMax \in Nat \ {0}

Never == -1 \* the age of the zero time, and of no address at all

VARIABLES feedCfg,     \* the settings in force
          emergency,   \* cfg.EmergencyEmpty
          feedEntries, \* the entries
          targetIPs,   \* the cached addresses
          lastResolve, \* lastResolve
          feedBook,    \* feedSnapshot and feedHistory
          feedFile,    \* the switch in the state file; the file's copy of feedBook
                       \* is always feedBook
          gens         \* what each call of generate is doing

feedVars == <<feedCfg, emergency, feedEntries, targetIPs, lastResolve, feedBook,
              feedFile, gens>>

Age == Never .. StaleTargetTTL + 1
HistRec == [inc : Nat, added : Nat, removed : Nat]
Book == [snapshot : SUBSET EntryId, history : Seq(HistRec)]
GenIdle == [pc |-> "idle"]
GenRec ==
  {GenIdle}
  \cup [pc : {"resolve"}, cfg : FeedConfigs, records : BOOLEAN, empty : BOOLEAN,
        entries : SUBSET EntryId, cached : Age, last : Age]
  \cup [pc : {"decide"}, cfg : FeedConfigs, records : BOOLEAN, empty : BOOLEAN,
        entries : SUBSET EntryId, ips : {"none", "fresh", "stale"}]
  \cup [pc : {"record"}, included : SUBSET EntryId]

FeedTypeOK ==
  /\ feedCfg \in FeedConfigs /\ emergency \in BOOLEAN
  /\ feedEntries \subseteq EntryId
  /\ targetIPs \in Age /\ lastResolve \in Age
  /\ feedBook \in Book /\ Len(feedBook.history) <= HistMax
  /\ feedFile \in BOOLEAN
  /\ gens \in [Generation -> GenRec]

EmptyBook == [snapshot |-> {}, history |-> <<>>]

FeedInit ==
  /\ feedCfg \in FeedConfigs /\ emergency = FALSE
  /\ feedEntries = {}
  /\ targetIPs = Never /\ lastResolve = Never
  /\ feedBook = EmptyBook /\ feedFile = FALSE
  /\ gens = [g \in Generation |-> GenIdle]

-----------------------------------------------------------------------------
GenGoes(g, r) == gens' = [gens EXCEPT ![g] = r]

\* copyStateLocked and persistState
FeedSave == feedFile' = emergency'

\* generate resolves its target, unless the settings give it.
GenResolves(r, ips) ==
  [pc |-> "decide", cfg |-> r.cfg, records |-> r.records, empty |-> r.empty,
   entries |-> r.entries, ips |-> ips]

\* generate, the copies under the read lock
GenCopy(g, records) ==
  LET r == [pc |-> "resolve", cfg |-> feedCfg, records |-> records,
            empty |-> emergency \/ ~feedCfg.enabled,
            entries |-> IF records THEN feedEntries ELSE {},
            cached |-> targetIPs, last |-> lastResolve]
  IN  /\ gens[g] = GenIdle
      /\ GenGoes(g, IF feedCfg.resolved THEN r ELSE GenResolves(r, "none"))
      /\ UNCHANGED <<feedCfg, emergency, feedEntries, targetIPs, lastResolve, feedBook,
                     feedFile>>

\* resolveTarget answers, perhaps with no address at all.
GenResolved(g) ==
  /\ gens[g].pc = "resolve"
  /\ lastResolve' = 0
  /\ \/ targetIPs' = 0 /\ GenGoes(g, GenResolves(gens[g], "fresh"))
     \/ targetIPs' = Never /\ GenGoes(g, GenResolves(gens[g], "none"))
  /\ UNCHANGED <<feedCfg, emergency, feedEntries, feedBook, feedFile>>

\* The cached addresses, when the time that goes with them is recent enough.
Cached(ips, last) ==
  IF last = Never \/ last > StaleTargetTTL \/ ips = Never THEN "none"
  ELSE IF ips > StaleTargetTTL THEN "stale" ELSE "fresh"

\* mutant: the time of the last resolution is read when it is needed, and not
\* together with the addresses
GenResolveFailsLate(g) ==
  /\ gens[g].pc = "resolve"
  /\ GenGoes(g, GenResolves(gens[g], Cached(gens[g].cached, lastResolve)))
  /\ UNCHANGED <<feedCfg, emergency, feedEntries, targetIPs, lastResolve, feedBook, feedFile>>

\* resolveTarget fails: the addresses copied at the start may serve.
GenResolveFails(g) ==
  /\ gens[g].pc = "resolve"
  /\ GenGoes(g, GenResolves(gens[g], Cached(gens[g].cached, gens[g].last)))
  /\ UNCHANGED <<feedCfg, emergency, feedEntries, targetIPs, lastResolve, feedBook, feedFile>>

NoTarget(r) == r.cfg.resolved /\ r.ips = "none"
AutoEmpties(r) == NoTarget(r) /\ r.cfg.auto /\ r.records

\* auto_emergency_empty_on_target_failure, for a generation that records
GenEmergency(g) ==
  /\ gens[g].pc = "decide" /\ AutoEmpties(gens[g])
  /\ emergency' = TRUE
  /\ GenGoes(g, [pc |-> "record", included |-> {}])
  /\ UNCHANGED <<feedCfg, feedEntries, targetIPs, lastResolve, feedBook, feedFile>>

\* Otherwise: an error without a target, the end of a status or a preview, or a feed
\* to record.
GenDecide(g) ==
  LET r == gens[g]
  IN  /\ r.pc = "decide" /\ ~AutoEmpties(r)
      /\ GenGoes(g, IF ~r.records \/ (NoTarget(r) /\ ~r.empty) THEN GenIdle
                    ELSE [pc |-> "record", included |-> IF r.empty THEN {} ELSE r.entries])
      /\ UNCHANGED <<feedCfg, emergency, feedEntries, targetIPs, lastResolve, feedBook,
                     feedFile>>

\* feedSnapshotDelta
Delta(prev, next) == [inc |-> Cardinality(next),
                      added |-> Cardinality(next \ prev),
                      removed |-> Cardinality(prev \ next)]

\* mutant: one record too many is kept
CutLate(history) == IF Len(history) > HistMax + 1
                    THEN SubSeq(history, Len(history) - HistMax, Len(history))
                    ELSE history

Cut(history) == IF Len(history) > HistMax
                THEN SubSeq(history, Len(history) - HistMax + 1, Len(history))
                ELSE history

\* mutant: the snapshot is replaced before the delta is taken
RecordedAfterSwap(book, included) ==
  [snapshot |-> included,
   history |-> Cut(Append(book.history, Delta(included, included)))]

\* persistGenerationLocked
Recorded(book, included) ==
  [snapshot |-> included,
   history |-> Cut(Append(book.history, Delta(book.snapshot, included)))]

GenRecord(g) ==
  /\ gens[g].pc = "record"
  /\ feedBook' = Recorded(feedBook, gens[g].included)
  /\ GenGoes(g, GenIdle)
  /\ UNCHANGED <<feedCfg, emergency, feedEntries, targetIPs, lastResolve>>
  /\ FeedSave

-----------------------------------------------------------------------------
\* RefreshTarget, when the resolver answers
RefreshTarget ==
  /\ feedCfg.resolved
  /\ targetIPs' \in {0, Never} /\ lastResolve' = 0
  /\ UNCHANGED <<feedCfg, emergency, feedEntries, feedBook, feedFile, gens>>

SetEmergencyEmpty(on) ==
  /\ emergency' = on
  /\ UNCHANGED <<feedCfg, feedEntries, targetIPs, lastResolve, feedBook, gens>>
  /\ FeedSave

\* mutant: a reload brings the switch of the configuration file back
SetConfigResets(cfg) ==
  /\ feedCfg' = cfg /\ emergency' = FALSE
  /\ UNCHANGED <<feedEntries, targetIPs, lastResolve, feedBook, feedFile, gens>>

\* SetConfig, on a reload: the switch is kept.
SetConfig(cfg) ==
  /\ feedCfg' = cfg
  /\ UNCHANGED <<emergency, feedEntries, targetIPs, lastResolve, feedBook, feedFile, gens>>

\* applyEntriesLocked: a synchronisation replaces the entries, and saves.
ApplyEntries(entries) ==
  /\ feedEntries' = entries
  /\ UNCHANGED <<feedCfg, emergency, targetIPs, lastResolve, feedBook, gens>>
  /\ FeedSave

Older(age) == IF age = Never \/ age > StaleTargetTTL THEN age ELSE age + 1

FeedTick ==
  /\ targetIPs' = Older(targetIPs) /\ lastResolve' = Older(lastResolve)
  /\ gens' = [g \in Generation |->
                IF gens[g].pc = "resolve"
                THEN [gens[g] EXCEPT !.cached = Older(@), !.last = Older(@)] ELSE gens[g]]
  /\ UNCHANGED <<feedCfg, emergency, feedEntries, feedBook, feedFile>>

\* Open after the process has died or stopped: the cached addresses are gone.
FeedRestart ==
  /\ emergency' = feedFile
  /\ targetIPs' = Never /\ lastResolve' = Never
  /\ gens' = [g \in Generation |-> GenIdle]
  /\ UNCHANGED <<feedCfg, feedEntries, feedBook, feedFile>>

FeedNext ==
  \/ \E g \in Generation :
       \/ \E records \in BOOLEAN : GenCopy(g, records)
       \/ GenResolved(g) \/ GenResolveFails(g)
       \/ GenEmergency(g) \/ GenDecide(g) \/ GenRecord(g)
  \/ RefreshTarget
  \/ \E on \in BOOLEAN : SetEmergencyEmpty(on)
  \/ \E cfg \in FeedConfigs : SetConfig(cfg)
  \/ \E entries \in SUBSET EntryId : ApplyEntries(entries)
  \/ FeedTick
  \/ FeedRestart

FeedSpec == FeedInit /\ [][FeedNext]_feedVars

-----------------------------------------------------------------------------
Balanced(book) ==
  LET h == book.history
  IN  /\ \A i \in 1 .. Len(h) - 1 :
           h[i + 1].inc = h[i].inc + h[i + 1].added - h[i + 1].removed
      /\ h # <<>> => h[Len(h)].inc = Cardinality(book.snapshot)

\* The history adds up: each record's count is the previous one's plus the entries
\* added less those removed, and the last one's is the size of the snapshot, although
\* generations overlap and each was decided from a copy that the other one outdates.
HistoryBalances == Balanced(feedBook)

\* A feed never rewrites to addresses of the target that were resolved longer than
\* stale_target_ttl before, even when another generation refreshes the cache between
\* the copy of the addresses and their use.
TargetFresh == \A g \in Generation : gens[g].pc = "decide" => gens[g].ips # "stale"

\* The emergency switch, on by hand or by the failure of the target, goes off only
\* by the administrator's hand or with a restart: no generation that began before,
\* no reload and no synchronisation turns it off.
EmergencySticks ==
  [][emergency /\ ~emergency' => SetEmergencyEmpty(FALSE) \/ FeedRestart]_feedVars

=============================================================================
