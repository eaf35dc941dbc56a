------------------------------ MODULE CertIssuer ------------------------------
(***************************************************************************)
(* The certificate issuer: a handshake takes the leaf for its SNI from       *)
(* memory, from the disk cache, or has a new one signed, which it stores in  *)
(* both.  Handshakes run side by side and hold the mutex only while they are *)
(* at the cache in memory; a restart may come at any moment, with another    *)
(* intermediate CA, whose disk cache is a directory of its own.              *)
(*                                                                         *)
(* A leaf is the name it is for, the CA that signed it and its NotAfter.     *)
(***************************************************************************)
EXTENDS Naturals, FiniteSets

CONSTANTS Sni,          \* valid host names
          Handshake,    \* handshakes at a time
          CA,           \* intermediate certificates
          CAEnd,        \* CAEnd[c]: the NotAfter of c
          LeafTTL,      \* cache_ttl_hours
          CacheMax,     \* cache_max
          NoLeaf, TornFile, \* no leaf; a file without certificate or key
          ClockMax      \* bound: the time

ASSUME IssuerAssumption ==
  /\ CAEnd \in [CA -> Nat] /\ LeafTTL \in Nat \ {0}
  /\ CacheMax \in Nat \ {0} /\ ClockMax \in Nat

VARIABLES clock,
          ca,        \* i.interCert
          leafCache, \* i.cache: leaf and the time it was used last
          leafDisk,  \* the files under cert.cache_dir
          hs         \* the handshakes

issuerVars == <<clock, ca, leafCache, leafDisk, hs>>

Leaf == [sni : Sni, ca : CA, exp : Nat]
HsIdle == [pc |-> "idle"]

IssuerTypeOK ==
  /\ clock \in 0..ClockMax /\ ca \in CA
  /\ DOMAIN leafCache \subseteq Sni /\ Cardinality(DOMAIN leafCache) <= CacheMax
  /\ \A s \in DOMAIN leafCache : leafCache[s].leaf \in Leaf /\ leafCache[s].used \in 0..clock
  /\ leafDisk \in [CA -> [Sni -> Leaf \cup {TornFile, NoLeaf}]]
  /\ \A h \in Handshake :
       \/ hs[h] = HsIdle
       \/ hs[h].sni \in Sni /\ hs[h].now \in 0..clock /\ hs[h].leaf \in Leaf \cup {NoLeaf}

IssuerInit ==
  /\ clock = 0 /\ ca \in CA
  /\ leafCache = [s \in {} |-> NoLeaf]
  /\ leafDisk = [c \in CA |-> [s \in Sni |-> NoLeaf]]
  /\ hs = [h \in Handshake |-> HsIdle]

\* mutant: one directory for every CA
DiskDirShared(c) == CHOOSE d \in CA : TRUE

\* diskDir of NewIssuer: the fingerprint names the directory.
DiskDir(c) == c

\* certFor: a leaf that is in memory and has not expired is served,
CertFor(h, s) ==
  /\ hs[h].pc \in {"idle", "served"}
  /\ IF s \in DOMAIN leafCache /\ clock < leafCache[s].leaf.exp
     THEN /\ leafCache' = [leafCache EXCEPT ![s].used = clock]
          /\ hs' = [hs EXCEPT ![h] = [pc |-> "served", sni |-> s, now |-> clock,
                                      leaf |-> leafCache[s].leaf]]
     ELSE /\ hs' = [hs EXCEPT ![h] = [pc |-> "load", sni |-> s, now |-> clock, leaf |-> NoLeaf]]
          /\ UNCHANGED leafCache
  /\ UNCHANGED <<clock, ca, leafDisk>>

\* issue: the leaf does not outlive the intermediate.
Issued(s, now) ==
  LET end == now + LeafTTL
  IN  [sni |-> s, ca |-> ca, exp |-> IF end > CAEnd[ca] THEN CAEnd[ca] ELSE end]

\* or else one from the disk (where there is no cache directory every save fails), or else
\* a new one; when the signature fails, so does the handshake.
LoadDisk(h) ==
  LET file == leafDisk[DiskDir(ca)][hs[h].sni]
      usable == file \notin {NoLeaf, TornFile} /\ hs[h].now < file.exp
  IN  /\ hs[h].pc = "load"
      /\ hs' \in IF usable THEN {[hs EXCEPT ![h].pc = "store", ![h].leaf = file]}
                 ELSE {[hs EXCEPT ![h] = HsIdle],
                       [hs EXCEPT ![h].pc = "storeNew",
                                  ![h].leaf = Issued(hs[h].sni, hs[h].now)]}
      /\ UNCHANGED <<clock, ca, leafCache, leafDisk>>

\* evictLocked: one of the least recently used goes when there are too many.
LeavesKept(cache) ==
  IF Cardinality(DOMAIN cache) <= CacheMax THEN {cache}
  ELSE {[s \in DOMAIN cache \ {old} |-> cache[s]] :
          old \in {s \in DOMAIN cache : \A t \in DOMAIN cache : cache[s].used <= cache[t].used}}

\* store: a leaf from the disk is then served, a new one goes to the disk first.
Store(h) ==
  LET s == hs[h].sni
      cache == [t \in DOMAIN leafCache \cup {s} |->
                 IF t = s THEN [leaf |-> hs[h].leaf, used |-> clock] ELSE leafCache[t]]
  IN  /\ hs[h].pc \in {"store", "storeNew"}
      /\ leafCache' \in LeavesKept(cache)
      /\ hs' = [hs EXCEPT ![h].pc = IF @ = "store" THEN "served" ELSE "save"]
      /\ UNCHANGED <<clock, ca, leafDisk>>

\* saveDisk: the file is truncated and written; both may fail, which is ignored, and
\* another handshake may write the same file.
SaveBegins(h) ==
  /\ hs[h].pc = "save"
  /\ \/ leafDisk' = [leafDisk EXCEPT ![DiskDir(ca)][hs[h].sni] = TornFile]
        /\ hs' = [hs EXCEPT ![h].pc = "write"]
     \/ UNCHANGED leafDisk /\ hs' = [hs EXCEPT ![h].pc = "served"]
  /\ UNCHANGED <<clock, ca, leafCache>>

SaveEnds(h) ==
  /\ hs[h].pc = "write"
  /\ leafDisk' \in {leafDisk, [leafDisk EXCEPT ![DiskDir(ca)][hs[h].sni] = hs[h].leaf]}
  /\ hs' = [hs EXCEPT ![h].pc = "served"]
  /\ UNCHANGED <<clock, ca, leafCache>>

\* The process ends at any moment and starts again, with the certificates of the
\* configuration.
IssuerRestart(c) ==
  /\ ca' = c
  /\ leafCache' = [s \in {} |-> NoLeaf]
  /\ hs' = [h \in Handshake |-> HsIdle]
  /\ UNCHANGED <<clock, leafDisk>>

IssuerTick ==
  /\ clock < ClockMax /\ clock' = clock + 1
  /\ UNCHANGED <<ca, leafCache, leafDisk, hs>>

IssuerNext ==
  \/ \E h \in Handshake :
       \/ \E s \in Sni : CertFor(h, s)
       \/ LoadDisk(h) \/ Store(h) \/ SaveBegins(h) \/ SaveEnds(h)
  \/ \E c \in CA : IssuerRestart(c)
  \/ IssuerTick

IssuerSpec == IssuerInit /\ [][IssuerNext]_issuerVars

-----------------------------------------------------------------------------
\* Whatever handshakes and restarts came before, a handshake gets a leaf for its own SNI
\* that the CA in use has signed and outlives, and that had not expired when the handshake
\* began, unless the CA had.
LeafServable ==
  \A h \in Handshake : hs[h].pc = "served" =>
    LET leaf == hs[h].leaf
    IN  /\ leaf.sni = hs[h].sni /\ leaf.ca = ca /\ leaf.exp <= CAEnd[ca]
        /\ hs[h].now < leaf.exp \/ CAEnd[ca] <= hs[h].now

=============================================================================
