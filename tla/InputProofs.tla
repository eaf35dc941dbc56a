----------------------------- MODULE InputProofs -----------------------------
(***************************************************************************)
(* Proofs about what the program reads in order and decides from: the files  *)
(* of the policy directory (PolicyFiles), for any documents, rules and       *)
(* editors; a connection's records (Passthrough) and the CRYPTO frames of a  *)
(* client's packets (InitialCrypto), for any client; the requests that no    *)
(* rule matched (UnmatchedRequests), for any stream of them; and the leaf of *)
(* each handshake (CertIssuer), for any names, CAs and restarts.  The        *)
(* induction that a recursive function needs is proved here for a set of     *)
(* numbers (Inductive).                                                      *)
(***************************************************************************)
EXTENDS PolicyFiles, Passthrough, UnmatchedRequests, InitialCrypto, CertIssuer,
        SequenceTheorems, FiniteSetTheorems, WellFoundedInduction, TLAPS

-----------------------------------------------------------------------------
(* Naturals.  A set has a least element, and one that has 0 and with each    *)
(* number the next has them all: what an induction says of a set instead of  *)
(* a predicate.                                                              *)

LEMMA LeastNat ==
  ASSUME NEW T, T \subseteq Nat, T # {}
  PROVE  \E x \in T : \A y \in T : x <= y
<1> DEFINE R == OpToRel(<, Nat)
<1>1. IsWellFoundedOn(R, Nat)
  BY NatLessThanWellFounded
<1>2. ASSUME NEW x \in Nat, NEW y \in Nat, y < x PROVE <<y, x>> \in R
  BY <1>2, Zenon DEF OpToRel
<1> HIDE DEF R
<1>3. PICK x \in T : \A y \in T : ~ (<<y, x>> \in R)
  BY <1>1, WFMin
<1>4. ASSUME NEW y \in T PROVE x <= y
  <2>1. ~ (y < x)
    BY <1>2, <1>3
  <2>2. QED
    BY <2>1
<1>5. QED
  BY <1>4

LEMMA Inductive ==
  ASSUME NEW T, 0 \in T, \A n \in Nat : n \in T => n + 1 \in T
  PROVE  \A n \in Nat : n \in T
<1>1. SUFFICES ASSUME Nat \ T # {} PROVE FALSE
  OBVIOUS
<1>2. PICK x \in Nat \ T : \A y \in Nat \ T : x <= y
  BY <1>1, LeastNat
<1>3. x # 0 /\ x - 1 \in Nat /\ x - 1 \in T
  BY <1>2
<1>4. QED
  BY <1>2, <1>3

LEMMA OneToN ==
  ASSUME NEW n \in Nat
  PROVE  IsFiniteSet(1..n) /\ Cardinality(1..n) = n
<1>1. 1 \in Int /\ n \in Int
  OBVIOUS
<1>2. IsFiniteSet(1..n) /\ Cardinality(1..n) = IF 1 > n THEN 0 ELSE n - 1 + 1
  BY <1>1, FS_Interval
<1>3. QED
  BY <1>2

\* A recursive function on 0..n that takes a step of its own at each number.
Iterated(S, n, z, step, f) ==
  f \in [0..n -> S] /\ f[0] = z /\ \A k \in 1..n : f[k] = step[k][f[k - 1]]

LEMMA Iterates ==
  ASSUME NEW S, NEW n \in Nat, NEW z \in S, NEW step \in [1..n -> [S -> S]]
  PROVE  \E f : Iterated(S, n, z, step, f)
<1> DEFINE Upto(m, f) == f[0] = z /\ \A k \in 1..m : f[k] = step[k][f[k - 1]]
           T == {m \in Nat : m <= n => \E f \in [0..m -> S] : Upto(m, f)}
<1>1. 0 \in T
  <2> DEFINE f == [k \in 0..0 |-> z]
  <2>1. f \in [0..0 -> S] /\ Upto(0, f)
    OBVIOUS
  <2>2. QED
    BY <2>1
<1>2. ASSUME NEW m \in Nat, m \in T PROVE m + 1 \in T
  <2>1. SUFFICES ASSUME m + 1 <= n PROVE \E f \in [0..m + 1 -> S] : Upto(m + 1, f)
    OBVIOUS
  <2>2. PICK f \in [0..m -> S] : Upto(m, f)
    BY <1>2, <2>1
  <2> DEFINE next == step[m + 1][f[m]]
             g == [k \in 0..m + 1 |-> IF k = m + 1 THEN next ELSE f[k]]
  <2>3. next \in S
    <3>1. f[m] \in S /\ m + 1 \in 1..n
      BY <2>1
    <3>2. QED
      BY <3>1
  <2>4. g \in [0..m + 1 -> S] /\ g[0] = z
    <3>1. g \in [0..m + 1 -> S]
      BY <2>3
    <3>2. f[0] = z
      BY <2>2
    <3>3. QED
      BY <3>1, <3>2
  <2>5. ASSUME NEW k \in 1..m + 1 PROVE g[k] = step[k][g[k - 1]]
    <3>1. CASE k = m + 1
      <4>1. g[k] = next /\ g[k - 1] = f[m]
        BY <3>1
      <4>2. QED
        BY <3>1, <4>1
    <3>2. CASE k \in 1..m
      <4>1. f[k] = step[k][f[k - 1]]
        BY <2>2, <3>2
      <4>2. g[k] = f[k] /\ g[k - 1] = f[k - 1]
        BY <3>2
      <4>3. QED
        BY <4>1, <4>2
    <3>3. QED
      BY <3>1, <3>2
  <2> HIDE DEF g
  <2>6. QED
    BY <2>4, <2>5
<1> HIDE DEF T
<1>3. n \in T
  BY <1>1, <1>2, Inductive
<1>4. QED
  BY <1>3 DEF T, Iterated

\* FlattenSeq appends one sequence after the other.
Concatenated(X, n, seqs, g) ==
  /\ g \in [0..n -> Seq(X)] /\ g[0] = <<>> /\ \A k \in 1..n : g[k] = g[k - 1] \o seqs[k]
  /\ FlattenSeq(seqs) = g[n]

LEMMA Flattened ==
  ASSUME NEW X, NEW n \in Nat, NEW seqs \in [1..n -> Seq(X)]
  PROVE  \E g : Concatenated(X, n, seqs, g)
<1> SUFFICES \E g \in [0..n -> Seq(X)] :
               /\ g[0] = <<>> /\ \A k \in 1..n : g[k] = g[k - 1] \o seqs[k]
               /\ FlattenSeq(seqs) = g[n]
  BY DEF Concatenated
<1>1. seqs \in Seq(Seq(X)) /\ Len(seqs) = n
  <2>1. seqs \in Seq(Seq(X))
    BY SeqDef
  <2>2. DOMAIN seqs = 1..n /\ DOMAIN seqs = 1..Len(seqs) /\ Len(seqs) \in Nat
    BY <2>1, LenProperties
  <2>3. QED
    BY <2>1, <2>2
<1> DEFINE step == [k \in 1..n |-> [s \in Seq(X) |-> s \o seqs[k]]]
<1>2. step \in [1..n -> [Seq(X) -> Seq(X)]]
  <2>1. ASSUME NEW k \in 1..n, NEW s \in Seq(X) PROVE s \o seqs[k] \in Seq(X)
    BY ConcatProperties
  <2>2. QED
    BY <2>1
<1>3. <<>> \in Seq(X)
  BY EmptySeq
<1>4. PICK g \in [0..n -> Seq(X)] :
        g[0] = <<>> /\ \A k \in 1..n : g[k] = step[k][g[k - 1]]
  <2> DEFINE SX == Seq(X)
             e == <<>>
  <2> HIDE DEF step
  <2>1. step \in [1..n -> [SX -> SX]] /\ e \in SX
    BY <1>2, <1>3
  <2> HIDE DEF SX, e
  <2>2. \E g : Iterated(SX, n, e, step, g)
    BY <2>1, Iterates
  <2>3. QED
    BY <2>2 DEF SX, e, Iterated
<1>5. ASSUME NEW k \in 1..n PROVE g[k] = g[k - 1] \o seqs[k]
  <2>1. k - 1 \in 0..n
    OBVIOUS
  <2>2. g[k - 1] \in Seq(X)
    BY <2>1
  <2>3. step[k][g[k - 1]] = g[k - 1] \o seqs[k]
    BY <2>2
  <2>4. QED
    BY <1>4, <2>3
<1> HIDE DEF step
<1>6. CASE n = 0
  <2>1. FlattenSeq(seqs) = seqs
    BY <1>1, <1>6 DEF FlattenSeq
  <2>2. seqs = <<>>
    BY <1>1, <1>6, EmptySeq
  <2>3. QED
    BY <1>4, <1>5, <1>6, <2>1, <2>2
<1>7. CASE n # 0
  <2> DEFINE Equation(F) == F = [i \in 1..n |-> IF i = 1 THEN seqs[i] ELSE F[i - 1] \o seqs[i]]
             h == [i \in 1..n |-> g[i]]
             F == CHOOSE F : Equation(F)
  <2>1. Equation(h)
    <3>1. ASSUME NEW i \in 1..n
          PROVE  h[i] = IF i = 1 THEN seqs[i] ELSE h[i - 1] \o seqs[i]
      <4>1. CASE i = 1
        <5>0. i - 1 = 0
          BY <4>1
        <5>1. g[i] = g[i - 1] \o seqs[i]
          BY <1>5, Zenon
        <5>a. g[i - 1] = <<>>
          BY <1>4, <5>0
        <5>2. g[i] = <<>> \o seqs[i] /\ seqs[i] \in Seq(X)
          BY <5>1, <5>a
        <5>3. QED
          BY <4>1, <5>2, ConcatEmptySeq
      <4>2. CASE i # 1
        <5>1. g[i] = g[i - 1] \o seqs[i]
          BY <1>5
        <5>2. h[i] = g[i] /\ i - 1 \in 1..n /\ h[i - 1] = g[i - 1]
          BY <4>2
        <5>3. QED
          BY <4>2, <5>1, <5>2
      <4>3. QED
        BY <4>1, <4>2
    <3>2. QED
      BY <3>1
  <2>2. FlattenSeq(seqs) = F[n]
    BY <1>1, <1>7 DEF FlattenSeq
  <2> HIDE DEF Equation, h
  <2>3. Equation(F)
    BY <2>1
  <2> HIDE DEF F
  <2>4. ASSUME NEW i \in 1..n PROVE F[i] = IF i = 1 THEN seqs[i] ELSE F[i - 1] \o seqs[i]
    BY <2>3, Zenon DEF Equation
  <2> DEFINE U == {k \in Nat : k \in 1..n => F[k] = g[k]}
  <2>5. 0 \in U
    OBVIOUS
  <2>6. ASSUME NEW k \in Nat, k \in U PROVE k + 1 \in U
    <3>1. SUFFICES ASSUME k + 1 \in 1..n PROVE F[k + 1] = g[k + 1]
      OBVIOUS
    <3>2. g[k + 1] = g[k] \o seqs[k + 1]
      <4>1. g[k + 1] = g[(k + 1) - 1] \o seqs[k + 1]
        BY <1>5, <3>1, Zenon
      <4>2. (k + 1) - 1 = k
        OBVIOUS
      <4>3. QED
        BY <4>1, <4>2
    <3>3. CASE k = 0
      <4>1. F[k + 1] = seqs[k + 1]
        BY <2>4, <3>1, <3>3
      <4>2. QED
        BY <1>4, <3>1, <3>2, <3>3, <4>1, ConcatEmptySeq
    <3>4. CASE k # 0
      <4>1. F[k] = g[k]
        BY <2>6, <3>1, <3>4
      <4>2. F[k + 1] = IF k + 1 = 1 THEN seqs[k + 1] ELSE F[(k + 1) - 1] \o seqs[k + 1]
        BY <2>4, <3>1, Zenon
      <4>3. (k + 1) - 1 = k /\ k + 1 # 1
        BY <3>4
      <4>4. QED
        BY <3>2, <4>1, <4>2, <4>3
    <3>5. QED
      BY <3>3, <3>4
  <2> HIDE DEF U
  <2>7. n \in U
    BY <2>5, <2>6, Inductive
  <2>8. F[n] = g[n]
    BY <1>7, <2>7 DEF U
  <2>9. QED
    BY <1>4, <1>5, <2>2, <2>8
<1>8. QED
  BY <1>6, <1>7

-----------------------------------------------------------------------------
(* PolicyFiles.                                                              *)

Doc == PolicyDocs \cup {Truncated}

\* AllRules by its recursion: rs[k] are the rules of the first k documents.
Appended(docs, rs) ==
  rs = [k \in 0..Len(docs) |-> IF k = 0 THEN <<>> ELSE rs[k - 1] \o docs[k].rules]

LEMMA AllRulesAppends ==
  ASSUME NEW docs, Len(docs) \in Nat
  PROVE  \E rs : Appended(docs, rs) /\ AllRules(docs) = rs[Len(docs)]
<1> DEFINE Upto(n, f) == f = [k \in 0..n |-> IF k = 0 THEN <<>> ELSE f[k - 1] \o docs[k].rules]
           T == {n \in Nat : \E f : Upto(n, f)}
<1>1. 0 \in T
  <2> DEFINE f == [k \in 0..0 |-> <<>>]
  <2>1. Upto(0, f)
    OBVIOUS
  <2>2. QED
    BY <2>1
<1>2. ASSUME NEW n \in Nat, n \in T PROVE n + 1 \in T
  <2>1. PICK f : Upto(n, f)
    BY <1>2
  <2> DEFINE g == [k \in 0..n + 1 |-> IF k = n + 1 THEN f[n] \o docs[n + 1].rules ELSE f[k]]
  <2>2. ASSUME NEW k \in 0..n + 1
        PROVE  g[k] = IF k = 0 THEN <<>> ELSE g[k - 1] \o docs[k].rules
    <3>1. CASE k = n + 1
      BY <3>1
    <3>2. CASE k \in 0..n
      <4>1. f[k] = IF k = 0 THEN <<>> ELSE f[k - 1] \o docs[k].rules
        BY <2>1, <3>2
      <4>2. g[k] = f[k] /\ (k # 0 => g[k - 1] = f[k - 1])
        BY <3>2
      <4>3. QED
        BY <4>1, <4>2
    <3>3. QED
      BY <3>1, <3>2
  <2>3. Upto(n + 1, g)
    BY <2>2
  <2> HIDE DEF g, Upto
  <2>4. \E f2 : Upto(n + 1, f2)
    BY <2>3
  <2>5. QED
    BY <2>4
<1> HIDE DEF T
<1>3. Len(docs) \in T
  BY <1>1, <1>2, Inductive
<1>4. \E f : Upto(Len(docs), f)
  BY <1>3 DEF T
<1>5. QED
  BY <1>4 DEF Appended, AllRules

LEMMA DocRules ==
  ASSUME NEW doc \in Doc
  PROVE  doc.rules \in Seq(PolicyRule)
<1>1. CASE doc \in PolicyDocs
  BY <1>1, PolicyAssumption
<1>2. CASE doc = Truncated
  <2>1. doc.rules = <<>>
    BY <1>2 DEF Truncated
  <2>2. QED
    BY <2>1, EmptySeq
<1>3. QED
  BY <1>1, <1>2 DEF Doc

\* The rules of document f are those from off[f] + 1 on, and nothing else is there.
LaidOut(docs, all, off) ==
  /\ off \in [1..Len(docs) -> Nat] /\ all \in Seq(PolicyRule)
  /\ \A f \in 1..Len(docs) : \A j \in 1..Len(docs[f].rules) :
       off[f] + j \in 1..Len(all) /\ all[off[f] + j] = docs[f].rules[j]
  /\ \A i \in 1..Len(all) :
       \E f \in 1..Len(docs) : \E j \in 1..Len(docs[f].rules) : i = off[f] + j
  /\ \A f, g \in 1..Len(docs) : f < g => off[f] + Len(docs[f].rules) <= off[g]

LEMMA RulesLaidOut ==
  ASSUME NEW docs \in Seq(Doc)
  PROVE  \E off : LaidOut(docs, AllRules(docs), off)
<1> DEFINE n == Len(docs)
<1>1. n \in Nat /\ \A f \in 1..n : docs[f].rules \in Seq(PolicyRule) /\ Len(docs[f].rules) \in Nat
  BY LenProperties, ElementOfSeq, DocRules
<1>2. PICK rs : Appended(docs, rs) /\ AllRules(docs) = rs[n]
  BY <1>1, AllRulesAppends
<1>3. rs[0] = <<>> /\ \A k \in 0..n - 1 : rs[k + 1] = rs[k] \o docs[k + 1].rules
  <2>1. ASSUME NEW k \in 0..n
        PROVE  rs[k] = IF k = 0 THEN <<>> ELSE rs[k - 1] \o docs[k].rules
    BY <1>2, Zenon DEF Appended
  <2>2. ASSUME NEW k \in 0..n - 1 PROVE rs[k + 1] = rs[k] \o docs[k + 1].rules
    <3>1. k + 1 \in 0..n /\ k + 1 # 0 /\ (k + 1) - 1 = k
      BY <1>1
    <3>2. QED
      BY <2>1, <3>1
  <2>3. rs[0] = <<>>
    <3>1. 0 \in 0..n
      BY <1>1
    <3>2. QED
      BY <2>1, <3>1
  <2>4. QED
    BY <2>2, <2>3
<1> HIDE DEF n
<1> DEFINE Good(k) ==
      /\ rs[k] \in Seq(PolicyRule)
      /\ \A h \in 0..k : Len(rs[h]) \in Nat /\ Len(rs[h]) <= Len(rs[k])
      /\ \A f \in 1..k : \A j \in 1..Len(docs[f].rules) :
           Len(rs[f - 1]) + j \in 1..Len(rs[k]) /\ rs[k][Len(rs[f - 1]) + j] = docs[f].rules[j]
      /\ \A i \in 1..Len(rs[k]) :
           \E f \in 1..k : \E j \in 1..Len(docs[f].rules) : i = Len(rs[f - 1]) + j
    T == {k \in Nat : k <= n => Good(k)}
<1>4. Good(0)
  <2>1. rs[0] \in Seq(PolicyRule) /\ Len(rs[0]) = 0
    BY <1>3, EmptySeq
  <2>2. QED
    BY <2>1
<1>5. ASSUME NEW k \in Nat, k + 1 <= n, Good(k) PROVE Good(k + 1)
  <2> DEFINE new == docs[k + 1].rules
             old == rs[k]
  <2>1. k \in 0..n - 1 /\ k + 1 \in 1..n
    BY <1>1, <1>5
  <2>2. old \in Seq(PolicyRule) /\ new \in Seq(PolicyRule) /\ Len(old) \in Nat /\ Len(new) \in Nat
    BY <1>1, <1>5, <2>1, LenProperties
  <2>a. rs[k + 1] = old \o new
    BY <1>3, <2>1
  <2> HIDE DEF new, old
  <2>3. /\ rs[k + 1] = old \o new
        /\ rs[k + 1] \in Seq(PolicyRule) /\ Len(rs[k + 1]) = Len(old) + Len(new)
        /\ \A i \in 1..Len(old) + Len(new) :
             rs[k + 1][i] = IF i <= Len(old) THEN old[i] ELSE new[i - Len(old)]
    BY <2>2, <2>a, ConcatProperties
  <2> DEFINE nn == rs[k + 1]
  <2> HIDE DEF nn
  <2>0. rs[k] = old /\ rs[k + 1] = nn /\ docs[k + 1].rules = new
    BY DEF new, old, nn
  <2>4. ASSUME NEW h \in 0..k + 1 PROVE Len(rs[h]) \in Nat /\ Len(rs[h]) <= Len(nn)
    <3>1. CASE h = k + 1
      BY <2>0, <2>2, <2>3, <3>1
    <3>2. CASE h \in 0..k
      <4>1. Len(rs[h]) \in Nat /\ Len(rs[h]) <= Len(old)
        BY <1>5, <2>0, <3>2
      <4>2. QED
        BY <2>0, <2>2, <2>3, <4>1
    <3>3. QED
      BY <3>1, <3>2
  <2>5. ASSUME NEW f \in 1..k + 1, NEW j \in 1..Len(docs[f].rules)
        PROVE  Len(rs[f - 1]) + j \in 1..Len(nn) /\ nn[Len(rs[f - 1]) + j] = docs[f].rules[j]
    <3>1. CASE f = k + 1
      <4>1. rs[f - 1] = old /\ docs[f].rules = new /\ j \in 1..Len(new)
        <5>1. f - 1 = k
          BY <3>1
        <5>2. QED
          BY <2>0, <3>1, <5>1
      <4>2. Len(old) + j \in 1..Len(old) + Len(new) /\ ~(Len(old) + j <= Len(old))
            /\ (Len(old) + j) - Len(old) = j
        BY <2>2, <4>1
      <4>3. QED
        BY <2>0, <2>3, <4>1, <4>2
    <3>2. CASE f \in 1..k
      <4>1. Len(rs[f - 1]) + j \in 1..Len(old) /\ old[Len(rs[f - 1]) + j] = docs[f].rules[j]
        BY <1>5, <2>0, <3>2
      <4>2. Len(rs[f - 1]) + j \in 1..Len(old) + Len(new) /\ Len(rs[f - 1]) + j <= Len(old)
        BY <2>2, <4>1
      <4>3. QED
        BY <2>0, <2>3, <4>1, <4>2
    <3>3. QED
      BY <3>1, <3>2
  <2>6. ASSUME NEW i \in 1..Len(nn)
        PROVE  \E f \in 1..k + 1 : \E j \in 1..Len(docs[f].rules) : i = Len(rs[f - 1]) + j
    <3>1. CASE i <= Len(old)
      <4>1. i \in 1..Len(old)
        BY <2>2, <3>1
      <4>2. PICK f \in 1..k : \E j \in 1..Len(docs[f].rules) : i = Len(rs[f - 1]) + j
        BY <1>5, <2>0, <4>1
      <4>3. f \in 1..k + 1
        OBVIOUS
      <4>4. QED
        BY <4>2, <4>3
    <3>2. CASE i > Len(old)
      <4>1. i - Len(old) \in 1..Len(new) /\ i = Len(old) + (i - Len(old))
        BY <2>0, <2>2, <2>3, <3>2
      <4>2. k + 1 \in 1..k + 1 /\ (k + 1) - 1 = k
        OBVIOUS
      <4>3. i - Len(old) \in 1..Len(docs[k + 1].rules)
            /\ i = Len(rs[(k + 1) - 1]) + (i - Len(old))
        BY <2>0, <4>1, <4>2
      <4>4. QED
        BY <4>2, <4>3
    <3>3. QED
      BY <2>0, <2>2, <2>3, <3>1, <3>2
  <2>7. QED
    BY <2>0, <2>3, <2>4, <2>5, <2>6
<1> HIDE DEF Good
<1>6. n \in T
  <2>1. 0 \in T
    BY <1>4
  <2>2. ASSUME NEW k \in Nat, k \in T PROVE k + 1 \in T
    BY <1>1, <1>5, <2>2
  <2> HIDE DEF T
  <2>3. QED
    BY <1>1, <2>1, <2>2, Inductive
<1>7. \A k \in 0..n : Good(k)
  <2>1. 0 \in T
    BY <1>4
  <2>2. ASSUME NEW k \in Nat, k \in T PROVE k + 1 \in T
    BY <1>1, <1>5, <2>2
  <2> HIDE DEF T
  <2>3. \A k \in Nat : k \in T
    BY <2>1, <2>2, Inductive
  <2>4. QED
    BY <1>1, <2>3 DEF T
<1> DEFINE off == [f \in 1..n |-> Len(rs[f - 1])]
<1>8. ASSUME NEW f \in 1..n PROVE off[f] = Len(rs[f - 1]) /\ off[f] \in Nat
  <2>1. f - 1 \in 0..n
    BY <1>1
  <2>2. f - 1 \in 0..f - 1
    BY <1>1
  <2>3. QED
    BY <1>7, <2>1, <2>2 DEF Good
<1>9. ASSUME NEW f \in 1..n, NEW g \in 1..n, f < g
      PROVE  off[f] + Len(docs[f].rules) <= off[g]
  <2>1. f - 1 \in 0..n - 1 /\ (f - 1) + 1 = f /\ g - 1 \in 0..n /\ f \in 0..g - 1 /\ f \in 0..n
        /\ f - 1 \in 0..n
    BY <1>1, <1>9
  <2>2. rs[f - 1] \in Seq(PolicyRule) /\ docs[f].rules \in Seq(PolicyRule)
        /\ rs[f] = rs[f - 1] \o docs[f].rules
    BY <1>1, <1>3, <1>7, <2>1 DEF Good
  <2>3. Len(rs[f]) = Len(rs[f - 1]) + Len(docs[f].rules)
    BY <2>2, ConcatProperties
  <2>4. Len(rs[f]) <= Len(rs[g - 1])
    BY <1>7, <2>1 DEF Good
  <2>5. QED
    BY <1>8, <2>3, <2>4
<1>10. n \in 0..n
  BY <1>1
<1> HIDE DEF off
<1>11. Good(n)
  BY <1>7, <1>10
<1>12. off \in [1..n -> Nat]
  BY <1>8 DEF off
<1>13. LaidOut(docs, rs[n], off)
  <2>1. ASSUME NEW i \in 1..Len(rs[n])
        PROVE \E f \in 1..n : \E j \in 1..Len(docs[f].rules) : i = off[f] + j
    <3>1. PICK f \in 1..n : \E j \in 1..Len(docs[f].rules) : i = Len(rs[f - 1]) + j
      BY <1>11 DEF Good
    <3>2. QED
      BY <1>8, <3>1
  <2>2. \A f \in 1..n : \A j \in 1..Len(docs[f].rules) :
          off[f] + j \in 1..Len(rs[n]) /\ rs[n][off[f] + j] = docs[f].rules[j]
    BY <1>8, <1>11 DEF Good
  <2>3. rs[n] \in Seq(PolicyRule)
    BY <1>11 DEF Good
  <2>4. QED
    BY <1>9, <1>12, <2>1, <2>2, <2>3 DEF LaidOut, n
<1>14. QED
  BY <1>2, <1>13

\* The order in which a stable sort puts the rules, and the place it gives to each.
PrioBefore(rs, i, j) == rs[i].prio < rs[j].prio \/ (rs[i].prio = rs[j].prio /\ i < j)
Ahead(rs, i) == {j \in DOMAIN rs : PrioBefore(rs, j, i)}
PlaceOf(rs, i) == Cardinality(Ahead(rs, i)) + 1

LEMMA RulePrio ==
  ASSUME NEW rs \in Seq(PolicyRule), NEW i \in 1..Len(rs)
  PROVE  rs[i].prio \in Int
<1>1. rs[i] \in PolicyRule
  BY ElementOfSeq
<1>2. QED
  BY <1>1 DEF PolicyRule

LEMMA PlacesOrdered ==
  ASSUME NEW rs \in Seq(PolicyRule), NEW i \in 1..Len(rs)
  PROVE  /\ PlaceOf(rs, i) \in 1..Len(rs)
         /\ \A k \in 1..Len(rs) : PrioBefore(rs, i, k) => PlaceOf(rs, i) < PlaceOf(rs, k)
<1> DEFINE n == Len(rs)
<1>1. n \in Nat /\ DOMAIN rs = 1..n
  BY LenProperties
<1>2. \A k \in 1..n : rs[k].prio \in Int
  BY RulePrio
<1>3. IsFiniteSet(1..n) /\ Cardinality(1..n) = n
  BY <1>1, OneToN
<1>4. \A k \in 1..n : Ahead(rs, k) \subseteq 1..n
  BY <1>1 DEF Ahead
<1>5. ASSUME NEW k \in 1..n PROVE IsFiniteSet(Ahead(rs, k)) /\ Cardinality(Ahead(rs, k)) \in Nat
  BY <1>3, <1>4, FS_Subset, FS_CardinalityType
<1> HIDE DEF n
<1>6. PlaceOf(rs, i) \in 1..n
  <2>1. i \in 1..n
    BY DEF n
  <2>2. i \notin Ahead(rs, i)
    BY <1>1, <1>2, <2>1 DEF Ahead, PrioBefore
  <2>3. Ahead(rs, i) \subseteq 1..n \ {i}
    BY <1>4, <2>1, <2>2
  <2>4. IsFiniteSet(1..n \ {i}) /\ Cardinality(1..n \ {i}) = n - 1
    BY <1>3, <2>1, FS_RemoveElement
  <2>5. Cardinality(Ahead(rs, i)) <= n - 1
    BY <2>3, <2>4, FS_Subset
  <2>6. QED
    BY <1>1, <1>5, <2>1, <2>5 DEF PlaceOf
<1>7. ASSUME NEW k \in 1..n, PrioBefore(rs, i, k) PROVE PlaceOf(rs, i) < PlaceOf(rs, k)
  <2>1. i \in 1..n
    BY DEF n
  <2>2. i \notin Ahead(rs, i) /\ i \in Ahead(rs, k)
    BY <1>1, <1>2, <1>7, <2>1 DEF Ahead, PrioBefore
  <2>3. ASSUME NEW j \in Ahead(rs, i) PROVE j \in Ahead(rs, k)
    <3>1. j \in 1..n /\ PrioBefore(rs, j, i)
      BY <1>4, <2>1, <2>3 DEF Ahead
    <3>2. rs[j].prio \in Int /\ rs[i].prio \in Int /\ rs[k].prio \in Int
      BY <1>2, <2>1, <3>1
    <3>3. PrioBefore(rs, j, k)
      BY <1>7, <2>1, <3>1, <3>2 DEF PrioBefore
    <3>4. QED
      BY <1>1, <3>1, <3>3 DEF Ahead
  <2>4. IsFiniteSet(Ahead(rs, i)) /\ Cardinality(Ahead(rs, i)) \in Nat
    BY <1>5, <2>1
  <2>5. IsFiniteSet(Ahead(rs, k)) /\ Cardinality(Ahead(rs, k)) \in Nat
    BY <1>5
  <2>6. Cardinality(Ahead(rs, i) \cup {i}) = Cardinality(Ahead(rs, i)) + 1
    BY <2>2, <2>4, FS_AddElement
  <2>7. Ahead(rs, i) \cup {i} \subseteq Ahead(rs, k)
    BY <2>2, <2>3
  <2>8. Cardinality(Ahead(rs, i)) + 1 <= Cardinality(Ahead(rs, k))
    BY <2>5, <2>6, <2>7, FS_Subset
  <2>9. QED
    BY <2>4, <2>5, <2>8 DEF PlaceOf
<1>8. QED
  BY <1>6, <1>7 DEF n

\* ByPriority is a permutation into that order.
LEMMA SortedByPriority ==
  ASSUME NEW rs \in Seq(PolicyRule)
  PROVE  \E idx \in [1..Len(rs) -> 1..Len(rs)] :
           /\ ByPriority(rs) = [p \in 1..Len(rs) |-> rs[idx[p]]]
           /\ \A i \in 1..Len(rs) : \E p \in 1..Len(rs) : idx[p] = i
           /\ \A p, q \in 1..Len(rs) : p < q => PrioBefore(rs, idx[p], idx[q])
<1> DEFINE n == Len(rs)
           P == [i \in 1..n |-> PlaceOf(rs, i)]
           idx == [p \in 1..n |-> CHOOSE i \in 1..n : PlaceOf(rs, i) = p]
<1>1. n \in Nat /\ DOMAIN rs = 1..n /\ \A i \in 1..n : rs[i].prio \in Int
  <2>1. n \in Nat /\ DOMAIN rs = 1..n
    BY LenProperties
  <2>2. \A i \in 1..n : rs[i].prio \in Int
    BY RulePrio
  <2>3. QED
    BY <2>1, <2>2
<1>2. \A i \in 1..n : PlaceOf(rs, i) \in 1..n
                      /\ \A k \in 1..n : PrioBefore(rs, i, k) => PlaceOf(rs, i) < PlaceOf(rs, k)
  BY PlacesOrdered
<1>3. IsFiniteSet(1..n)
  BY <1>1, OneToN
<1>4. ByPriority(rs) = [p \in 1..n |-> rs[idx[p]]]
  BY <1>1 DEF ByPriority, PlaceOf, Ahead, PrioBefore
<1> HIDE DEF n
<1>5. \A i, k \in 1..n : i = k \/ PrioBefore(rs, i, k) \/ PrioBefore(rs, k, i)
  BY <1>1 DEF PrioBefore
<1>6. ASSUME NEW i \in 1..n, NEW k \in 1..n, PlaceOf(rs, i) = PlaceOf(rs, k) PROVE i = k
  <2>1. PlaceOf(rs, i) \in 1..n
    BY <1>2
  <2>2. ~ (PlaceOf(rs, i) < PlaceOf(rs, k)) /\ ~ (PlaceOf(rs, k) < PlaceOf(rs, i))
    BY <1>6, <2>1
  <2>3. QED
    BY <1>2, <1>5, <2>2
<1>7. P \in Injection(1..n, 1..n)
  BY <1>2, <1>6 DEF Injection, IsInjective
<1>8. P \in Surjection(1..n, 1..n)
  BY <1>3, <1>7, FS_Injection
<1>9. ASSUME NEW p \in 1..n PROVE idx[p] \in 1..n /\ PlaceOf(rs, idx[p]) = p
  <2>1. \E i \in 1..n : PlaceOf(rs, i) = p
    BY <1>8 DEF Surjection
  <2>2. QED
    BY <2>1
<1>10. idx \in [1..n -> 1..n]
  BY <1>9
<1> HIDE DEF idx, P
<1>11. \A i \in 1..n : \E p \in 1..n : idx[p] = i
  BY <1>2, <1>6, <1>9
<1>12. ASSUME NEW p \in 1..n, NEW q \in 1..n, p < q PROVE PrioBefore(rs, idx[p], idx[q])
  <2>1. idx[p] \in 1..n /\ idx[q] \in 1..n
    BY <1>9
  <2>2. ~ (PlaceOf(rs, idx[q]) < PlaceOf(rs, idx[p])) /\ PlaceOf(rs, idx[q]) # PlaceOf(rs, idx[p])
    BY <1>9, <1>12
  <2>3. QED
    BY <1>2, <1>5, <2>1, <2>2
<1>13. QED
  BY <1>4, <1>10, <1>11, <1>12 DEF n

\* The documents of a Load that went well so far.
DocsRead(docs) ==
  /\ docs \in Seq(Doc)
  /\ \A f \in 1..Len(docs) : Compiles(docs[f])
  /\ NamesUnique(AllRules(docs))

\* A rule's place in its directory and its place among all rules are the same order.
LEMMA PlacedRules ==
  ASSUME ruleDocs \in Seq(Doc), NEW off, LaidOut(ruleDocs, AllRules(ruleDocs), off)
  PROVE  LET rs == AllRules(ruleDocs)
             at(p) == off[p[1]] + p[2]
         IN  /\ \A p \in Placed : at(p) \in 1..Len(rs) /\ RuleAt(p) = rs[at(p)]
                                  /\ p[1] \in 1..Len(ruleDocs)
                                  /\ p[2] \in 1..Len(ruleDocs[p[1]].rules)
             /\ \A i \in 1..Len(rs) : \E p \in Placed : at(p) = i
             /\ \A p, q \in Placed : at(p) = at(q) => p = q
             /\ \A p, q \in Placed : at(p) < at(q) => p[1] < q[1] \/ (p[1] = q[1] /\ p[2] < q[2])
<1> DEFINE rs == AllRules(ruleDocs)
           n == Len(ruleDocs)
           at(p) == off[p[1]] + p[2]
<1>1. n \in Nat /\ DOMAIN ruleDocs = 1..n
  BY LenProperties
<1>2. ASSUME NEW f \in 1..n
      PROVE  Len(ruleDocs[f].rules) \in Nat /\ DOMAIN ruleDocs[f].rules = 1..Len(ruleDocs[f].rules)
  <2>1. ruleDocs[f].rules \in Seq(PolicyRule)
    BY ElementOfSeq, DocRules
  <2>2. QED
    BY <2>1, LenProperties
<1>3. ASSUME NEW p \in Placed
      PROVE  /\ p = <<p[1], p[2]>> /\ p[1] \in 1..n /\ p[2] \in 1..Len(ruleDocs[p[1]].rules)
             /\ at(p) \in 1..Len(rs) /\ RuleAt(p) = rs[at(p)]
  <2>1. PICK f \in DOMAIN ruleDocs : p \in {<<f, k>> : k \in DOMAIN ruleDocs[f].rules}
    BY DEF Placed
  <2>2. PICK k \in DOMAIN ruleDocs[f].rules : p = <<f, k>>
    BY <2>1
  <2>3. p[1] = f /\ p[2] = k /\ f \in 1..n /\ k \in 1..Len(ruleDocs[f].rules)
    BY <1>1, <1>2, <2>2
  <2>4. off[f] + k \in 1..Len(rs) /\ rs[off[f] + k] = ruleDocs[f].rules[k]
    BY <2>3 DEF LaidOut
  <2>5. QED
    BY <2>2, <2>3, <2>4 DEF RuleAt
<1>4. ASSUME NEW f \in 1..n, NEW k \in 1..Len(ruleDocs[f].rules) PROVE <<f, k>> \in Placed
  BY <1>1, <1>2 DEF Placed
<1>5. ASSUME NEW i \in 1..Len(rs) PROVE \E p \in Placed : at(p) = i
  <2>0. PICK f \in 1..n : \E k \in 1..Len(ruleDocs[f].rules) : i = off[f] + k
    BY DEF LaidOut
  <2>1. PICK k \in 1..Len(ruleDocs[f].rules) : i = off[f] + k
    BY <2>0
  <2>2. <<f, k>> \in Placed /\ at(<<f, k>>) = i
    BY <1>4, <2>1
  <2>3. QED
    BY <2>2
<1>6. ASSUME NEW p \in Placed, NEW q \in Placed, p[1] < q[1] PROVE at(p) < at(q)
  <2>1. off[p[1]] + Len(ruleDocs[p[1]].rules) <= off[q[1]]
    BY <1>3, <1>6 DEF LaidOut
  <2>2. /\ off[p[1]] \in Nat /\ off[q[1]] \in Nat /\ Len(ruleDocs[p[1]].rules) \in Nat
        /\ p[2] \in 1..Len(ruleDocs[p[1]].rules) /\ q[2] \in 1..Len(ruleDocs[q[1]].rules)
        /\ Len(ruleDocs[q[1]].rules) \in Nat
    BY <1>2, <1>3 DEF LaidOut
  <2> DEFINE a == off[p[1]]
             b == off[q[1]]
             len == Len(ruleDocs[p[1]].rules)
             i == p[2]
             j == q[2]
  <2>3. a \in Nat /\ b \in Nat /\ len \in Nat /\ a + len <= b
    BY <2>1, <2>2
  <2>4. i \in Nat /\ i <= len /\ j \in Nat /\ 0 < j
    BY <2>2
  <2> HIDE DEF a, b, len, i, j
  <2>5. a + i < b + j
    BY <2>3, <2>4
  <2>6. QED
    BY <2>5 DEF a, b, i, j
<1>7. ASSUME NEW p \in Placed, NEW q \in Placed
      PROVE  /\ at(p) \in Nat /\ at(q) \in Nat /\ p[1] \in Nat /\ q[1] \in Nat
             /\ p[2] \in Nat /\ q[2] \in Nat /\ off[p[1]] \in Nat /\ off[q[1]] \in Nat
  <2>1. /\ off[p[1]] \in Nat /\ off[q[1]] \in Nat /\ p[1] \in 1..n /\ q[1] \in 1..n
        /\ p[2] \in 1..Len(ruleDocs[p[1]].rules) /\ q[2] \in 1..Len(ruleDocs[q[1]].rules)
    BY <1>3 DEF LaidOut
  <2>2. Len(ruleDocs[p[1]].rules) \in Nat /\ Len(ruleDocs[q[1]].rules) \in Nat
    BY <1>2, <2>1
  <2>3. p[1] \in Nat /\ q[1] \in Nat /\ p[2] \in Nat /\ q[2] \in Nat
    BY <1>1, <2>1, <2>2
  <2>4. ASSUME NEW a \in Nat, NEW b \in Nat PROVE a + b \in Nat
    OBVIOUS
  <2>5. off[p[1]] + p[2] \in Nat /\ off[q[1]] + q[2] \in Nat
    BY <2>1, <2>3, <2>4, Zenon
  <2>6. QED
    BY <2>1, <2>3, <2>5, Zenon
<1> HIDE DEF n
<1>8. ASSUME NEW p \in Placed, NEW q \in Placed, at(p) = at(q) PROVE p = q
  <2>1. p[1] = q[1]
    BY <1>6, <1>7, <1>8
  <2>2. p[2] = q[2]
    BY <1>7, <1>8, <2>1
  <2>3. QED
    BY <1>3, <2>1, <2>2
<1>9. ASSUME NEW p \in Placed, NEW q \in Placed, at(p) < at(q)
      PROVE  p[1] < q[1] \/ (p[1] = q[1] /\ p[2] < q[2])
  <2>1. ~ (q[1] < p[1])
    BY <1>6, <1>7, <1>9
  <2>2. CASE p[1] = q[1]
    BY <1>7, <1>9, <2>2
  <2>3. QED
    BY <1>7, <2>1, <2>2
<1>10. QED
  BY <1>3, <1>5, <1>8, <1>9 DEF n

\* Match finds the rule that comes first, whatever documents were read.
LEMMA FirstRuleDecides ==
  ASSUME DocsRead(ruleDocs), ruleset = Ruleset(ruleDocs)
  PROVE  MatchIsFirst
<1> DEFINE rs == AllRules(ruleDocs)
           n == Len(rs)
<1>1. PICK off : LaidOut(ruleDocs, rs, off)
  BY RulesLaidOut DEF DocsRead
<1> DEFINE at(p) == off[p[1]] + p[2]
<1>2. /\ \A p \in Placed : at(p) \in 1..n /\ RuleAt(p) = rs[at(p)]
                           /\ p[1] \in 1..Len(ruleDocs) /\ p[2] \in 1..Len(ruleDocs[p[1]].rules)
      /\ \A i \in 1..n : \E p \in Placed : at(p) = i
      /\ \A p, q \in Placed : at(p) = at(q) => p = q
      /\ \A p, q \in Placed : at(p) < at(q) => p[1] < q[1] \/ (p[1] = q[1] /\ p[2] < q[2])
  BY <1>1, PlacedRules DEF DocsRead
<1>3. rs \in Seq(PolicyRule) /\ n \in Nat /\ DOMAIN rs = 1..n
  BY <1>1, LenProperties DEF LaidOut
<1>4. PICK idx \in [1..n -> 1..n] :
        /\ ByPriority(rs) = [p \in 1..n |-> rs[idx[p]]]
        /\ \A i \in 1..n : \E p \in 1..n : idx[p] = i
        /\ \A p, q \in 1..n : p < q => PrioBefore(rs, idx[p], idx[q])
  BY <1>3, SortedByPriority
<1>5. /\ ruleset.rules = [k \in 1..n |-> rs[idx[k]]] /\ ruleset.def = DefaultOf(ruleDocs)
      /\ DOMAIN ruleset.rules = 1..n /\ \A k \in 1..n : ruleset.rules[k] = rs[idx[k]]
  <2>1. ruleset.rules = ByPriority(rs) /\ ruleset.def = DefaultOf(ruleDocs)
    BY DEF Ruleset
  <2>2. QED
    BY <1>4, <2>1
<1> HIDE DEF rs, n, at
<1>6. ASSUME NEW p \in Placed PROVE RuleAt(p).ok
  <2>1. p[1] \in 1..Len(ruleDocs) /\ p[2] \in 1..Len(ruleDocs[p[1]].rules)
    BY <1>2
  <2>2. ruleDocs[p[1]].rules \in Seq(PolicyRule)
    BY <2>1, ElementOfSeq, DocRules DEF DocsRead
  <2>3. p[2] \in DOMAIN ruleDocs[p[1]].rules
    BY <2>1, <2>2, LenProperties
  <2>4. QED
    BY <2>1, <2>3 DEF DocsRead, Compiles, RuleAt
<1>7. ASSUME NEW p \in Placed, NEW q \in Placed, RuleAt(p).name = RuleAt(q).name PROVE p = q
  <2>1. at(p) = at(q)
    BY <1>2, <1>3, <1>7 DEF DocsRead, NamesUnique, rs
  <2>2. QED
    BY <1>2, <2>1
<1>8. ASSUME NEW p \in Placed, NEW q \in Placed, PrioBefore(rs, at(p), at(q)) PROVE Precedes(p, q)
  BY <1>2, <1>8 DEF PrioBefore, Precedes
<1>9. ASSUME NEW request \in RequestKind
      PROVE  LET matching == {p \in Placed : request \in RuleAt(p).reqs}
                 decided == Match(ruleset, request)
             IN  IF matching = {} THEN decided = DefaultOf(ruleDocs)
                 ELSE \E p \in matching : /\ decided = RuleAt(p).name
                                          /\ \A q \in matching \ {p} : Precedes(p, q)
  <2> DEFINE matching == {p \in Placed : request \in RuleAt(p).reqs}
             M == {k \in 1..n : request \in rs[idx[k]].reqs}
             k0 == CHOOSE k \in M : \A j \in M : k <= j
  <2>1. Match(ruleset, request) = IF M = {} THEN DefaultOf(ruleDocs) ELSE rs[idx[k0]].name
    <3> DEFINE MM == {k \in DOMAIN ruleset.rules : request \in ruleset.rules[k].reqs}
    <3>1. MM = M
      BY <1>5
    <3>a. Match(ruleset, request)
            = IF MM = {} THEN ruleset.def
              ELSE ruleset.rules[CHOOSE k \in MM : \A j \in MM : k <= j].name
      BY DEF Match
    <3> HIDE DEF MM
    <3>2. Match(ruleset, request)
            = IF M = {} THEN ruleset.def
              ELSE ruleset.rules[CHOOSE k \in M : \A j \in M : k <= j].name
      BY <3>1, <3>a
    <3>3. M # {} => k0 \in M
      <4>1. M \subseteq Nat
        BY <1>3
      <4>2. QED
        BY <4>1, LeastNat
    <3>4. QED
      BY <1>5, <3>2, <3>3
  <2>2. ASSUME NEW k \in M PROVE \E p \in matching : at(p) = idx[k]
    <3>1. idx[k] \in 1..n
      BY <1>4
    <3>2. PICK p \in Placed : at(p) = idx[k]
      BY <1>2, <3>1
    <3>3. RuleAt(p) = rs[idx[k]]
      BY <1>2, <3>2
    <3>4. QED
      BY <3>2, <3>3
  <2>3. ASSUME NEW p \in matching PROVE \E k \in M : idx[k] = at(p)
    <3>1. at(p) \in 1..n /\ RuleAt(p) = rs[at(p)]
      BY <1>2
    <3>2. PICK k \in 1..n : idx[k] = at(p)
      BY <1>4, <3>1
    <3>3. QED
      BY <3>1, <3>2
  <2>4. CASE matching = {}
    <3>1. M = {}
      BY <2>2, <2>4
    <3>2. QED
      BY <2>1, <2>4, <3>1
  <2>5. CASE matching # {}
    <3>1. M # {}
      BY <2>3, <2>5
    <3>2. k0 \in M /\ \A j \in M : k0 <= j
      <4>1. M \subseteq Nat
        BY <1>3
      <4>2. QED
        BY <3>1, <4>1, LeastNat
    <3> HIDE DEF k0
    <3>3. PICK p \in matching : at(p) = idx[k0]
      BY <2>2, <3>2
    <3>4. Match(ruleset, request) = RuleAt(p).name
      BY <1>2, <2>1, <3>1, <3>3
    <3>5. ASSUME NEW q \in matching, q # p PROVE Precedes(p, q)
      <4>1. PICK j \in M : idx[j] = at(q)
        BY <2>3
      <4>2. j # k0
        BY <1>2, <3>3, <3>5, <4>1
      <4>3. k0 < j /\ k0 \in 1..n /\ j \in 1..n
        BY <1>3, <3>2, <4>2
      <4>4. PrioBefore(rs, at(p), at(q))
        BY <1>4, <3>3, <4>1, <4>3
      <4>5. QED
        BY <1>8, <4>4
    <3>6. QED
      BY <2>5, <3>4, <3>5
  <2>6. QED
    BY <2>4, <2>5
<1>10. QED
  BY <1>6, <1>7, <1>9 DEF MatchIsFirst

\* What makes the property inductive: the ruleset was built from the documents that are
\* remembered, and no Load goes on past a rule that does not compile or a name used twice.
PolicyInv ==
  /\ PolicyTypeOK
  /\ DocsRead(ruleDocs) /\ ruleset = Ruleset(ruleDocs)
  /\ policyLoad # NoLoad => DocsRead(policyLoad.docs)

LEMMA PolicyInitInv == PolicyInit => PolicyInv
<1> SUFFICES ASSUME PolicyInit PROVE PolicyInv
  OBVIOUS
<1>1. policyDir \in [1..FileCount -> PolicyDocs] /\ FileCount \in Nat
  BY PolicyAssumption DEF PolicyInit, Files
<1>2. policyDir \in Seq(PolicyDocs)
  BY <1>1, SeqDef
<1>3. policyDir \in Seq(Doc) /\ Len(policyDir) = FileCount
  <2>1. policyDir \in Seq(Doc)
    BY <1>2, SeqMonotonic DEF Doc
  <2>2. 1..Len(policyDir) = 1..FileCount /\ Len(policyDir) \in Nat
    BY <1>1, <1>2, LenProperties
  <2>3. QED
    BY <1>1, <2>1, <2>2
<1>4. DocsRead(ruleDocs) /\ ruleDocs = policyDir
  BY <1>3 DEF PolicyInit, DocsRead, Files
<1>5. PolicyTypeOK
  BY <1>1, <1>3, <1>4 DEF PolicyInit, PolicyTypeOK, Files, Doc
<1>6. QED
  BY <1>4, <1>5 DEF PolicyInit, PolicyInv

LEMMA NothingRead == DocsRead(<<>>)
<1>1. <<>> \in Seq(Doc) /\ Len(<<>>) = 0
  BY EmptySeq
<1>2. PICK off : LaidOut(<<>>, AllRules(<<>>), off)
  BY <1>1, RulesLaidOut
<1>3. \A i \in 1..Len(AllRules(<<>>)) : FALSE
  BY <1>1, <1>2 DEF LaidOut
<1>4. AllRules(<<>>) \in Seq(PolicyRule)
  BY <1>2 DEF LaidOut
<1>5. DOMAIN AllRules(<<>>) = 1..Len(AllRules(<<>>))
  BY <1>4, LenProperties
<1>6. NamesUnique(AllRules(<<>>))
  BY <1>3, <1>5 DEF NamesUnique
<1>7. QED
  BY <1>1, <1>6 DEF DocsRead

LEMMA LoadReadsInv == PolicyInv /\ LoadReads => PolicyInv'
<1> SUFFICES ASSUME PolicyInv, LoadReads PROVE PolicyInv'
  OBVIOUS
<1> DEFINE k == Len(policyLoad.docs) + 1
           docs == Append(policyLoad.docs, policyDir[k])
<1>1. /\ policyLoad \in [pc : {"read"}, docs : Seq(Doc)] /\ policyLoad # NoLoad
      /\ Len(policyLoad.docs) \in Nat /\ Len(policyLoad.docs) < FileCount /\ FileCount \in Nat
  <2>1. policyLoad.pc = "read" /\ Len(policyLoad.docs) < FileCount
    BY DEF LoadReads
  <2>2. policyLoad # NoLoad
    BY <2>1 DEF NoLoad
  <2>3. policyLoad \in [pc : {"read"}, docs : Seq(Doc)]
    BY <2>2 DEF PolicyInv, PolicyTypeOK, Doc
  <2>4. Len(policyLoad.docs) \in Nat
    BY <2>3, LenProperties
  <2>5. QED
    BY <2>1, <2>2, <2>3, <2>4, PolicyAssumption
<1>2. policyDir[k] \in Doc
  BY <1>1 DEF PolicyInv, PolicyTypeOK, Files, Doc
<1>3. /\ docs \in Seq(Doc) /\ Len(docs) = k /\ docs[k] = policyDir[k]
      /\ \A f \in 1..Len(policyLoad.docs) : docs[f] = policyLoad.docs[f]
  BY <1>1, <1>2, AppendProperties
<1>4. UNCHANGED <<policyDir, policyPut, ruleset, ruleDocs>>
  BY DEF LoadReads
<1>5. CASE Compiles(docs[Len(docs)]) /\ NamesUnique(AllRules(docs))
  <2>1. policyLoad' = [policyLoad EXCEPT !.docs = docs]
    BY <1>5 DEF LoadReads
  <2> HIDE DEF docs
  <2>2. policyLoad' \in [pc : {"read"}, docs : Seq(Doc)] /\ policyLoad'.docs = docs
    BY <1>1, <1>3, <2>1
  <2>3. ASSUME NEW f \in 1..Len(docs) PROVE Compiles(docs[f])
    <3>1. CASE f = Len(docs)
      BY <1>5, <3>1
    <3>2. CASE f \in 1..Len(policyLoad.docs)
      BY <1>1, <1>3, <3>2 DEF PolicyInv, DocsRead
    <3>3. QED
      BY <1>1, <1>3, <3>1, <3>2
  <2>4. DocsRead(docs)
    BY <1>3, <1>5, <2>3 DEF DocsRead
  <2>5. Len(docs) <= FileCount
    BY <1>1, <1>3
  <2>6. QED
    BY <1>4, <2>2, <2>4, <2>5 DEF PolicyInv, PolicyTypeOK, Doc
<1>6. CASE ~(Compiles(docs[Len(docs)]) /\ NamesUnique(AllRules(docs)))
  <2>1. policyLoad' = NoLoad
    BY <1>6 DEF LoadReads
  <2>2. QED
    BY <1>4, <2>1 DEF PolicyInv, PolicyTypeOK
<1>7. QED
  BY <1>5, <1>6

LEMMA PolicyNextInv == PolicyInv /\ [PolicyNext]_policyVars => PolicyInv'
<1> SUFFICES ASSUME PolicyInv, [PolicyNext]_policyVars PROVE PolicyInv'
  OBVIOUS
<1>1. ASSUME NEW f \in Files, NEW doc \in PolicyDocs, PolicyPutStart(f, doc) PROVE PolicyInv'
  <2>1. policyDir' \in [Files -> PolicyDocs \cup {Truncated}]
    BY <1>1 DEF PolicyPutStart, PolicyInv, PolicyTypeOK
  <2>2. policyPut' \in [pc : {"write"}, file : Files, doc : PolicyDocs]
    BY <1>1 DEF PolicyPutStart
  <2>3. QED
    BY <1>1, <2>1, <2>2 DEF PolicyPutStart, PolicyInv, PolicyTypeOK
<1>2. ASSUME NEW f \in Files, NEW doc \in PolicyDocs, PolicyHandEdit(f, doc) PROVE PolicyInv'
  <2>1. policyDir' \in [Files -> PolicyDocs \cup {Truncated}]
    BY <1>2 DEF PolicyHandEdit, PolicyInv, PolicyTypeOK
  <2>2. QED
    BY <1>2, <2>1 DEF PolicyHandEdit, PolicyInv, PolicyTypeOK
<1>3. ASSUME PolicyPutEnd PROVE PolicyInv'
  <2>1. policyPut \in [pc : {"write"}, file : Files, doc : PolicyDocs]
    BY <1>3 DEF PolicyPutEnd, PolicyInv, PolicyTypeOK, NoPut
  <2>2. policyDir' \in [Files -> PolicyDocs \cup {Truncated}]
    BY <1>3, <2>1 DEF PolicyPutEnd, PolicyInv, PolicyTypeOK
  <2>3. QED
    BY <1>3, <2>2 DEF PolicyPutEnd, PolicyInv, PolicyTypeOK
<1>4. ASSUME LoadBegins PROVE PolicyInv'
  <2>1. policyLoad' \in [pc : {"read"}, docs : Seq(Doc)] /\ policyLoad'.docs = <<>>
        /\ Len(policyLoad'.docs) <= FileCount
    BY <1>4, EmptySeq, PolicyAssumption DEF LoadBegins
  <2>2. QED
    BY <1>4, <2>1, NothingRead DEF LoadBegins, PolicyInv, PolicyTypeOK, Doc
<1>5. ASSUME LoadServes PROVE PolicyInv'
  <2>1. policyLoad # NoLoad
    BY <1>5 DEF LoadServes, NoLoad
  <2>2. DocsRead(policyLoad.docs)
    BY <2>1 DEF PolicyInv
  <2>3. ruleDocs' = policyLoad.docs /\ ruleset' = Ruleset(policyLoad.docs) /\ policyLoad' = NoLoad
        /\ UNCHANGED <<policyDir, policyPut>>
    BY <1>5 DEF LoadServes
  <2>4. QED
    BY <2>2, <2>3 DEF PolicyInv, PolicyTypeOK, DocsRead, Doc
<1>6. CASE UNCHANGED policyVars
  BY <1>6 DEF policyVars, PolicyInv, PolicyTypeOK
<1>7. QED
  BY <1>1, <1>2, <1>3, <1>4, <1>5, <1>6, LoadReadsInv DEF PolicyNext

\* The files, the editor, what Load has read and the documents behind the ruleset keep
\* their types.
THEOREM PolicyTypes == PolicySpec => []PolicyTypeOK
<1>1. PolicyInv => PolicyTypeOK
  BY DEF PolicyInv
<1>2. QED
  BY <1>1, PolicyInitInv, PolicyNextInv, PTL DEF PolicySpec

\* The engine decides by the first rule that matches, by priority, file and position, and
\* every rule in force compiles and has its name to itself, for any number of files and
\* rules and whatever is written into the directory while Load reads it.
THEOREM FirstMatchDecides == PolicySpec => []MatchIsFirst
<1>1. PolicyInv => MatchIsFirst
  BY FirstRuleDecides DEF PolicyInv
<1>2. QED
  BY <1>1, PolicyInitInv, PolicyNextInv, PTL DEF PolicySpec

-----------------------------------------------------------------------------
(* Passthrough: the client's stream.                                        *)

LEMMA StreamRecords ==
  ASSUME NEW c \in ClientStreams
  PROVE  /\ Len(c.recs) \in Nat /\ DOMAIN c.recs = 1..Len(c.recs)
         /\ \A k \in 1..Len(c.recs) : c.recs[k].kind \in RecordKind /\ c.recs[k].len \in Nat
<1> DEFINE Rec == [kind : RecordKind, len : Nat]
<1>1. c.recs \in Seq(Rec)
  BY PassthroughAssumption
<1>2. Len(c.recs) \in Nat /\ DOMAIN c.recs = 1..Len(c.recs)
  BY <1>1, LenProperties
<1>3. ASSUME NEW k \in 1..Len(c.recs)
      PROVE  c.recs[k].kind \in RecordKind /\ c.recs[k].len \in Nat
  <2> HIDE DEF Rec
  <2>1. c.recs[k] \in Rec
    BY <1>1, ElementOfSeq
  <2>2. QED
    BY <2>1 DEF Rec
<1>4. QED
  BY <1>2, <1>3

\* Where each record ends in the stream.
Grows(c, st) ==
  /\ st \in [0..Len(c.recs) -> Nat] /\ st[0] = 0
  /\ \A k \in 1..Len(c.recs) : st[k] = st[k - 1] + HeaderLen + c.recs[k].len
RecEnd(c) == CHOOSE st : Grows(c, st)

LEMMA EndsGrow ==
  ASSUME NEW c \in ClientStreams
  PROVE  Grows(c, RecEnd(c))
<1> DEFINE n == Len(c.recs)
           step == [k \in 1..n |-> [m \in Nat |-> m + HeaderLen + c.recs[k].len]]
<1>1. n \in Nat /\ \A k \in 1..n : c.recs[k].len \in Nat
  BY StreamRecords
<1>2. step \in [1..n -> [Nat -> Nat]]
  BY <1>1 DEF HeaderLen
<1>3. PICK st : Iterated(Nat, n, 0, step, st)
  <2> HIDE DEF step, n
  <2>1. QED
    BY <1>1, <1>2, Iterates
<1>4. st \in [0..n -> Nat] /\ st[0] = 0 /\ \A k \in 1..n : st[k] = step[k][st[k - 1]]
  <2> HIDE DEF step, n
  <2>1. QED
    BY <1>3 DEF Iterated
<1>5. ASSUME NEW k \in 1..n PROVE st[k] = st[k - 1] + HeaderLen + c.recs[k].len
  <2>1. k - 1 \in 0..n
    BY <1>1
  <2>2. st[k - 1] \in Nat
    BY <1>4, <2>1
  <2>3. QED
    BY <1>4, <2>2
<1>6. Grows(c, st)
  BY <1>4, <1>5 DEF Grows
<1>7. QED
  BY <1>6 DEF RecEnd

LEMMA EndsOrdered ==
  ASSUME NEW c \in ClientStreams, NEW h \in 0..Len(c.recs), NEW k \in 0..Len(c.recs), h <= k
  PROVE  RecEnd(c)[h] \in Nat /\ RecEnd(c)[k] \in Nat /\ RecEnd(c)[h] <= RecEnd(c)[k]
<1> DEFINE n == Len(c.recs)
           st == RecEnd(c)
           T == {m \in Nat : m \in h..n => st[h] <= st[m]}
<1>1. n \in Nat /\ \A i \in 1..n : c.recs[i].len \in Nat
  BY StreamRecords
<1>2. st \in [0..n -> Nat] /\ \A i \in 1..n : st[i] = st[i - 1] + HeaderLen + c.recs[i].len
  BY EndsGrow DEF Grows
<1>a. h \in 0..n /\ k \in 0..n
  OBVIOUS
<1> HIDE DEF n, st
<1>3. 0 \in T
  BY <1>1, <1>2, <1>a
<1>4. ASSUME NEW m \in Nat, m \in T PROVE m + 1 \in T
  <2>1. SUFFICES ASSUME m + 1 \in h..n PROVE st[h] <= st[m + 1]
    OBVIOUS
  <2>2. CASE m + 1 = h
    BY <1>2, <1>a, <2>2
  <2>3. CASE m + 1 # h
    <3>1. m \in h..n /\ m + 1 \in 1..n /\ (m + 1) - 1 = m /\ m \in 0..n
      BY <1>1, <1>a, <2>1, <2>3
    <3>2. st[h] <= st[m] /\ st[h] \in Nat /\ st[m] \in Nat
      BY <1>2, <1>4, <1>a, <3>1
    <3>3. st[m + 1] = st[m] + HeaderLen + c.recs[m + 1].len /\ c.recs[m + 1].len \in Nat
      BY <1>1, <1>2, <3>1
    <3> DEFINE a == st[h]
               b == st[m]
               d == st[m + 1]
               len == c.recs[m + 1].len
    <3>4. a <= b /\ a \in Nat /\ b \in Nat /\ d = b + 2 + len /\ len \in Nat
      BY <3>2, <3>3 DEF HeaderLen
    <3> HIDE DEF a, b, d, len
    <3>5. a <= d
      BY <3>4
    <3>6. QED
      BY <3>5 DEF a, d
  <2>4. QED
    BY <2>2, <2>3
<1> HIDE DEF T
<1>5. k \in T
  BY <1>3, <1>4, <1>a, Inductive
<1>6. st[h] <= st[k] /\ st[h] \in Nat /\ st[k] \in Nat
  BY <1>1, <1>2, <1>5, <1>a DEF T
<1>7. QED
  BY <1>6 DEF st

Unit == Nat \X Nat

\* Every unit of the stream is one of the record that it is in.
LEMMA WireLaid ==
  ASSUME client \in ClientStreams
  PROVE  /\ Wire \in Seq(Unit)
         /\ Len(Wire) = RecEnd(client)[Len(client.recs)]
         /\ \A k \in 1..Len(client.recs) :
              \A i \in RecEnd(client)[k - 1] + 1..RecEnd(client)[k] : Wire[i][1] = k
<1> DEFINE n == Len(client.recs)
           st == RecEnd(client)
           seqs == [k \in 1..n |-> [u \in 1..HeaderLen + client.recs[k].len |-> <<k, u>>]]
<1>1. n \in Nat /\ DOMAIN client.recs = 1..n /\ \A i \in 1..n : client.recs[i].len \in Nat
  BY StreamRecords
<1>2. /\ st \in [0..n -> Nat] /\ st[0] = 0
      /\ \A i \in 1..n : st[i] = st[i - 1] + HeaderLen + client.recs[i].len
  BY EndsGrow DEF Grows
<1>3. \A h, k \in 0..n : h <= k => st[h] <= st[k]
  BY EndsOrdered
<1>4. ASSUME NEW k \in 1..n
      PROVE  /\ seqs[k] \in Seq(Unit) /\ Len(seqs[k]) = HeaderLen + client.recs[k].len
             /\ \A u \in 1..Len(seqs[k]) : seqs[k][u][1] = k
  <2> DEFINE m == HeaderLen + client.recs[k].len
             s == [u \in 1..m |-> <<k, u>>]
  <2>1. m \in Nat
    BY <1>1 DEF HeaderLen
  <2>2. seqs[k] = s
    OBVIOUS
  <2> HIDE DEF m
  <2>3. s \in [1..m -> Unit]
    BY <2>1 DEF Unit
  <2>4. \A u \in 1..m : s[u][1] = k
    OBVIOUS
  <2>5. DOMAIN s = 1..m
    OBVIOUS
  <2> HIDE DEF s, seqs
  <2>6. s \in Seq(Unit)
    BY <2>1, <2>3, SeqDef
  <2>7. Len(s) = m
    <3>1. 1..Len(s) = 1..m /\ Len(s) \in Nat
      BY <2>5, <2>6, LenProperties
    <3>2. QED
      BY <2>1, <3>1
  <2>8. QED
    BY <2>2, <2>4, <2>6, <2>7 DEF m
<1>5. Wire = FlattenSeq(seqs)
  BY <1>1 DEF Wire
<1>6. seqs \in [1..n -> Seq(Unit)]
  <2>1. DOMAIN seqs = 1..n /\ seqs = [k \in 1..n |-> seqs[k]]
    OBVIOUS
  <2> HIDE DEF seqs
  <2>2. QED
    BY <1>4, <2>1
<1> HIDE DEF n, st, seqs
<1>7. PICK g \in [0..n -> Seq(Unit)] :
        /\ g[0] = <<>> /\ \A k \in 1..n : g[k] = g[k - 1] \o seqs[k]
        /\ Wire = g[n]
  <2>1. \E g : Concatenated(Unit, n, seqs, g)
    BY <1>1, <1>6, Flattened
  <2>2. QED
    BY <1>5, <2>1 DEF Concatenated
<1> DEFINE Good(k) ==
      /\ Len(g[k]) = st[k]
      /\ \A h \in 1..k : \A i \in st[h - 1] + 1..st[h] : g[k][i][1] = h
    T == {k \in Nat : k <= n => Good(k)}
<1>8. 0 \in T
  <2>1. Good(0)
    BY <1>2, <1>7, EmptySeq
  <2>2. QED
    BY <2>1
<1>9. ASSUME NEW k \in Nat, k \in T PROVE k + 1 \in T
  <2>1. SUFFICES ASSUME k + 1 <= n PROVE Good(k + 1)
    OBVIOUS
  <2> DEFINE old == g[k]
             new == seqs[k + 1]
  <2>2. Good(k)
    <3>1. k <= n
      BY <1>1, <2>1
    <3> HIDE DEF Good
    <3>2. QED
      BY <1>9, <3>1
  <2>3. k \in 0..n /\ k + 1 \in 0..n /\ k + 1 \in 1..n /\ (k + 1) - 1 = k
    BY <1>1, <2>1
  <2>4. old \in Seq(Unit) /\ new \in Seq(Unit) /\ Len(old) = st[k]
        /\ Len(new) = HeaderLen + client.recs[k + 1].len
        /\ \A u \in 1..Len(new) : new[u][1] = k + 1
    BY <1>4, <2>2, <2>3
  <2>5. g[k + 1] = old \o new
    <3>1. g[k + 1] = g[(k + 1) - 1] \o seqs[k + 1]
      BY <1>7, <2>3, Zenon
    <3>2. QED
      BY <2>3, <3>1
  <2>6. st[k] \in Nat /\ st[k + 1] \in Nat /\ st[k + 1] = st[k] + Len(new) /\ Len(new) \in Nat
    <3>1. st[k + 1] = st[(k + 1) - 1] + HeaderLen + client.recs[k + 1].len
      BY <1>2, <2>3, Zenon
    <3>2. st[k] \in Nat /\ client.recs[k + 1].len \in Nat
      BY <1>1, <1>2, <2>3
    <3>3. st[k + 1] = st[k] + Len(new)
      <4> DEFINE m == client.recs[k + 1].len
      <4>1. st[k + 1] = st[k] + HeaderLen + m
        BY <2>3, <3>1
      <4>2. Len(new) = HeaderLen + m /\ m \in Nat
        BY <2>4, <3>2
      <4> HIDE DEF m, new
      <4>3. QED
        BY <3>2, <4>1, <4>2 DEF HeaderLen
    <3>4. Len(new) \in Nat
      BY <2>4, <3>2 DEF HeaderLen
    <3>5. QED
      BY <3>2, <3>3, <3>4
  <2>7. \A h \in 1..k : \A i \in st[h - 1] + 1..st[h] : old[i][1] = h
    BY <2>2
  <2> HIDE DEF old, new, Good, T
  <2>8. /\ Len(old \o new) = Len(old) + Len(new)
        /\ \A i \in 1..Len(old) + Len(new) :
             (old \o new)[i] = IF i <= Len(old) THEN old[i] ELSE new[i - Len(old)]
    BY <2>4, ConcatProperties
  <2>9. ASSUME NEW h \in 1..k + 1, NEW i \in st[h - 1] + 1..st[h]
        PROVE  (old \o new)[i][1] = h
    <3>0. h \in Int /\ (h = k + 1 \/ h \in 1..k) /\ h - 1 \in 0..n /\ h \in 0..n
      BY <1>1, <2>1
    <3>1. st[h - 1] \in Nat /\ st[h] \in Nat
      BY <1>2, <3>0
    <3>2. CASE h = k + 1
      <4>1. i \in st[k] + 1..st[k + 1]
        BY <3>2
      <4>a. Len(old) = st[k] /\ st[k + 1] = Len(old) + Len(new)
        BY <2>4, <2>6
      <4>2. i \in 1..Len(old) + Len(new) /\ ~ (i <= Len(old)) /\ i - Len(old) \in 1..Len(new)
        <5> DEFINE a == Len(old)
                   b == Len(new)
        <5>1. a \in Nat /\ b \in Nat /\ i \in a + 1..a + b
          BY <2>6, <4>a, <4>1
        <5> HIDE DEF a, b
        <5>2. i \in 1..a + b /\ ~ (i <= a) /\ i - a \in 1..b
          BY <5>1
        <5>3. QED
          BY <5>2 DEF a, b
      <4>3. (old \o new)[i] = new[i - Len(old)]
        BY <2>8, <4>2
      <4>4. QED
        BY <2>4, <3>2, <4>2, <4>3
    <3>3. CASE h \in 1..k
      <4>1. st[h] <= st[k] /\ Len(old) = st[k]
        BY <1>3, <2>3, <2>4, <3>0, <3>3
      <4>2. i \in 1..Len(old) + Len(new) /\ i <= Len(old)
        <5> DEFINE a == Len(old)
                   b == Len(new)
                   d == st[h - 1]
                   e == st[h]
        <5>1. a \in Nat /\ b \in Nat /\ d \in Nat /\ e \in Nat /\ i \in d + 1..e /\ e <= a
          BY <2>6, <3>1, <4>1
        <5> HIDE DEF a, b, d, e
        <5>2. i \in 1..a + b /\ i <= a
          BY <5>1
        <5>3. QED
          BY <5>2 DEF a, b
      <4>3. (old \o new)[i] = old[i]
        BY <2>8, <4>2
      <4>4. QED
        BY <2>7, <3>3, <4>3
    <3>4. QED
      BY <3>0, <3>2, <3>3
  <2>10. QED
    BY <2>4, <2>5, <2>6, <2>8, <2>9 DEF Good
<1> HIDE DEF T
<1>10. n \in T
  BY <1>1, <1>8, <1>9, Inductive
<1>11. Good(n)
  BY <1>1, <1>10 DEF T
<1>12. Wire \in Seq(Unit)
  BY <1>1, <1>7
<1>13. QED
  BY <1>7, <1>11, <1>12 DEF n, st


-----------------------------------------------------------------------------
(* Passthrough: what PeekClientHello reads and returns.                      *)

HelloRecord(k) == client.recs[k].kind = "handshake" /\ client.recs[k].len > 0

LEMMA HelloIs ==
  ASSUME client \in ClientStreams, NEW n \in 0..Len(client.recs), n <= MaxRecords,
         \A k \in 1..n : HelloRecord(k),
         n = Len(client.recs) \/ n = MaxRecords \/ ~ HelloRecord(n + 1)
  PROVE  HelloUnits = RecEnd(client)[n] - HeaderLen * n
<1> DEFINE R == Len(client.recs)
           st == RecEnd(client)
           whole(m) == \A k \in 1..m : HelloRecord(k)
           Bound(m) == m <= MaxRecords /\ whole(m)
                       /\ (m = R \/ m = MaxRecords \/ ~ whole(m + 1))
           N == CHOOSE m \in 0..R : Bound(m)
           Equation(sum) ==
             sum = [k \in 0..N |-> IF k = 0 THEN 0 ELSE sum[k - 1] + client.recs[k].len]
           Sum == CHOOSE sum : Equation(sum)
<1>1. R \in Nat /\ MaxRecords \in Nat /\ \A k \in 1..R : client.recs[k].len \in Nat
  BY StreamRecords, PassthroughAssumption
<1>2. /\ st \in [0..R -> Nat] /\ st[0] = 0
      /\ \A k \in 1..R : st[k] = st[k - 1] + HeaderLen + client.recs[k].len
  BY EndsGrow DEF Grows
<1>3. HelloUnits = Sum[N]
  BY DEF HelloUnits, HelloRecord
<1>a. n \in 0..R /\ n <= MaxRecords /\ whole(n) /\ (n = R \/ n = MaxRecords \/ ~ HelloRecord(n + 1))
  OBVIOUS
<1> HIDE DEF R, st
<1>4. Bound(n)
  <2>1. ~ HelloRecord(n + 1) => ~ whole(n + 1)
    BY <1>1, <1>a
  <2>2. QED
    BY <1>a, <2>1
<1> HIDE DEF Bound
<1>5. N \in 0..R /\ Bound(N)
  BY <1>4, <1>a
<1> HIDE DEF N
<1>6. N = n
  <2>1. N \in Int /\ n \in Int /\ n + 1 \in 1..n + 1 /\ N + 1 \in 1..N + 1
    BY <1>5, <1>a, <1>1
  <2>2. CASE n < N
    <3>1. n <= R /\ N <= R /\ n <= MaxRecords /\ N <= MaxRecords /\ whole(N) /\ n >= 0
          /\ (n = R \/ n = MaxRecords \/ ~ whole(n + 1))
      BY <1>4, <1>5, <1>a, <1>1 DEF Bound
    <3>2. ~ whole(n + 1)
      BY <1>1, <2>1, <2>2, <3>1
    <3>3. \A k \in 1..n + 1 : k \in 1..N
      BY <2>1, <2>2
    <3>4. QED
      BY <3>1, <3>2, <3>3
  <2>3. CASE N < n
    <3>1. n <= R /\ N <= R /\ n <= MaxRecords /\ N <= MaxRecords /\ whole(n) /\ N >= 0
          /\ (N = R \/ N = MaxRecords \/ ~ whole(N + 1))
      BY <1>4, <1>5, <1>a, <1>1 DEF Bound
    <3>2. ~ whole(N + 1)
      BY <1>1, <2>1, <2>3, <3>1
    <3>3. \A k \in 1..N + 1 : k \in 1..n
      BY <2>1, <2>3
    <3>4. QED
      BY <3>1, <3>2, <3>3
  <2>4. QED
    BY <2>1, <2>2, <2>3
<1>7. Equation(Sum)
  <2> DEFINE h == [k \in 0..N |-> st[k] - HeaderLen * k]
  <2>1. ASSUME NEW k \in 0..N
        PROVE  h[k] = IF k = 0 THEN 0 ELSE h[k - 1] + client.recs[k].len
    <3>1. N <= R /\ N \in Nat
      BY <1>1, <1>5
    <3>2. CASE k = 0
      BY <1>2, <3>2 DEF HeaderLen
    <3>3. CASE k # 0
      <4>1. k \in 1..R /\ k - 1 \in 0..R /\ k - 1 \in 0..N /\ k \in Nat
        BY <1>1, <3>1, <3>3
      <4>2. st[k] = st[k - 1] + HeaderLen + client.recs[k].len /\ client.recs[k].len \in Nat
            /\ st[k - 1] \in Nat
        BY <1>1, <1>2, <4>1
      <4>3. h[k] = st[k] - HeaderLen * k /\ h[k - 1] = st[k - 1] - HeaderLen * (k - 1)
        BY <4>1
      <4> HIDE DEF h
      <4> DEFINE a == st[k - 1]
                 b == client.recs[k].len
      <4>4. a \in Nat /\ b \in Nat /\ st[k] = a + HeaderLen + b
            /\ h[k - 1] = a - HeaderLen * (k - 1)
        BY <4>2, <4>3
      <4> HIDE DEF a
      <4>5. h[k] = h[k - 1] + b
        <5> HIDE DEF b
        <5>1. QED
          BY <4>1, <4>3, <4>4 DEF HeaderLen
      <4>6. QED
        BY <3>3, <4>5
    <3>4. QED
      BY <3>2, <3>3
  <2>2. Equation(h)
    BY <2>1
  <2> HIDE DEF h, Equation
  <2>3. QED
    BY <2>2
<1> HIDE DEF Sum
<1>8. ASSUME NEW k \in 0..N PROVE Sum[k] = IF k = 0 THEN 0 ELSE Sum[k - 1] + client.recs[k].len
  BY <1>7, Zenon DEF Equation
<1> HIDE DEF Equation
<1> DEFINE T == {k \in Nat : k <= N => Sum[k] = st[k] - HeaderLen * k}
<1>9. 0 \in T
  <2>1. Sum[0] = 0
    <3>1. 0 \in 0..N
      BY <1>1, <1>5
    <3>2. QED
      BY <1>8, <3>1
  <2>2. QED
    BY <1>2, <2>1 DEF HeaderLen
<1>10. ASSUME NEW k \in Nat, k \in T PROVE k + 1 \in T
  <2>1. SUFFICES ASSUME k + 1 <= N PROVE Sum[k + 1] = st[k + 1] - HeaderLen * (k + 1)
    OBVIOUS
  <2>2. k + 1 \in 0..N /\ k + 1 # 0 /\ (k + 1) - 1 = k /\ k \in 0..R /\ k + 1 \in 1..R /\ k <= N
    BY <1>1, <1>5, <2>1
  <2>3. Sum[k + 1] = Sum[k] + client.recs[k + 1].len
    <3>1. Sum[k + 1] = IF k + 1 = 0 THEN 0 ELSE Sum[(k + 1) - 1] + client.recs[k + 1].len
      BY <1>8, <2>2, Zenon
    <3>2. QED
      BY <2>2, <3>1
  <2>4. st[k + 1] = st[k] + HeaderLen + client.recs[k + 1].len
    <3>1. st[k + 1] = st[(k + 1) - 1] + HeaderLen + client.recs[k + 1].len
      BY <1>2, <2>2, Zenon
    <3>2. QED
      BY <2>2, <3>1
  <2>5. Sum[k] = st[k] - HeaderLen * k /\ st[k] \in Nat /\ client.recs[k + 1].len \in Nat
    BY <1>1, <1>2, <1>10, <2>2
  <2> DEFINE a == st[k]
             b == client.recs[k + 1].len
  <2>6. a \in Nat /\ b \in Nat /\ st[k + 1] = a + HeaderLen + b
        /\ Sum[k + 1] = (a - HeaderLen * k) + b
    BY <2>3, <2>4, <2>5
  <2> HIDE DEF a, b
  <2>7. QED
    BY <2>6 DEF HeaderLen
<1> HIDE DEF T
<1>11. n \in T
  <2>1. \A k \in Nat : k \in T
    BY <1>9, <1>10, Inductive
  <2>2. QED
    BY <1>1, <1>a, <2>1
<1>12. Sum[n] = st[n] - HeaderLen * n
  BY <1>1, <1>6, <1>11, <1>a DEF T
<1>13. QED
  BY <1>3, <1>6, <1>12 DEF st

LEMMA NextInOrder ==
  ASSUME NEW a \in Nat, NEW b \in Nat, a <= b
  PROVE  1 <= a + 1 /\ a + 1 \in Nat /\ a + 1 <= b + 1
OBVIOUS

LEMMA PrefixOfConcat ==
  ASSUME NEW S, NEW s \in Seq(S), NEW t \in Seq(S)
  PROVE  IsPrefix(s, s \o t)
<1>1. Len(s) \in Nat /\ Len(t) \in Nat /\ Len(s \o t) = Len(s) + Len(t)
  BY LenProperties, ConcatProperties
<1>2. SubSeq(s, 1, Len(s)) = SubSeq(s \o t, 1, Len(s))
  <2>1. CASE Len(s) = 0
    BY <2>1, SubSeqEmpty
  <2>2. CASE Len(s) # 0
    <3>1. 1 \in 1..Len(s) /\ Len(s) \in 1..Len(s)
      BY <1>1, <2>2
    <3>2. QED
      BY <3>1, SubSeqOfConcat1
  <2>3. QED
    BY <2>1, <2>2
<1>3. QED
  BY <1>1, <1>2 DEF IsPrefix

\* Stretches of the stream, and the one that two make.
LEMMA Stretch ==
  ASSUME client \in ClientStreams, NEW a \in Nat, NEW b \in Nat,
         1 <= a, a <= b + 1, b <= Len(Wire)
  PROVE  SubSeq(Wire, a, b) \in Seq(Unit) /\ Len(SubSeq(Wire, a, b)) = b + 1 - a
<1>1. Wire \in Seq(Unit) /\ Len(Wire) \in Nat
  BY WireLaid, LenProperties
<1>2. \A i \in a..b : Wire[i] \in Unit
  <2>1. ASSUME NEW i \in a..b PROVE Wire[i] \in Unit
    <3>1. i \in 1..Len(Wire)
      BY <1>1
    <3>2. QED
      BY <1>1, <3>1, ElementOfSeq
  <2>2. QED
    BY <2>1
<1>3. a \in Int /\ b \in Int
  OBVIOUS
<1>4. /\ SubSeq(Wire, a, b) \in Seq(Unit)
      /\ Len(SubSeq(Wire, a, b)) = IF a <= b THEN b - a + 1 ELSE 0
  BY <1>2, <1>3, SubSeqProperties
<1>5. QED
  BY <1>4

LEMMA Stretches ==
  ASSUME client \in ClientStreams, NEW a \in Nat, NEW b \in Nat, NEW c \in Nat,
         1 <= a, a <= b + 1, b <= c, c <= Len(Wire)
  PROVE  SubSeq(Wire, a, b) \o SubSeq(Wire, b + 1, c) = SubSeq(Wire, a, c)
<1>1. Wire \in Seq(Unit) /\ Len(Wire) \in Nat
  BY WireLaid, LenProperties
<1>2. a \in 1..Len(Wire) + 1 /\ b \in a - 1..Len(Wire) /\ c \in b..Len(Wire)
  BY <1>1
<1>3. QED
  BY <1>1, <1>2, ConcatAdjacentSubSeq

\* While PeekClientHello reads, what it has is the stream up to where it is.
Reading ==
  LET at == RecEnd(client)[peek.rec]
  IN  /\ route = "peek" /\ replay = <<>> /\ got = <<>> /\ upEnd = "no"
      /\ peek.rec \in 0..Len(client.recs) /\ peek.rec < MaxRecords
      /\ \A k \in 1..peek.rec : HelloRecord(k)
      /\ peek.hs = at - HeaderLen * peek.rec
      /\ peek.hs < client.hello /\ peek.hs < MaxHandshake
      /\ peek.raw = SubSeq(Wire, 1, at)
      /\ peek.pc = "header" =>
           /\ taken = at + Len(peek.part) /\ Len(peek.part) <= HeaderLen
           /\ peek.part = SubSeq(Wire, at + 1, taken)
      /\ peek.pc = "body" =>
           /\ peek.rec < Len(client.recs) /\ HelloRecord(peek.rec + 1)
           /\ taken = at + HeaderLen + Len(peek.part) /\ Len(peek.part) <= Current.len
           /\ peek.part = SubSeq(Wire, at + HeaderLen + 1, taken)

\* The units i + 1 .. j of the record that was being read are missing: none of them
\* without a read error.
Missing(i, j) ==
  /\ i <= j /\ j <= taken /\ (peek.err # "read" => i = j)
  /\ \A k \in i + 1..j : Wire[k][1] = peek.rec + 1
  /\ got \o replay = SubSeq(Wire, 1, i) \o SubSeq(Wire, j + 1, taken)

\* Once it has returned, the reader has got or will get what was read.
Returned ==
  /\ \E i \in Nat : \E j \in Nat : Missing(i, j)
  /\ upEnd = "end" => replay = <<>> /\ taken = Len(Wire)
  /\ peek.err # "read" /\ client.hello <= HelloUnits /\ client.hello <= MaxHandshake
       => peek.err = "none" /\ peek.sni
  /\ peek.err = "none" /\ peek.sni /\ client.pinned => route # "tls"

PassInv ==
  /\ PassTypeOK
  /\ peek.pc # "done" => Reading
  /\ peek.pc = "done" => Returned

\* The stream does not change.
LEMMA SameStream ==
  ASSUME client' = client
  PROVE  /\ Wire' = Wire /\ HelloUnits' = HelloUnits
         /\ \A k : HelloRecord(k)' = HelloRecord(k)
BY DEF Wire, HelloUnits, HelloRecord

LEMMA StreamFacts ==
  ASSUME PassTypeOK
  PROVE  /\ Wire \in Seq(Unit) /\ Len(Wire) \in Nat /\ taken \in 0..Len(Wire)
         /\ peek.part \in Seq(Unit) /\ peek.raw \in Seq(Unit) /\ peek.hs \in Nat
         /\ peek.rec \in Nat /\ Len(peek.part) \in Nat /\ replay \in Seq(Unit)
         /\ got \in Seq(Unit) /\ client.hello \in Nat \ {0} /\ client.pinned \in BOOLEAN
         /\ peek.pc \in {"header", "body", "done"} /\ peek.err \in {"none", "read", "format"}
         /\ MaxRecords \in Nat \ {0} /\ MaxHandshake \in Nat \ {0}
         /\ Len(client.recs) \in Nat
<1>1. peek \in Peeking /\ client \in ClientStreams
  BY DEF PassTypeOK
<1>2. /\ peek.part \in Seq(Unit) /\ peek.raw \in Seq(Unit) /\ peek.hs \in Nat
      /\ peek.rec \in Nat /\ peek.pc \in {"header", "body", "done"}
      /\ peek.err \in {"none", "read", "format"}
  BY <1>1 DEF Peeking, Unit
<1>3. Wire \in Seq(Unit) /\ Len(Wire) \in Nat /\ Len(peek.part) \in Nat
  BY <1>1, <1>2, WireLaid, LenProperties
<1>4. Len(client.recs) \in Nat
  BY <1>1, StreamRecords
<1>5. QED
  BY <1>1, <1>2, <1>3, <1>4, PassthroughAssumption DEF PassTypeOK, Unit

\* The place of the record that is being read.
LEMMA AtRecord ==
  ASSUME PassTypeOK, NEW n \in 0..Len(client.recs)
  PROVE  /\ RecEnd(client)[n] \in Nat /\ RecEnd(client)[n] <= Len(Wire)
         /\ n = Len(client.recs) => RecEnd(client)[n] = Len(Wire)
         /\ n < Len(client.recs) =>
              /\ client.recs[n + 1].len \in Nat
              /\ RecEnd(client)[n + 1] = RecEnd(client)[n] + HeaderLen + client.recs[n + 1].len
              /\ RecEnd(client)[n + 1] <= Len(Wire)
              /\ \A k \in RecEnd(client)[n] + 1..RecEnd(client)[n + 1] : Wire[k][1] = n + 1
<1> DEFINE R == Len(client.recs)
           st == RecEnd(client)
<1>1. client \in ClientStreams
  BY DEF PassTypeOK
<1>2. R \in Nat /\ \A k \in 1..R : client.recs[k].len \in Nat
  BY <1>1, StreamRecords
<1>3. Len(Wire) = st[R]
  BY <1>1, WireLaid
<1>4. \A h, k \in 0..R : h <= k => st[h] \in Nat /\ st[k] \in Nat /\ st[h] <= st[k]
  BY <1>1, EndsOrdered
<1>5. n \in 0..R /\ R \in 0..R
  BY <1>2
<1>6. st[n] \in Nat /\ st[n] <= Len(Wire) /\ (n = R => st[n] = Len(Wire))
  BY <1>2, <1>3, <1>4, <1>5
<1>7. ASSUME n < R
      PROVE  /\ client.recs[n + 1].len \in Nat
             /\ st[n + 1] = st[n] + HeaderLen + client.recs[n + 1].len
             /\ st[n + 1] <= Len(Wire)
             /\ \A k \in st[n] + 1..st[n + 1] : Wire[k][1] = n + 1
  <2>1. n + 1 \in 1..R /\ n + 1 \in 0..R /\ (n + 1) - 1 = n
    BY <1>2, <1>5, <1>7
  <2>2. st[n + 1] = st[n] + HeaderLen + client.recs[n + 1].len
    <3>1. st[n + 1] = st[(n + 1) - 1] + HeaderLen + client.recs[n + 1].len
      BY <1>1, <2>1, EndsGrow DEF Grows
    <3>2. QED
      BY <2>1, <3>1
  <2>3. st[n + 1] <= Len(Wire)
    BY <1>2, <1>3, <1>4, <1>5, <2>1
  <2>4. \A k \in st[n] + 1..st[n + 1] : Wire[k][1] = n + 1
    <3>1. \A k \in st[(n + 1) - 1] + 1..st[n + 1] : Wire[k][1] = n + 1
      BY <1>1, <2>1, WireLaid
    <3>2. QED
      BY <2>1, <3>1
  <2>5. QED
    BY <1>2, <2>1, <2>2, <2>3, <2>4
<1>8. QED
  BY <1>6, <1>7

LEMMA PassInitInv == PassInit => PassInv
<1> SUFFICES ASSUME PassInit PROVE PassInv
  OBVIOUS
<1>1. client \in ClientStreams /\ <<>> \in Seq(Nat \X Nat) /\ Len(<<>>) = 0
  BY EmptySeq DEF PassInit
<1>2. Wire \in Seq(Unit) /\ Len(Wire) \in Nat /\ Len(client.recs) \in Nat
  BY <1>1, WireLaid, LenProperties, StreamRecords
<1>3. peek \in Peeking
  BY <1>1 DEF PassInit, Peeking
<1>4. PassTypeOK
  <2>1. /\ taken = 0 /\ route = "peek" /\ replay = <<>> /\ got = <<>>
        /\ upEnd = "no" /\ downEnd = FALSE
    BY DEF PassInit
  <2>2. taken \in 0..Len(Wire)
    BY <1>2, <2>1
  <2>3. QED
    BY <1>1, <1>3, <2>1, <2>2 DEF PassTypeOK
<1>5. RecEnd(client)[0] = 0
  BY <1>1, EndsGrow DEF Grows
<1>6. SubSeq(Wire, 1, 0) = <<>> /\ SubSeq(Wire, 0 + 1, 0) = <<>>
  BY SubSeqEmpty
<1>7. Reading
  <2>1. /\ peek.rec = 0 /\ peek.hs = 0 /\ peek.raw = <<>> /\ peek.part = <<>>
        /\ peek.pc = "header" /\ taken = 0
    BY DEF PassInit
  <2>2. client.hello \in Nat \ {0}
    BY <1>1, PassthroughAssumption
  <2>3. route = "peek" /\ replay = <<>> /\ got = <<>> /\ upEnd = "no"
    BY DEF PassInit
  <2>4. peek.hs = RecEnd(client)[peek.rec] - HeaderLen * peek.rec
    BY <1>5, <2>1 DEF HeaderLen
  <2>5. \A k \in 1..peek.rec : HelloRecord(k)
    BY <2>1
  <2>6. QED
    BY <1>1, <1>2, <1>5, <1>6, <2>1, <2>2, <2>3, <2>4, <2>5, PassthroughAssumption
    DEF Reading, HeaderLen
<1>8. QED
  BY <1>4, <1>7 DEF PassInv, PassInit


\* What PeekClientHello returns keeps the types.
LEMMA ReturnTyped ==
  ASSUME PassTypeOK, NEW raw \in Seq(Unit), NEW units \in Nat,
         NEW err \in {"none", "read", "format"}, PeekReturns(raw, units, err)
  PROVE  /\ peek' \in Peeking /\ replay' = raw /\ replay' \in Seq(Nat \X Nat)
         /\ peek'.pc = "done" /\ peek'.err = err /\ peek'.sni = (units >= client.hello)
         /\ peek'.rec = peek.rec
<1>1. peek \in Peeking /\ client.hello \in Nat
  BY StreamFacts DEF PassTypeOK
<1>2. peek' = [peek EXCEPT !.pc = "done", !.part = <<>>, !.raw = raw, !.hs = units, !.err = err,
                           !.sni = ParseSNI(units)]
      /\ replay' = raw
  BY DEF PeekReturns
<1>3. <<>> \in Seq(Nat \X Nat) /\ raw \in Seq(Nat \X Nat) /\ ParseSNI(units) \in BOOLEAN
  BY <1>1, EmptySeq DEF Unit, ParseSNI
<1>4. peek' \in Peeking
  BY <1>1, <1>2, <1>3 DEF Peeking
<1>5. QED
  BY <1>1, <1>2, <1>3, <1>4 DEF Peeking, ParseSNI

LEMMA ReadsInv == ASSUME PassInv, PeekReads PROVE PassInv'
<1> DEFINE at == RecEnd(client)[peek.rec]
           part == peek.part
           more(n) == SubSeq(Wire, taken + 1, taken + n)
<1>1. PassTypeOK /\ Reading /\ peek.pc # "done" /\ client \in ClientStreams
  BY DEF PassInv, PeekReads, PassTypeOK
<1>2. PICK n \in 1..Wanted - Len(peek.part) :
        /\ taken + n <= Len(Wire) /\ taken' = taken + n
        /\ peek' = [peek EXCEPT !.part = part \o more(n)]
  BY DEF PeekReads
<1> HIDE DEF more
<1>3. /\ client' = client /\ route' = route /\ replay' = replay /\ got' = got
      /\ upEnd' = upEnd /\ downEnd' = downEnd
  BY DEF PeekReads
<1>4. /\ Wire' = Wire /\ (\A k : HelloRecord(k)' = HelloRecord(k)) /\ RecEnd(client') = RecEnd(client)
  BY <1>3, SameStream
<1>5. /\ Len(Wire) \in Nat /\ taken \in Nat /\ taken <= Len(Wire) /\ peek.part \in Seq(Unit)
      /\ Len(peek.part) \in Nat /\ peek.rec \in 0..Len(client.recs) /\ at \in Nat
      /\ peek.pc \in {"header", "body"} /\ peek \in Peeking
  <2>1. PassTypeOK /\ client \in ClientStreams
    BY <1>1
  <2>2. /\ Len(Wire) \in Nat /\ taken \in Nat /\ taken <= Len(Wire) /\ peek.part \in Seq(Unit)
        /\ Len(peek.part) \in Nat /\ peek \in Peeking /\ peek.pc \in {"header", "body", "done"}
    BY <2>1, StreamFacts DEF PassTypeOK
  <2>3. peek.rec \in 0..Len(client.recs)
    BY <1>1 DEF Reading
  <2>4. at \in Nat
    BY <2>1, <2>3, AtRecord
  <2>5. QED
    BY <1>1, <2>2, <2>3, <2>4
<1>6. Wanted \in Nat
  <2>1. peek.pc = "body" => Current.len \in Nat
    BY <1>1, <1>5, AtRecord DEF Reading, Current
  <2>2. QED
    BY <1>5, <2>1 DEF Wanted, HeaderLen
<1> HIDE DEF at, part
<1>7. n \in Nat /\ Len(part) + n <= Wanted
  BY <1>2, <1>5, <1>6 DEF part
<1>a. part \in Seq(Unit) /\ Len(part) \in Nat
  BY <1>5 DEF part
<1> DEFINE end == Len(Wire)
<1>b. end \in Nat /\ taken \in Nat /\ taken <= end /\ at \in Nat
  BY <1>5
<1>c. n \in Nat /\ taken + n <= end /\ taken' = taken + n
  BY <1>2, <1>7
<1> HIDE DEF end
<1>8. more(n) \in Seq(Unit) /\ Len(more(n)) = n
  <2> DEFINE a == taken + 1
             b == taken + n
  <2>1. a \in Nat /\ b \in Nat /\ 1 <= a /\ a <= b + 1 /\ b <= Len(Wire) /\ b + 1 - a = n
    BY <1>b, <1>c DEF end
  <2> HIDE DEF a, b
  <2>2. SubSeq(Wire, a, b) \in Seq(Unit) /\ Len(SubSeq(Wire, a, b)) = b + 1 - a
    BY <1>1, <2>1, Stretch
  <2>3. QED
    BY <2>1, <2>2 DEF more, a, b
<1>9. /\ part \o more(n) \in Seq(Unit)
      /\ Len(part \o more(n)) = Len(part) + n
  <2> DEFINE m == more(n)
  <2>1. m \in Seq(Unit) /\ Len(m) = n
    BY <1>8
  <2> HIDE DEF m
  <2>2. part \o m \in Seq(Unit) /\ Len(part \o m) = Len(part) + n
    BY <1>a, <2>1, ConcatProperties
  <2>3. QED
    BY <2>2 DEF m
<1>10. /\ peek' \in Peeking /\ peek'.part = part \o more(n) /\ peek'.pc = peek.pc
       /\ peek'.rec = peek.rec /\ peek'.hs = peek.hs /\ peek'.raw = peek.raw
       /\ peek'.err = peek.err
  <2> DEFINE p == part \o more(n)
  <2>1. p \in Seq(Nat \X Nat) /\ peek' = [peek EXCEPT !.part = p]
    BY <1>2, <1>9 DEF Unit
  <2> HIDE DEF p
  <2>2. QED
    BY <1>5, <2>1 DEF Peeking, p
<1>11. ASSUME NEW s \in Nat, taken = s + Len(part), part = SubSeq(Wire, s + 1, taken)
       PROVE  part \o more(n) = SubSeq(Wire, s + 1, taken + n)
  <2> DEFINE a == s + 1
             c == taken + n
  <2>1. a \in Nat /\ c \in Nat /\ 1 <= a /\ a <= taken + 1 /\ taken <= c /\ c <= Len(Wire)
    BY <1>11, <1>a, <1>b, <1>c DEF end
  <2> HIDE DEF a, c
  <2>2. SubSeq(Wire, a, taken) \o SubSeq(Wire, taken + 1, c) = SubSeq(Wire, a, c)
    BY <1>1, <1>5, <2>1, Stretches
  <2>3. QED
    BY <1>11, <2>2 DEF more, a, c
<1>12. PassTypeOK'
  <2>1. taken' \in 0..Len(Wire')
    BY <1>2, <1>4, <1>5, <1>7
  <2>2. QED
    BY <1>1, <1>3, <1>10, <2>1 DEF PassTypeOK
<1>13. Current' = Current
  BY <1>3, <1>10 DEF Current
<1> HIDE DEF more
<1>14. Reading'
  <2>1. peek.pc = "header" =>
          /\ taken' = at + Len(peek'.part) /\ Len(peek'.part) <= HeaderLen
          /\ peek'.part = SubSeq(Wire, at + 1, taken')
    <3>1. SUFFICES ASSUME peek.pc = "header"
                   PROVE  /\ taken' = at + Len(peek'.part) /\ Len(peek'.part) <= HeaderLen
                          /\ peek'.part = SubSeq(Wire, at + 1, taken')
      OBVIOUS
    <3>2. taken = at + Len(part) /\ part = SubSeq(Wire, at + 1, taken) /\ at \in Nat
      BY <1>1, <1>5, <3>1 DEF Reading, at, part
    <3>3. peek'.part = SubSeq(Wire, at + 1, taken')
      BY <1>2, <1>5, <1>10, <1>11, <3>2
    <3>4. Len(peek'.part) = Len(part) + n /\ taken' = at + Len(peek'.part)
      <4>1. Len(peek'.part) = Len(part) + n
        BY <1>9, <1>10
      <4>2. at \in Nat /\ taken' = (at + Len(part)) + n
        BY <1>2, <3>2
      <4>3. QED
        BY <1>7, <1>a, <4>1, <4>2
    <3>5. Wanted = HeaderLen
      BY <3>1 DEF Wanted
    <3>6. QED
      BY <1>7, <3>3, <3>4, <3>5
  <2>2. peek.pc = "body" =>
          /\ taken' = at + HeaderLen + Len(peek'.part) /\ Len(peek'.part) <= Current.len
          /\ peek'.part = SubSeq(Wire, at + HeaderLen + 1, taken')
    <3>1. SUFFICES ASSUME peek.pc = "body"
                   PROVE  /\ taken' = at + HeaderLen + Len(peek'.part)
                          /\ Len(peek'.part) <= Current.len
                          /\ peek'.part = SubSeq(Wire, at + HeaderLen + 1, taken')
      OBVIOUS
    <3>2. taken = at + HeaderLen + Len(part)
          /\ part = SubSeq(Wire, at + HeaderLen + 1, taken) /\ at + HeaderLen \in Nat
      <4>1. taken = at + HeaderLen + Len(part) /\ part = SubSeq(Wire, at + HeaderLen + 1, taken)
        BY <1>1, <3>1 DEF Reading, at, part
      <4>2. at + HeaderLen \in Nat
        BY <1>b DEF HeaderLen
      <4>3. QED
        BY <4>1, <4>2
    <3>3. peek'.part = SubSeq(Wire, at + HeaderLen + 1, taken')
      BY <1>2, <1>5, <1>10, <1>11, <3>2
    <3>4. Len(peek'.part) = Len(part) + n /\ taken' = at + HeaderLen + Len(peek'.part)
      <4>1. Len(peek'.part) = Len(part) + n
        BY <1>9, <1>10
      <4>2. at + HeaderLen \in Nat /\ taken' = (at + HeaderLen + Len(part)) + n
        BY <1>2, <3>2
      <4>3. QED
        BY <1>7, <1>a, <1>5, <4>1, <4>2 DEF HeaderLen
    <3>5. Wanted = Current.len
      BY <3>1 DEF Wanted
    <3>6. QED
      BY <1>7, <3>3, <3>4, <3>5
  <2>3. QED
    BY <1>1, <1>3, <1>4, <1>10, <1>13, <2>1, <2>2 DEF Reading, at
<1>15. QED
  BY <1>1, <1>10, <1>12, <1>14 DEF PassInv

LEMMA FailsInv == ASSUME PassInv, PeekFails PROVE PassInv'
<1> DEFINE at == RecEnd(client)[peek.rec]
           kept == IF peek.pc = "body" THEN at + HeaderLen ELSE at
           head == IF peek.pc = "body"
                   THEN SubSeq(Wire, taken - Len(peek.part) - HeaderLen + 1,
                               taken - Len(peek.part))
                   ELSE <<>>
<1>1. PassTypeOK /\ Reading /\ client \in ClientStreams /\ peek.pc \in {"header", "body"}
  BY StreamFacts DEF PassInv, PeekFails, PassTypeOK
<1>2. /\ PeekReturns(peek.raw \o head, peek.hs, "read")
      /\ client' = client /\ taken' = taken /\ route' = route /\ got' = got
      /\ upEnd' = upEnd /\ downEnd' = downEnd
  BY DEF PeekFails
<1>3. Wire' = Wire
  BY <1>2, SameStream
<1>4. /\ Len(Wire) \in Nat /\ taken \in Nat /\ taken <= Len(Wire) /\ peek.raw \in Seq(Unit)
      /\ Len(peek.part) \in Nat /\ peek.rec \in 0..Len(client.recs) /\ at \in Nat
      /\ peek.hs \in Nat /\ Len(client.recs) \in Nat
  BY <1>1, StreamFacts, AtRecord DEF Reading
<1> DEFINE plen == Len(peek.part)
           end == Len(Wire)
<1>a. /\ end \in Nat /\ plen \in Nat /\ at \in Nat /\ taken <= end
      /\ peek.raw = SubSeq(Wire, 1, at) /\ at <= end
      /\ peek.pc = "header" => taken = at + plen /\ plen <= 2
      /\ peek.pc = "body" => /\ taken = at + 2 + plen /\ peek.rec < Len(client.recs)
                             /\ plen <= client.recs[peek.rec + 1].len
  BY <1>1, <1>4, AtRecord DEF Reading, HeaderLen, Current
<1>b. /\ kept = IF peek.pc = "body" THEN at + 2 ELSE at
      /\ head = IF peek.pc = "body" THEN SubSeq(Wire, taken - plen - 2 + 1, taken - plen) ELSE <<>>
  BY DEF HeaderLen
<1> HIDE DEF at, kept, head, plen, end
<1>5. /\ kept \in Nat /\ kept <= taken
      /\ peek.raw \o head = SubSeq(Wire, 1, kept) /\ peek.raw \o head \in Seq(Unit)
  <2>1. CASE peek.pc = "header"
    <3>1. kept = at /\ head = <<>> /\ at <= taken
      BY <1>a, <1>b, <2>1
    <3>2. peek.raw \o <<>> = peek.raw
      BY <1>4, ConcatEmptySeq
    <3>3. QED
      BY <1>4, <1>a, <3>1, <3>2
  <2>2. CASE peek.pc = "body"
    <3> DEFINE b == at + 2
               a == at + 1
    <3>1. /\ taken - plen - 2 = at /\ taken - plen = b /\ b <= taken
          /\ b \in Nat /\ a \in Nat /\ a <= b + 1 /\ at <= b /\ b <= end /\ 1 <= at + 1
      BY <1>a, <2>2
    <3>2. kept = b /\ head = SubSeq(Wire, at + 1, b)
      BY <1>b, <2>2, <3>1
    <3> HIDE DEF b
    <3>3. SubSeq(Wire, 1, at) \o SubSeq(Wire, at + 1, b) = SubSeq(Wire, 1, b)
      BY <1>1, <1>a, <3>1, Stretches DEF end
    <3>4. SubSeq(Wire, 1, b) \in Seq(Unit)
      BY <1>1, <3>1, Stretch DEF end
    <3>5. QED
      BY <1>a, <3>1, <3>2, <3>3, <3>4
  <2>3. QED
    BY <1>1, <2>1, <2>2
<1>6. \A k \in kept + 1..taken : Wire[k][1] = peek.rec + 1
  <2>1. CASE peek.rec = Len(client.recs)
    <3>1. at = end /\ peek.pc = "header"
      BY <1>1, <1>4, <1>a, <2>1, AtRecord DEF at, end
    <3>2. QED
      BY <1>a, <1>b, <3>1, <1>4
  <2>2. CASE peek.rec < Len(client.recs)
    <3> DEFINE len == client.recs[peek.rec + 1].len
               next == RecEnd(client)[peek.rec + 1]
    <3>1. /\ len \in Nat /\ next = at + 2 + len
          /\ \A k \in at + 1..next : Wire[k][1] = peek.rec + 1
      BY <1>1, <1>4, <2>2, AtRecord DEF at, HeaderLen
    <3>2. peek.pc = "body" => taken = at + 2 + plen /\ plen <= len
      BY <1>a
    <3> HIDE DEF len, next
    <3>3. taken <= next /\ at <= kept
      BY <1>1, <1>4, <1>a, <1>b, <3>1, <3>2
    <3>4. ASSUME NEW k \in kept + 1..taken PROVE k \in at + 1..next
      <4>1. taken \in Nat /\ at \in Nat /\ kept \in Nat /\ next \in Int
        BY <1>4, <1>5, <1>a, <3>1
      <4>2. QED
        BY <3>3, <4>1
    <3>5. QED
      BY <3>1, <3>4
  <2>3. QED
    BY <1>4, <2>1, <2>2
<1>7. /\ peek' \in Peeking /\ replay' = peek.raw \o head /\ replay' \in Seq(Nat \X Nat)
      /\ peek'.pc = "done" /\ peek'.err = "read" /\ peek'.rec = peek.rec
  BY <1>1, <1>2, <1>4, <1>5, ReturnTyped
<1>8. PassTypeOK'
  BY <1>1, <1>2, <1>3, <1>7 DEF PassTypeOK
<1>9. ASSUME NEW i \in Nat, NEW j \in Nat, i = kept, j = taken PROVE Missing(i, j)'
  <2>1. got' \o replay' = replay'
    <3>1. got' = <<>>
      BY <1>1, <1>2 DEF Reading
    <3>2. QED
      BY <1>5, <1>7, <3>1, ConcatEmptySeq
  <2>2. SubSeq(Wire, 1, i) \o SubSeq(Wire, j + 1, taken) = SubSeq(Wire, 1, i)
    <3>1. SubSeq(Wire, j + 1, taken) = <<>>
      BY <1>4, <1>9, SubSeqEmpty
    <3>2. QED
      BY <1>5, <1>9, <3>1, ConcatEmptySeq
  <2>3. i <= j /\ j <= taken' /\ peek'.err = "read"
    BY <1>2, <1>4, <1>5, <1>7, <1>9
  <2>4. \A k \in i + 1..j : Wire'[k][1] = peek'.rec + 1
    BY <1>3, <1>6, <1>7, <1>9
  <2>5. got' \o replay' = SubSeq(Wire', 1, i) \o SubSeq(Wire', j + 1, taken')
    BY <1>2, <1>3, <1>5, <1>7, <1>9, <2>1, <2>2
  <2>6. QED
    BY <2>3, <2>4, <2>5 DEF Missing
<1>10. Returned'
  <2>1. upEnd' = "no"
    BY <1>1, <1>2 DEF Reading
  <2>2. \E i \in Nat : \E j \in Nat : Missing(i, j)'
    BY <1>4, <1>5, <1>9
  <2>3. QED
    BY <1>7, <2>1, <2>2 DEF Returned
<1>11. QED
  BY <1>7, <1>8, <1>10 DEF PassInv


\* A peek that returns all that was read: nothing is missing.
LEMMA ReturnsAll ==
  ASSUME PassTypeOK, Reading, NEW raw, NEW units \in Nat, NEW err \in {"none", "format"},
         raw = SubSeq(Wire, 1, taken), PeekReturns(raw, units, err),
         UNCHANGED <<client, taken, route, got, upEnd, downEnd>>,
         client.hello <= HelloUnits /\ client.hello <= MaxHandshake
           => err = "none" /\ units >= client.hello
  PROVE  PassInv'
<1>1. client \in ClientStreams /\ taken \in Nat /\ Len(Wire) \in Nat /\ taken <= Len(Wire)
  BY StreamFacts DEF PassTypeOK
<1>2. /\ Wire' = Wire /\ HelloUnits' = HelloUnits
      /\ client' = client /\ taken' = taken /\ route' = route /\ got' = got
      /\ upEnd' = upEnd /\ downEnd' = downEnd
  BY SameStream
<1>3. raw \in Seq(Unit)
  BY <1>1, Stretch
<1>4. /\ peek' \in Peeking /\ replay' = raw /\ replay' \in Seq(Nat \X Nat)
      /\ peek'.pc = "done" /\ peek'.err = err /\ peek'.sni = (units >= client.hello)
      /\ peek'.rec = peek.rec
  BY <1>3, ReturnTyped
<1>5. PassTypeOK'
  BY <1>2, <1>4 DEF PassTypeOK
<1>6. route' = "peek" /\ got' = <<>> /\ upEnd' = "no"
  BY <1>2 DEF Reading
<1>7. ASSUME NEW i \in Nat, i = taken PROVE Missing(i, i)'
  <2>1. got' \o replay' = raw
    BY <1>3, <1>4, <1>6, ConcatEmptySeq
  <2>2. SubSeq(Wire, 1, i) \o SubSeq(Wire, i + 1, taken) = raw
    <3>1. SubSeq(Wire, i + 1, taken) = <<>>
      BY <1>1, <1>7, SubSeqEmpty
    <3>2. QED
      BY <1>3, <1>7, <3>1, ConcatEmptySeq
  <2>3. i <= taken' /\ \A k \in i + 1..i : Wire'[k][1] = peek'.rec + 1
    BY <1>2, <1>7
  <2>4. got' \o replay' = SubSeq(Wire', 1, i) \o SubSeq(Wire', i + 1, taken')
    BY <1>2, <2>1, <2>2
  <2>5. QED
    BY <2>3, <2>4 DEF Missing
<1>8. Returned'
  <2>1. \E i \in Nat : \E j \in Nat : Missing(i, j)'
    BY <1>1, <1>7
  <2>2. client'.hello <= HelloUnits' /\ client'.hello <= MaxHandshake
          => peek'.err = "none" /\ peek'.sni
    BY <1>2, <1>4
  <2>3. QED
    BY <1>6, <2>1, <2>2 DEF Returned
<1>9. QED
  BY <1>4, <1>5, <1>8 DEF PassInv

LEMMA HeaderInv == ASSUME PassInv, HeaderRead PROVE PassInv'
<1> DEFINE at == RecEnd(client)[peek.rec]
           rec == peek.rec
           R == Len(client.recs)
<1>1. /\ PassTypeOK /\ Reading /\ peek.pc = "header" /\ Len(peek.part) = 2
      /\ client \in ClientStreams
  BY DEF PassInv, HeaderRead, HeaderLen, PassTypeOK
<1>2. UNCHANGED <<client, taken, route, got, upEnd, downEnd>>
  BY DEF HeaderRead
<1>3. /\ Len(Wire) \in Nat /\ taken \in Nat /\ taken <= Len(Wire) /\ R \in Nat
      /\ rec \in 0..R /\ rec < MaxRecords /\ MaxRecords \in Nat /\ peek.hs \in Nat
      /\ client.hello \in Nat /\ peek.hs < client.hello /\ peek \in Peeking
  BY <1>1, StreamFacts DEF Reading, PassTypeOK
<1>4. /\ at \in Nat /\ (rec = R => at = Len(Wire))
      /\ rec < R => client.recs[rec + 1].len \in Nat
  BY <1>1, <1>3, AtRecord
<1>5. /\ taken = at + 2 /\ peek.part = SubSeq(Wire, at + 1, taken)
      /\ peek.raw = SubSeq(Wire, 1, at) /\ peek.hs = at - HeaderLen * rec
      /\ \A k \in 1..rec : HelloRecord(k)
  BY <1>1 DEF Reading
<1>6. client.recs[rec + 1] = Current
  BY DEF Current
<1> HIDE DEF at, rec, R
<1>7. rec < R
  BY <1>3, <1>4, <1>5
<1>8. peek.raw \o peek.part = SubSeq(Wire, 1, taken)
  <2>1. at <= taken /\ 1 <= at + 1
    BY <1>3, <1>4, <1>5
  <2>2. SubSeq(Wire, 1, at) \o SubSeq(Wire, at + 1, taken) = SubSeq(Wire, 1, taken)
    BY <1>1, <1>3, <1>4, <2>1, Stretches
  <2>3. QED
    BY <1>5, <2>2
<1>9. ASSUME ~ HelloRecord(rec + 1) PROVE ~ (client.hello <= HelloUnits)
  <2>1. rec \in 0..Len(client.recs) /\ rec <= MaxRecords
    BY <1>3 DEF R
  <2>2. HelloUnits = RecEnd(client)[rec] - HeaderLen * rec
    BY <1>1, <1>5, <1>9, <2>1, HelloIs
  <2>3. HelloUnits = peek.hs
    BY <1>5, <2>2 DEF at, rec
  <2>4. QED
    BY <1>3, <2>3
<1>10. CASE Current.kind = "other"
               /\ PeekReturns(peek.raw \o peek.part, peek.hs,
                              IF peek.rec = 0 THEN "format" ELSE "none")
  <2> DEFINE err == IF peek.rec = 0 THEN "format" ELSE "none"
             raw == peek.raw \o peek.part
  <2>1. ~ HelloRecord(rec + 1)
    BY <1>6, <1>10 DEF HelloRecord
  <2>2. err \in {"none", "format"} /\ PeekReturns(raw, peek.hs, err)
        /\ raw = SubSeq(Wire, 1, taken)
    BY <1>8, <1>10
  <2> HIDE DEF err, raw
  <2>3. QED
    BY <1>1, <1>2, <1>3, <1>9, <2>1, <2>2, ReturnsAll
<1>11. CASE Current.kind = "handshake" /\ Current.len = 0
               /\ PeekReturns(peek.raw \o peek.part, peek.hs, "format")
  <2> DEFINE raw == peek.raw \o peek.part
  <2>1. ~ HelloRecord(rec + 1)
    BY <1>6, <1>11 DEF HelloRecord
  <2>2. PeekReturns(raw, peek.hs, "format") /\ raw = SubSeq(Wire, 1, taken)
    BY <1>8, <1>11
  <2> HIDE DEF raw
  <2>3. QED
    BY <1>1, <1>2, <1>3, <1>9, <2>1, <2>2, ReturnsAll
<1>12. CASE /\ Current.kind = "handshake" /\ Current.len > 0
            /\ peek' = [peek EXCEPT !.pc = "body", !.part = <<>>]
            /\ UNCHANGED replay
  <2>1. <<>> \in Seq(Nat \X Nat) /\ Len(<<>>) = 0
    BY EmptySeq
  <2>2. /\ peek' \in Peeking /\ peek'.pc = "body" /\ peek'.part = <<>> /\ peek'.raw = peek.raw
        /\ peek'.hs = peek.hs /\ peek'.rec = peek.rec
    BY <1>3, <1>12, <2>1 DEF Peeking
  <2>3. /\ Wire' = Wire /\ RecEnd(client') = RecEnd(client) /\ HelloRecord(rec + 1)
        /\ \A k : HelloRecord(k)' = HelloRecord(k)
    BY <1>2, <1>6, <1>12, SameStream DEF HelloRecord
  <2>4. PassTypeOK'
    BY <1>1, <1>2, <1>12, <2>2, <2>3 DEF PassTypeOK
  <2>5. SubSeq(Wire, at + 2 + 1, taken) = <<>>
    <3>1. taken < at + 2 + 1 /\ at + 2 + 1 \in Int /\ taken \in Int
      BY <1>4, <1>5
    <3>2. QED
      BY <3>1, SubSeqEmpty
  <2>6. /\ taken = at + 2 + Len(peek'.part)
        /\ Len(peek'.part) <= Current.len
    <3>1. Current.len \in Nat
      BY <1>4, <1>6, <1>7
    <3>2. QED
      BY <1>4, <1>5, <2>1, <2>2, <3>1
  <2>7. Current' = Current
    BY <1>2, <2>2 DEF Current
  <2>8. /\ taken' = at + HeaderLen + Len(peek'.part) /\ Len(peek'.part) <= Current'.len
        /\ peek'.part = SubSeq(Wire', at + HeaderLen + 1, taken')
    BY <1>2, <2>2, <2>3, <2>5, <2>6, <2>7 DEF HeaderLen
  <2>9. Reading'
    BY <1>1, <1>2, <1>7, <1>12, <2>2, <2>3, <2>8 DEF Reading, at, rec, R
  <2>10. QED
    BY <2>2, <2>4, <2>9 DEF PassInv
<1>13. QED
  BY <1>10, <1>11, <1>12 DEF HeaderRead

LEMMA BodyInv == ASSUME PassInv, BodyRead PROVE PassInv'
<1> DEFINE at == RecEnd(client)[peek.rec]
           next == RecEnd(client)[peek.rec + 1]
           rec == peek.rec
           R == Len(client.recs)
           len == Current.len
           units == peek.hs + len
           raw == peek.raw \o SubSeq(Wire, taken - len - HeaderLen + 1, taken)
<1>1. /\ PassTypeOK /\ Reading /\ peek.pc = "body" /\ Len(peek.part) = len
      /\ client \in ClientStreams
  BY DEF PassInv, BodyRead, PassTypeOK
<1>2. UNCHANGED <<client, taken, route, got, upEnd, downEnd>>
  BY DEF BodyRead
<1>3. /\ Len(Wire) \in Nat /\ taken \in Nat /\ taken <= Len(Wire) /\ R \in Nat
      /\ rec \in 0..R /\ rec < R /\ rec < MaxRecords /\ MaxRecords \in Nat /\ peek.hs \in Nat
      /\ client.hello \in Nat /\ peek \in Peeking /\ MaxHandshake \in Nat
  BY <1>1, StreamFacts DEF Reading, PassTypeOK
<1>4. at \in Nat /\ len \in Nat /\ next = at + HeaderLen + len /\ next <= Len(Wire)
  BY <1>1, <1>3, AtRecord DEF Current
<1>5. /\ taken = next /\ peek.raw = SubSeq(Wire, 1, at) /\ peek.hs = at - HeaderLen * rec
      /\ (\A k \in 1..rec : HelloRecord(k)) /\ HelloRecord(rec + 1)
  BY <1>1, <1>4 DEF Reading
<1>6. /\ \/ /\ rec + 1 = MaxRecords \/ units >= client.hello \/ units >= MaxHandshake
            /\ PeekReturns(raw, units, "none")
         \/ /\ ~ (rec + 1 = MaxRecords \/ units >= client.hello \/ units >= MaxHandshake)
            /\ peek' = [peek EXCEPT !.pc = "header", !.part = <<>>, !.hs = units,
                                    !.rec = @ + 1, !.raw = raw]
            /\ replay' = replay
  BY DEF BodyRead
<1> DEFINE sum == peek.hs
<1>7. /\ sum \in Nat /\ sum = at - HeaderLen * rec /\ units = sum + len
  BY <1>3, <1>5
<1>8. raw = SubSeq(Wire, 1, at) \o SubSeq(Wire, taken - len - HeaderLen + 1, taken)
  BY <1>5
<1> HIDE DEF at, next, rec, R, len, sum, units, raw
<1>9. units \in Nat /\ units = next - HeaderLen * (rec + 1)
  BY <1>3, <1>4, <1>7 DEF HeaderLen
<1>10. raw = SubSeq(Wire, 1, taken) /\ raw \in Seq(Unit)
  <2>1. taken - len - HeaderLen = at /\ at <= taken
    BY <1>4, <1>5 DEF HeaderLen
  <2>2. SubSeq(Wire, 1, at) \o SubSeq(Wire, at + 1, taken) = SubSeq(Wire, 1, taken)
    <3>1. 1 <= at + 1
      BY <1>4
    <3>2. QED
      BY <1>1, <1>3, <1>4, <2>1, <3>1, Stretches
  <2>3. SubSeq(Wire, 1, taken) \in Seq(Unit)
    BY <1>1, <1>3, Stretch
  <2>4. QED
    BY <1>8, <2>1, <2>2, <2>3
<1>11. \A k \in 1..rec + 1 : HelloRecord(k)
  <2>1. \A k \in 1..rec + 1 : k \in 1..rec \/ k = rec + 1
    BY <1>3
  <2>2. QED
    BY <1>5, <2>1
<1>12. rec + 1 \in 0..R
  BY <1>3
<1>13. CASE /\ rec + 1 = MaxRecords \/ units >= client.hello \/ units >= MaxHandshake
            /\ PeekReturns(raw, units, "none")
  <2>1. ASSUME rec + 1 = MaxRecords PROVE HelloUnits = units
    <3> DEFINE n == rec + 1
    <3>1. n \in 0..Len(client.recs) /\ n <= MaxRecords /\ (\A k \in 1..n : HelloRecord(k))
          /\ n = MaxRecords
      BY <1>3, <1>11, <1>12, <2>1 DEF R
    <3> HIDE DEF n
    <3>2. HelloUnits = RecEnd(client)[n] - HeaderLen * n
      BY <1>1, <3>1, HelloIs
    <3>3. QED
      BY <1>9, <3>2 DEF n, next, rec
  <2>2. client.hello <= HelloUnits /\ client.hello <= MaxHandshake => units >= client.hello
    BY <1>3, <1>9, <1>13, <2>1
  <2>3. QED
    BY <1>1, <1>2, <1>9, <1>10, <1>13, <2>2, ReturnsAll
<1>14. CASE /\ ~ (rec + 1 = MaxRecords \/ units >= client.hello \/ units >= MaxHandshake)
            /\ peek' = [peek EXCEPT !.pc = "header", !.part = <<>>, !.hs = units,
                                    !.rec = @ + 1, !.raw = raw]
            /\ replay' = replay
  <2>1. <<>> \in Seq(Nat \X Nat) /\ Len(<<>>) = 0 /\ raw \in Seq(Nat \X Nat)
        /\ peek.rec + 1 \in Nat
    BY <1>3, <1>10, EmptySeq DEF Unit, rec
  <2>2. /\ peek' \in Peeking /\ peek'.pc = "header" /\ peek'.part = <<>> /\ peek'.raw = raw
        /\ peek'.hs = units /\ peek'.rec = rec + 1
    BY <1>3, <1>9, <1>14, <2>1 DEF Peeking, rec
  <2>3. /\ Wire' = Wire /\ RecEnd(client') = RecEnd(client)
        /\ \A k : HelloRecord(k)' = HelloRecord(k)
    BY <1>2, SameStream
  <2>4. PassTypeOK'
    BY <1>1, <1>2, <1>14, <2>2, <2>3 DEF PassTypeOK
  <2>5. SubSeq(Wire, next + 1, taken) = <<>>
    <3>1. taken < next + 1 /\ next + 1 \in Int /\ taken \in Int
      BY <1>3, <1>5
    <3>2. QED
      BY <3>1, SubSeqEmpty
  <2>6. rec + 1 < MaxRecords /\ units < client.hello /\ units < MaxHandshake
    BY <1>3, <1>9, <1>14
  <2>7. RecEnd(client')[peek'.rec] = next
    BY <2>2, <2>3 DEF next, rec
  <2>8. taken = next + Len(peek'.part) /\ Len(peek'.part) <= HeaderLen
    BY <1>3, <1>5, <2>1, <2>2 DEF HeaderLen
  <2>9. Reading'
    <3>1. /\ route' = "peek" /\ replay' = <<>> /\ got' = <<>> /\ upEnd' = "no"
          /\ peek'.rec \in 0..Len(client'.recs) /\ peek'.rec < MaxRecords
      BY <1>1, <1>2, <1>12, <1>14, <2>2, <2>6 DEF Reading, R
    <3>2. /\ \A k \in 1..peek'.rec : HelloRecord(k)'
          /\ peek'.hs = next - HeaderLen * peek'.rec
          /\ peek'.hs < client'.hello /\ peek'.hs < MaxHandshake
          /\ peek'.raw = SubSeq(Wire', 1, next)
      BY <1>2, <1>5, <1>9, <1>10, <1>11, <2>2, <2>3, <2>6
    <3>3. /\ taken' = next + Len(peek'.part) /\ Len(peek'.part) <= HeaderLen
          /\ peek'.part = SubSeq(Wire', next + 1, taken')
      BY <1>2, <2>2, <2>3, <2>5, <2>8
    <3>4. QED
      BY <2>2, <2>7, <3>1, <3>2, <3>3 DEF Reading
  <2>10. QED
    BY <2>2, <2>4, <2>9 DEF PassInv
<1>15. QED
  BY <1>6, <1>13, <1>14


\* Routing, dialling and the ends change neither what was read nor what was passed on.
LEMMA RouteInv ==
  ASSUME PassInv,
         RoutePeeked \/ SpliceDials \/ ConnEnds \/ ConnBreaks \/ OriginEnds \/ ConnCloses
  PROVE  PassInv'
<1>1. /\ PassTypeOK /\ peek.pc \in {"header", "body", "done"}
      /\ (peek.pc # "done" => Reading) /\ (peek.pc = "done" => Returned)
  BY StreamFacts DEF PassInv
<1>2. UNCHANGED <<client, taken, peek, replay, got>>
  BY DEF RoutePeeked, SpliceDials, ConnEnds, ConnBreaks, OriginEnds, ConnCloses
<1>3. Wire' = Wire /\ HelloUnits' = HelloUnits
  BY <1>2, SameStream
<1>4. peek.pc = "done"
  <2>1. CASE RoutePeeked
    BY <2>1 DEF RoutePeeked
  <2>2. CASE route # "peek"
    BY <1>1, <2>2 DEF Reading
  <2>3. QED
    BY <2>1, <2>2 DEF SpliceDials, ConnEnds, ConnBreaks, OriginEnds, ConnCloses
<1>5. PassTypeOK'
  <2>1. /\ route' \in {"peek", "tls", "dial", "splice", "closed"}
        /\ upEnd' \in {"no", "end", "broken"} /\ downEnd' \in BOOLEAN
    BY <1>1 DEF PassTypeOK, RoutePeeked, SpliceDials, ConnEnds, ConnBreaks, OriginEnds,
                ConnCloses
  <2>2. QED
    BY <1>1, <1>2, <1>3, <2>1 DEF PassTypeOK
<1>6. PICK i \in Nat : \E j \in Nat : Missing(i, j)
  BY <1>1, <1>4 DEF Returned
<1>7. PICK j \in Nat : Missing(i, j)
  BY <1>6
<1>8. Missing(i, j)'
  BY <1>2, <1>3, <1>7 DEF Missing
<1>9. upEnd' = "end" => replay = <<>> /\ taken = Len(Wire)
  BY <1>1, <1>4 DEF Returned, RoutePeeked, SpliceDials, ConnEnds, ConnBreaks, OriginEnds,
                    ConnCloses
<1>10. peek.err = "none" /\ peek.sni /\ client.pinned => route' # "tls"
  BY <1>1, <1>4 DEF Returned, RoutePeeked, SpliceDials, ConnEnds, ConnBreaks, OriginEnds,
                    ConnCloses
<1>11. Returned'
  <2>1. peek'.err # "read" /\ client'.hello <= HelloUnits' /\ client'.hello <= MaxHandshake
          => peek'.err = "none" /\ peek'.sni
    BY <1>1, <1>2, <1>3, <1>4 DEF Returned
  <2>2. \E a \in Nat : \E b \in Nat : Missing(a, b)'
    BY <1>8
  <2>3. QED
    BY <1>2, <1>3, <1>9, <1>10, <2>1, <2>2 DEF Returned
<1>12. QED
  BY <1>2, <1>4, <1>5, <1>11 DEF PassInv

\* A read moves units from the buffer, or from the stream, to what the reader has got.
LEMMA Regrouped ==
  ASSUME NEW a \in Seq(Unit), NEW b \in Seq(Unit), NEW c \in Seq(Unit)
  PROVE  (a \o b) \o c = a \o (b \o c)
BY ConcatAssociative

LEMMA CopyInv == ASSUME PassInv, ReplayRead \/ ConnRead PROVE PassInv'
<1>1. /\ PassTypeOK /\ upEnd = "no" /\ route \in {"tls", "splice"}
      /\ (peek.pc # "done" => Reading) /\ (peek.pc = "done" => Returned)
  BY DEF PassInv, ReplayRead, ConnRead
<1>2. UNCHANGED <<client, peek, route, upEnd, downEnd>>
  BY DEF ReplayRead, ConnRead
<1>3. Wire' = Wire /\ HelloUnits' = HelloUnits
  BY <1>2, SameStream
<1>4. peek.pc = "done" /\ Returned
  BY <1>1 DEF Reading
<1>5. /\ Wire \in Seq(Unit) /\ Len(Wire) \in Nat /\ taken \in Nat /\ taken <= Len(Wire)
      /\ replay \in Seq(Unit) /\ got \in Seq(Unit) /\ client \in ClientStreams
  BY <1>1, StreamFacts DEF PassTypeOK
<1>6. PICK i \in Nat : \E j \in Nat : Missing(i, j)
  BY <1>4 DEF Returned
<1>7. PICK j \in Nat : Missing(i, j)
  BY <1>6
<1>8. SUFFICES /\ taken' \in Nat /\ taken <= taken' /\ taken' <= Len(Wire)
               /\ replay' \in Seq(Unit) /\ got' \in Seq(Unit)
               /\ got' \o replay' = SubSeq(Wire, 1, i) \o SubSeq(Wire, j + 1, taken')
  <2>1. PassTypeOK'
    BY <1>1, <1>2, <1>3, <1>5 DEF PassTypeOK, Unit
  <2>2. Missing(i, j)'
    <3>1. i <= j /\ j <= taken' /\ (peek'.err # "read" => i = j)
      BY <1>2, <1>5, <1>7 DEF Missing
    <3>2. QED
      BY <1>2, <1>3, <1>7, <3>1 DEF Missing
  <2>3. Returned'
    <3>1. peek'.err # "read" /\ client'.hello <= HelloUnits' /\ client'.hello <= MaxHandshake
            => peek'.err = "none" /\ peek'.sni
      BY <1>2, <1>3, <1>4 DEF Returned
    <3>2. upEnd' = "no" /\ (peek'.err = "none" /\ peek'.sni /\ client'.pinned => route' # "tls")
      BY <1>1, <1>2, <1>4 DEF Returned
    <3>3. \E a \in Nat : \E b \in Nat : Missing(a, b)'
      BY <2>2
    <3>4. QED
      BY <3>1, <3>2, <3>3 DEF Returned
  <2>4. QED
    BY <1>2, <1>4, <2>1, <2>3 DEF PassInv
<1>9. CASE ReplayRead
  <2> DEFINE r == replay
             m == Len(r)
  <2>1. taken' = taken /\ r # <<>>
    BY <1>9 DEF ReplayRead
  <2>2. PICK n \in 1..m :
          /\ got' = got \o SubSeq(r, 1, n)
          /\ replay' = SubSeq(r, n + 1, m)
    BY <1>9 DEF ReplayRead
  <2>3. r \in Seq(Unit) /\ m \in Nat
    BY <1>5, LenProperties
  <2>4. \A k \in 1..m : r[k] \in Unit
    BY <2>3, ElementOfSeq
  <2> HIDE DEF m
  <2>5. SubSeq(r, 1, n) \in Seq(Unit) /\ SubSeq(r, n + 1, m) \in Seq(Unit)
    <3>1. n \in Int /\ n + 1 \in Int /\ m \in Int /\ (\A k \in 1..n : r[k] \in Unit)
          /\ \A k \in n + 1..m : r[k] \in Unit
      BY <2>3, <2>4
    <3>2. QED
      BY <3>1, SubSeqProperties
  <2>6. SubSeq(r, 1, n) \o SubSeq(r, n + 1, m) = r
    <3>1. 1 \in 1..m + 1 /\ n \in 1 - 1..m /\ m \in n..m
      BY <2>3
    <3>2. SubSeq(r, 1, n) \o SubSeq(r, n + 1, m) = SubSeq(r, 1, m)
      BY <2>3, <3>1, ConcatAdjacentSubSeq DEF m
    <3>3. SubSeq(r, 1, m) = r
      BY <2>3, SubSeqFull DEF m
    <3>4. QED
      BY <3>2, <3>3
  <2>7. got' \o replay' = got \o replay /\ got' \in Seq(Unit) /\ replay' \in Seq(Unit)
    <3> DEFINE a == SubSeq(r, 1, n)
               b == SubSeq(r, n + 1, m)
    <3>1. a \in Seq(Unit) /\ b \in Seq(Unit) /\ a \o b = r /\ got' = got \o a /\ replay' = b
      BY <2>2, <2>5, <2>6
    <3> HIDE DEF a, b
    <3>2. got \o a \in Seq(Unit)
      BY <1>5, <3>1, ConcatProperties
    <3>3. (got \o a) \o b = got \o (a \o b)
      <4>1. got \in Seq(Unit) /\ a \in Seq(Unit) /\ b \in Seq(Unit)
        BY <1>5, <3>1
      <4>2. QED
        BY <4>1, Regrouped
    <3>4. QED
      BY <3>1, <3>2, <3>3
  <2>8. QED
    BY <1>5, <1>7, <2>1, <2>7 DEF Missing
<1>10. CASE ConnRead
  <2>1. replay = <<>> /\ replay' = <<>>
    BY <1>10 DEF ConnRead
  <2>2. PICK n \in 1..Len(Wire) - taken :
          /\ got' = got \o SubSeq(Wire, taken + 1, taken + n)
          /\ taken' = taken + n
    BY <1>10 DEF ConnRead
  <2>3. n \in Nat /\ taken' \in Nat /\ taken <= taken' /\ taken' <= Len(Wire)
    BY <1>5, <2>2
  <2> DEFINE a == SubSeq(Wire, 1, i)
             b == SubSeq(Wire, j + 1, taken)
             c == SubSeq(Wire, taken + 1, taken')
  <2>4. i <= j /\ j <= taken /\ got \o <<>> = a \o b
    BY <1>7, <2>1 DEF Missing
  <2>5. got = a \o b
    BY <1>5, <2>4, ConcatEmptySeq
  <2>6. a \in Seq(Unit) /\ b \in Seq(Unit) /\ c \in Seq(Unit)
    <3>1. /\ 1 <= j + 1 /\ j + 1 <= taken + 1 /\ j + 1 \in Nat /\ i <= Len(Wire)
          /\ 1 <= i + 1
      BY <1>5, <2>4
    <3>2. 1 <= taken + 1 /\ taken + 1 \in Nat /\ taken + 1 <= taken' + 1
      BY <1>5, <2>3, NextInOrder
    <3>3. a \in Seq(Unit) /\ b \in Seq(Unit)
      BY <1>5, <3>1, Stretch
    <3>4. c \in Seq(Unit)
      BY <1>5, <2>3, <3>2, Stretch
    <3>5. QED
      BY <3>3, <3>4
  <2>7. b \o c = SubSeq(Wire, j + 1, taken')
    <3>1. 1 <= j + 1 /\ j + 1 <= taken + 1 /\ j + 1 \in Nat
      BY <1>5, <2>4
    <3>2. QED
      BY <1>5, <2>3, <3>1, Stretches
  <2>8. got' = got \o c
    BY <2>2
  <2> HIDE DEF a, b, c
  <2>9. got' = a \o (b \o c) /\ got' \in Seq(Unit)
    <3>1. (a \o b) \o c = a \o (b \o c)
      <4>1. a \in Seq(Unit) /\ b \in Seq(Unit) /\ c \in Seq(Unit)
        BY <2>6
      <4>2. QED
        BY <4>1, Regrouped
    <3>2. got \o c \in Seq(Unit)
      BY <1>5, <2>6, ConcatProperties
    <3>3. QED
      BY <2>5, <2>8, <3>1, <3>2
  <2>10. got' \o replay' = a \o SubSeq(Wire, j + 1, taken')
    BY <2>1, <2>7, <2>9, ConcatEmptySeq
  <2>11. replay' \in Seq(Unit)
    BY <1>5, <2>1
  <2>12. QED
    BY <2>3, <2>9, <2>10, <2>11 DEF a
<1>11. QED
  BY <1>9, <1>10

LEMMA PassNextInv == PassInv /\ [PassNext]_passVars => PassInv'
<1> SUFFICES ASSUME PassInv, [PassNext]_passVars PROVE PassInv'
  OBVIOUS
<1>1. CASE PeekReads
  BY <1>1, ReadsInv
<1>2. CASE PeekFails
  BY <1>2, FailsInv
<1>3. CASE HeaderRead
  BY <1>3, HeaderInv
<1>4. CASE BodyRead
  BY <1>4, BodyInv
<1>5. CASE RoutePeeked \/ SpliceDials \/ ConnEnds \/ ConnBreaks \/ OriginEnds \/ ConnCloses
  BY <1>5, RouteInv
<1>6. CASE ReplayRead \/ ConnRead
  BY <1>6, CopyInv
<1>7. CASE UNCHANGED passVars
  <2>1. UNCHANGED <<client, taken, peek, route, replay, got, upEnd, downEnd>>
    BY <1>7 DEF passVars
  <2>2. /\ Wire' = Wire /\ HelloUnits' = HelloUnits /\ RecEnd(client') = RecEnd(client)
        /\ (\A k : HelloRecord(k)' = HelloRecord(k)) /\ Current' = Current
    BY <2>1, SameStream DEF Current
  <2>3. PassTypeOK'
    BY <2>1, <2>2 DEF PassInv, PassTypeOK
  <2>4. peek'.pc # "done" => Reading'
    BY <2>1, <2>2 DEF PassInv, Reading
  <2>5. peek'.pc = "done" => Returned'
    <3>1. SUFFICES ASSUME peek.pc = "done" PROVE Returned'
      BY <2>1
    <3>2. \A i, j \in Nat : Missing(i, j) => Missing(i, j)'
      BY <2>1, <2>2 DEF Missing
    <3>3. Returned
      BY <3>1 DEF PassInv
    <3>4. \E i \in Nat : \E j \in Nat : Missing(i, j)'
      BY <3>2, <3>3 DEF Returned
    <3>5. QED
      BY <2>1, <2>2, <3>3, <3>4 DEF Returned
  <2>6. QED
    BY <2>3, <2>4, <2>5 DEF PassInv
<1>8. QED
  BY <1>1, <1>2, <1>3, <1>4, <1>5, <1>6, <1>7 DEF PassNext

\* A connection keeps its types: what PeekClientHello has read of the records, the buffer
\* of prefixConn and what its reader has got, for any streams and bounds.
THEOREM PassTypes == PassSpec => []PassTypeOK
<1>1. PassInv => PassTypeOK
  BY DEF PassInv
<1>2. QED
  BY <1>1, PassInitInv, PassNextInv, PTL DEF PassSpec

\* However the records of a ClientHello come in, the reader of prefixConn gets the client's
\* stream exactly, but for one stretch of the record at which a read failed; and a pinned
\* domain whose ClientHello was read is not terminated.
THEOREM PeekIsExact == PassSpec => []PeekExact
<1>1. ASSUME PassInv PROVE PeekExact
  <2>1. PassTypeOK /\ peek.pc \in {"header", "body", "done"}
        /\ (peek.pc # "done" => Reading) /\ (peek.pc = "done" => Returned)
    BY <1>1, StreamFacts DEF PassInv
  <2>2. /\ Wire \in Seq(Unit) /\ Len(Wire) \in Nat /\ taken \in Nat /\ taken <= Len(Wire)
        /\ replay \in Seq(Unit) /\ got \in Seq(Unit) /\ client \in ClientStreams
    BY <2>1, StreamFacts DEF PassTypeOK
  <2>3. CASE peek.pc # "done"
    <3>1. /\ Reading /\ peek.err \in {"none", "read", "format"} /\ got = <<>> /\ upEnd = "no"
          /\ route = "peek"
      BY <2>1, <2>3, StreamFacts DEF Reading
    <3>2. IsPrefix(got, Wire)
      <4>1. <<>> \o Wire = Wire /\ <<>> \in Seq(Unit)
        BY <2>2, ConcatEmptySeq, EmptySeq
      <4>2. QED
        BY <2>2, <3>1, <4>1, PrefixOfConcat
    <3>3. 0 \in 0..Len(Wire) /\ 0 \in 0..Len(Wire) /\ IsPrefix(got, CutStream(0, 0))
      <4>1. SubSeq(Wire, 1, 0) = <<>> /\ SubSeq(Wire, 0 + 1, Len(Wire)) = Wire
        BY <2>2, SubSeqEmpty, SubSeqFull
      <4>2. \A k \in 0 + 1..0 : Wire[k][1] = peek.rec + 1
        OBVIOUS
      <4>3. CutStream(0, 0) = Wire
        BY <2>2, <4>1, <4>2, ConcatEmptySeq DEF CutStream
      <4>4. QED
        BY <2>2, <3>2, <4>3
    <3>4. \E i \in 0..Len(Wire) : \E j \in i..Len(Wire) : IsPrefix(got, CutStream(i, j))
      BY <3>3
    <3>5. QED
      BY <3>1, <3>2, <3>4 DEF PeekExact
  <2>4. CASE peek.pc = "done"
    <3>1. Returned
      BY <2>1, <2>4
    <3>2. PICK i \in Nat : \E j \in Nat : Missing(i, j)
      BY <3>1 DEF Returned
    <3>3. PICK j \in Nat : Missing(i, j)
      BY <3>2
    <3> DEFINE rest == SubSeq(Wire, taken + 1, Len(Wire))
               a == SubSeq(Wire, 1, i)
               b == SubSeq(Wire, j + 1, taken)
    <3>4. i <= j /\ j <= taken /\ (peek.err # "read" => i = j) /\ got \o replay = a \o b
      BY <3>3 DEF Missing
    <3>5. /\ i <= Len(Wire) /\ 1 <= i + 1 /\ j + 1 \in Nat /\ 1 <= j + 1 /\ j + 1 <= taken + 1
          /\ taken + 1 \in Nat /\ 1 <= taken + 1 /\ taken + 1 <= Len(Wire) + 1
      BY <2>2, <3>4
    <3>6. a \in Seq(Unit) /\ b \in Seq(Unit) /\ rest \in Seq(Unit)
      BY <2>2, <3>5, Stretch
    <3>7. b \o rest = SubSeq(Wire, j + 1, Len(Wire))
      <4> DEFINE end == Len(Wire)
                 start == j + 1
      <4>1. /\ start \in Nat /\ 1 <= start /\ start <= taken + 1 /\ taken \in Nat
            /\ taken <= end /\ end \in Nat /\ end <= Len(Wire)
        BY <2>2, <3>5
      <4> HIDE DEF end, start
      <4>2. SubSeq(Wire, start, taken) \o SubSeq(Wire, taken + 1, end) = SubSeq(Wire, start, end)
        BY <2>2, <4>1, Stretches
      <4>3. QED
        BY <4>2 DEF end, start
    <3>8. IsPrefix(got, a \o (b \o rest))
      <4> HIDE DEF a, b, rest
      <4>a. replay \o rest \in Seq(Unit)
        BY <2>2, <3>6, ConcatProperties
      <4>1. (got \o replay) \o rest = got \o (replay \o rest)
        <5>1. got \in Seq(Unit) /\ replay \in Seq(Unit) /\ rest \in Seq(Unit)
          BY <2>2, <3>6
        <5>2. QED
          BY <5>1, ConcatAssociative
      <4>2. (a \o b) \o rest = a \o (b \o rest)
        BY <3>6, ConcatAssociative
      <4>3. IsPrefix(got, got \o (replay \o rest))
        BY <2>2, <4>a, PrefixOfConcat
      <4>4. QED
        BY <3>4, <4>1, <4>2, <4>3
    <3>9. CutStream(i, j) = a \o (b \o rest)
      <4>1. \A k \in i + 1..j : Wire[k][1] = peek.rec + 1
        BY <3>3 DEF Missing
      <4>2. QED
        BY <3>7, <4>1 DEF CutStream
    <3>10. ASSUME peek.err # "read"
           PROVE  IsPrefix(got, Wire) /\ (upEnd = "end" => got = Wire)
      <4>1. i = j
        BY <3>4, <3>10
      <4>2. a \o (b \o rest) = Wire
        <5>1. SubSeq(Wire, 1, i) \o SubSeq(Wire, i + 1, Len(Wire)) = SubSeq(Wire, 1, Len(Wire))
          <6> DEFINE end == Len(Wire)
          <6>1. end \in Nat /\ end <= Len(Wire) /\ i <= end /\ 1 <= i + 1
            BY <2>2, <3>5
          <6> HIDE DEF end
          <6>2. SubSeq(Wire, 1, i) \o SubSeq(Wire, i + 1, end) = SubSeq(Wire, 1, end)
            BY <2>2, <6>1, Stretches
          <6>3. QED
            BY <6>2 DEF end
        <5>2. SubSeq(Wire, 1, Len(Wire)) = Wire
          BY <2>2, SubSeqFull
        <5>3. QED
          BY <3>7, <4>1, <5>1, <5>2
      <4>3. ASSUME upEnd = "end" PROVE got = Wire
        <5>1. replay = <<>> /\ taken = Len(Wire)
          BY <3>1, <4>3 DEF Returned
        <5>2. got = a \o b
          BY <2>2, <3>4, <5>1, ConcatEmptySeq
        <5>3. rest = <<>>
          BY <2>2, <5>1, SubSeqEmpty
        <5>4. b \o rest = b
          BY <3>6, <5>3, ConcatEmptySeq
        <5>5. QED
          BY <4>2, <5>2, <5>4
      <4>4. QED
        BY <3>8, <4>2, <4>3
    <3>11. \E k \in 0..Len(Wire) : \E l \in k..Len(Wire) : IsPrefix(got, CutStream(k, l))
      <4>1. i \in 0..Len(Wire) /\ j \in i..Len(Wire)
        BY <2>2, <3>4
      <4>2. QED
        BY <3>8, <3>9, <4>1
    <3>12. route = "tls" /\ client.pinned /\ client.hello <= HelloUnits
             /\ client.hello <= MaxHandshake => peek.err = "read"
      BY <3>1 DEF Returned
    <3>13. QED
      BY <3>10, <3>11, <3>12 DEF PeekExact
  <2>5. QED
    BY <2>3, <2>4
<1>2. QED
  BY <1>1, PassInitInv, PassNextInv, PTL DEF PassSpec

-----------------------------------------------------------------------------
(* UnmatchedRequests: what a log of requests says of its keys.               *)

Seen(log) == {log[n] : n \in DOMAIN log}
LastIn(log, key) ==
  CHOOSE n \in DOMAIN log : log[n] = key /\ \A m \in n + 1..Len(log) : log[m] # key
NewerIn(log, key) == {other \in Seen(log) : LastIn(log, other) > LastIn(log, key)}
EvictedIn(log, key, n) ==
  \E m \in n + 1..Len(log) :
    /\ \A j \in n + 1..m : log[j] # key
    /\ Cardinality({log[j] : j \in n + 1..m}) >= AggregatorMax
CountedIn(log, key) ==
  {n \in DOMAIN log : log[n] = key
     /\ \A m \in n..LastIn(log, key) :
          log[m] = key => ~ (m < LastIn(log, key) /\ EvictedIn(log, key, m))}

IsLast(log, key, n) ==
  n \in 1..Len(log) /\ log[n] = key /\ \A m \in n + 1..Len(log) : log[m] # key

LEMMA LogFacts ==
  ASSUME NEW log \in Seq(UnmatchedKey)
  PROVE  /\ Len(log) \in Nat /\ DOMAIN log = 1..Len(log)
         /\ \A n \in 1..Len(log) : log[n] \in UnmatchedKey /\ log[n] \in Seen(log)
         /\ \A key \in Seen(log) : \E n \in 1..Len(log) : log[n] = key
BY LenProperties, ElementOfSeq DEF Seen

LEMMA LastIsLast ==
  ASSUME NEW log \in Seq(UnmatchedKey), NEW key \in Seen(log)
  PROVE  IsLast(log, key, LastIn(log, key))
<1> DEFINE N == Len(log)
           T == {d \in Nat : d < N /\ log[N - d] = key}
<1>1. N \in Nat /\ DOMAIN log = 1..N
  BY LogFacts
<1>2. PICK n \in 1..N : log[n] = key
  BY LogFacts
<1> HIDE DEF N
<1>3. N - n \in T
  <2>1. N - n \in Nat /\ N - n < N /\ N - (N - n) = n
    BY <1>1
  <2>2. QED
    BY <1>2, <2>1
<1>4. PICK d \in T : \A e \in T : d <= e
  <2>1. T # {} /\ T \subseteq Nat
    BY <1>3
  <2> HIDE DEF T
  <2>2. QED
    BY <2>1, LeastNat
<1>5. d \in Nat /\ d < N /\ log[N - d] = key
  BY <1>4
<1>6. ASSUME NEW m \in (N - d) + 1..N PROVE log[m] # key
  <2>1. N - m \in Nat /\ N - m < N /\ N - (N - m) = m /\ N - m < d
    BY <1>1, <1>5
  <2>2. N - m \notin T
    BY <1>4, <1>5, <2>1
  <2>3. QED
    BY <2>1, <2>2
<1>7. N - d \in 1..N
  BY <1>1, <1>5
<1>8. IsLast(log, key, N - d)
  BY <1>5, <1>6, <1>7 DEF IsLast, N
<1>9. LastIn(log, key) = CHOOSE k \in 1..Len(log) :
                           log[k] = key /\ \A m \in k + 1..Len(log) : log[m] # key
  BY <1>1 DEF LastIn, N
<1>10. QED
  BY <1>8, <1>9 DEF IsLast

LEMMA LastUnique ==
  ASSUME NEW log \in Seq(UnmatchedKey), NEW key, NEW n, IsLast(log, key, n)
  PROVE  key \in Seen(log) /\ LastIn(log, key) = n
<1> DEFINE l == LastIn(log, key)
           N == Len(log)
<1>1. N \in Nat /\ n \in 1..N /\ log[n] = key /\ \A m \in n + 1..N : log[m] # key
  BY LogFacts DEF IsLast
<1>2. key \in Seen(log)
  BY <1>1, LogFacts
<1>3. l \in 1..N /\ log[l] = key /\ \A m \in l + 1..N : log[m] # key
  BY <1>2, LastIsLast DEF IsLast
<1> HIDE DEF l, N
<1>4. ~ (n < l) /\ ~ (l < n)
  <2>1. CASE n < l
    <3>1. l \in n + 1..N
      BY <1>1, <1>3, <2>1
    <3>2. QED
      BY <1>1, <1>3, <3>1
  <2>2. CASE l < n
    <3>1. n \in l + 1..N
      BY <1>1, <1>3, <2>2
    <3>2. QED
      BY <1>1, <1>3, <3>1
  <2>3. QED
    BY <2>1, <2>2
<1>5. l = n
  BY <1>1, <1>3, <1>4
<1>6. QED
  BY <1>2, <1>5 DEF l

\* The keys are in the order in which they were last seen.
LEMMA LastDiffer ==
  ASSUME NEW log \in Seq(UnmatchedKey), NEW a \in Seen(log), NEW b \in Seen(log)
  PROVE  /\ LastIn(log, a) \in 1..Len(log) /\ LastIn(log, b) \in 1..Len(log)
         /\ a # b => LastIn(log, a) < LastIn(log, b) \/ LastIn(log, b) < LastIn(log, a)
<1>1. /\ LastIn(log, a) \in 1..Len(log) /\ LastIn(log, b) \in 1..Len(log)
      /\ log[LastIn(log, a)] = a /\ log[LastIn(log, b)] = b
  BY LastIsLast DEF IsLast
<1>2. Len(log) \in Nat
  BY LogFacts
<1>3. QED
  BY <1>1, <1>2

LEMMA SeenFinite ==
  ASSUME NEW log \in Seq(UnmatchedKey)
  PROVE  IsFiniteSet(Seen(log))
<1> DEFINE N == Len(log)
           f == [key \in Seen(log) |-> LastIn(log, key)]
<1>1. N \in Nat
  BY LogFacts
<1>2. \A a, b \in Seen(log) : f[a] \in 1..N /\ (f[a] = f[b] => a = b)
  <2>1. ASSUME NEW a \in Seen(log), NEW b \in Seen(log)
        PROVE  f[a] \in 1..N /\ (f[a] = f[b] => a = b)
    BY <1>1, LastDiffer
  <2>2. QED
    BY <2>1
<1> HIDE DEF N
<1>3. f \in Injection(Seen(log), 1..N)
  BY <1>2 DEF Injection, IsInjective
<1>4. IsFiniteSet(1..N)
  BY <1>1, OneToN
<1>5. QED
  BY <1>3, <1>4, FS_Injection

LEMMA NewerFinite ==
  ASSUME NEW log \in Seq(UnmatchedKey), NEW key
  PROVE  IsFiniteSet(NewerIn(log, key)) /\ Cardinality(NewerIn(log, key)) \in Nat
<1>1. NewerIn(log, key) \subseteq Seen(log)
  BY DEF NewerIn
<1>2. QED
  BY <1>1, SeenFinite, FS_Subset, FS_CardinalityType

\* A key that was seen later has fewer that are newer.
LEMMA NewerOrdered ==
  ASSUME NEW log \in Seq(UnmatchedKey), NEW a \in Seen(log), NEW b \in Seen(log)
  PROVE  b \in NewerIn(log, a) => Cardinality(NewerIn(log, b)) < Cardinality(NewerIn(log, a))
<1>1. SUFFICES ASSUME b \in NewerIn(log, a)
               PROVE  Cardinality(NewerIn(log, b)) < Cardinality(NewerIn(log, a))
  OBVIOUS
<1>2. \A c \in Seen(log) : LastIn(log, c) \in Nat
  <2>1. ASSUME NEW c \in Seen(log) PROVE LastIn(log, c) \in Nat
    BY LastDiffer
  <2>2. QED
    BY <2>1
<1>3. LastIn(log, b) > LastIn(log, a)
  BY <1>1 DEF NewerIn
<1>4. b \notin NewerIn(log, b)
  BY <1>2 DEF NewerIn
<1>5. NewerIn(log, b) \cup {b} \subseteq NewerIn(log, a)
  BY <1>1, <1>2, <1>3 DEF NewerIn
<1>6. Cardinality(NewerIn(log, b) \cup {b}) = Cardinality(NewerIn(log, b)) + 1
  BY <1>4, NewerFinite, FS_AddElement
<1>7. Cardinality(NewerIn(log, b) \cup {b}) <= Cardinality(NewerIn(log, a))
  BY <1>5, NewerFinite, FS_Subset
<1>8. QED
  BY <1>6, <1>7, NewerFinite

\* The keys of a log from n on, when a key was last seen before n: those that are newer.
LEMMA NewerSeen ==
  ASSUME NEW log \in Seq(UnmatchedKey), NEW key \in Seen(log)
  PROVE  {log[j] : j \in LastIn(log, key) + 1..Len(log)} = NewerIn(log, key)
<1> DEFINE l == LastIn(log, key)
           N == Len(log)
<1>1. N \in Nat /\ l \in 1..N
  BY LogFacts, LastDiffer
<1>2. ASSUME NEW j \in l + 1..N PROVE log[j] \in NewerIn(log, key)
  <2>1. j \in 1..N
    BY <1>1
  <2>2. log[j] \in Seen(log)
    BY <2>1, LogFacts
  <2> DEFINE k == LastIn(log, log[j])
  <2>3. k \in 1..N /\ \A m \in k + 1..N : log[m] # log[j]
    BY <2>2, LastIsLast DEF IsLast
  <2> HIDE DEF k, l, N
  <2>4. ~ (k < j)
    BY <1>1, <2>1, <2>3
  <2>5. k > l
    BY <1>1, <2>1, <2>3, <2>4
  <2>6. QED
    BY <2>2, <2>5 DEF NewerIn, k, l
<1>3. ASSUME NEW c \in NewerIn(log, key) PROVE \E j \in l + 1..N : log[j] = c
  <2>1. c \in Seen(log) /\ LastIn(log, c) > l
    BY <1>3 DEF NewerIn
  <2>2. LastIn(log, c) \in 1..N /\ log[LastIn(log, c)] = c
    BY <2>1, LastIsLast DEF IsLast
  <2>3. LastIn(log, c) \in l + 1..N
    BY <1>1, <2>1, <2>2
  <2>4. QED
    BY <2>2, <2>3
<1>4. QED
  BY <1>2, <1>3

\* One more request.
LEMMA LogAppend ==
  ASSUME NEW log \in Seq(UnmatchedKey), NEW x \in UnmatchedKey
  PROVE  /\ Append(log, x) \in Seq(UnmatchedKey) /\ Len(Append(log, x)) = Len(log) + 1
         /\ \A i \in 1..Len(log) : Append(log, x)[i] = log[i]
         /\ Append(log, x)[Len(log) + 1] = x
         /\ Seen(Append(log, x)) = Seen(log) \cup {x}
<1> DEFINE new == Append(log, x)
           N == Len(log)
<1>1. /\ new \in Seq(UnmatchedKey) /\ Len(new) = N + 1
      /\ \A i \in 1..N : new[i] = log[i]
      /\ new[N + 1] = x
  BY AppendProperties
<1>2. N \in Nat
  BY LogFacts
<1> HIDE DEF new, N
<1>3. DOMAIN new = 1..N + 1
  BY <1>1, LenProperties
<1>4. ASSUME NEW key \in Seen(new) PROVE key \in Seen(log) \cup {x}
  <2>1. PICK i \in 1..N + 1 : new[i] = key
    BY <1>3, <1>4 DEF Seen
  <2>2. CASE i = N + 1
    BY <1>1, <2>1, <2>2
  <2>3. CASE i \in 1..N
    BY <1>1, <2>1, <2>3, LogFacts DEF N
  <2>4. QED
    BY <1>2, <2>2, <2>3
<1>5. ASSUME NEW key \in Seen(log) PROVE key \in Seen(new)
  <2>1. PICK i \in 1..N : log[i] = key
    BY LogFacts DEF N
  <2>2. i \in 1..N + 1 /\ new[i] = key
    BY <1>1, <1>2, <2>1
  <2>3. QED
    BY <1>3, <2>2 DEF Seen
<1>6. x \in Seen(new)
  <2>1. N + 1 \in 1..N + 1
    BY <1>2
  <2>2. QED
    BY <1>1, <1>3, <2>1 DEF Seen
<1>7. QED
  BY <1>1, <1>4, <1>5, <1>6 DEF new, N

LEMMA LastAppend ==
  ASSUME NEW log \in Seq(UnmatchedKey), NEW x \in UnmatchedKey
  PROVE  /\ LastIn(Append(log, x), x) = Len(log) + 1
         /\ \A y \in Seen(log) \ {x} : LastIn(Append(log, x), y) = LastIn(log, y)
<1> DEFINE new == Append(log, x)
           N == Len(log)
<1>1. /\ new \in Seq(UnmatchedKey) /\ Len(new) = N + 1
      /\ \A i \in 1..N : new[i] = log[i]
      /\ new[N + 1] = x
  BY LogAppend
<1>2. N \in Nat
  BY LogFacts
<1> HIDE DEF new, N
<1>3. IsLast(new, x, N + 1)
  BY <1>1, <1>2 DEF IsLast
<1>4. ASSUME NEW y \in Seen(log) \ {x} PROVE LastIn(new, y) = LastIn(log, y)
  <2> DEFINE l == LastIn(log, y)
  <2>1. l \in 1..N /\ log[l] = y /\ \A m \in l + 1..N : log[m] # y
    BY LastIsLast DEF IsLast, N
  <2> HIDE DEF l
  <2>2. l \in 1..N + 1 /\ new[l] = y
    BY <1>1, <1>2, <2>1
  <2>3. ASSUME NEW m \in l + 1..N + 1 PROVE new[m] # y
    <3>1. CASE m = N + 1
      BY <1>1, <3>1
    <3>2. CASE m # N + 1
      <4>1. m \in l + 1..N /\ m \in 1..N
        BY <1>2, <2>1, <3>2
      <4>2. QED
        BY <1>1, <2>1, <4>1
    <3>3. QED
      BY <3>1, <3>2
  <2>4. IsLast(new, y, l)
    BY <1>1, <2>2, <2>3 DEF IsLast
  <2>5. QED
    BY <1>1, <2>4, LastUnique DEF l
<1>5. LastIn(new, x) = N + 1
  BY <1>1, <1>3, LastUnique
<1>6. QED
  BY <1>4, <1>5 DEF new, N

LEMMA NewerAppend ==
  ASSUME NEW log \in Seq(UnmatchedKey), NEW x \in UnmatchedKey
  PROVE  /\ NewerIn(Append(log, x), x) = {}
         /\ \A y \in Seen(log) \ {x} :
              NewerIn(Append(log, x), y) = NewerIn(log, y) \cup {x}
<1> DEFINE new == Append(log, x)
           N == Len(log)
<1>1. /\ LastIn(new, x) = N + 1 /\ \A y \in Seen(log) \ {x} : LastIn(new, y) = LastIn(log, y)
      /\ Seen(new) = Seen(log) \cup {x}
  BY LastAppend, LogAppend
<1>2. N \in Nat /\ \A y \in Seen(log) : LastIn(log, y) \in 1..N
  <2>1. N \in Nat
    BY LogFacts
  <2>2. ASSUME NEW y \in Seen(log) PROVE LastIn(log, y) \in 1..N
    BY LastDiffer
  <2>3. QED
    BY <2>1, <2>2
<1> HIDE DEF new, N
<1>3. NewerIn(new, x) = {}
  BY <1>1, <1>2 DEF NewerIn
<1>4. ASSUME NEW y \in Seen(log) \ {x} PROVE NewerIn(new, y) = NewerIn(log, y) \cup {x}
  <2>1. LastIn(new, x) > LastIn(new, y) /\ LastIn(new, y) = LastIn(log, y)
    BY <1>1, <1>2
  <2>2. \A z \in Seen(log) \ {x} :
          LastIn(new, z) > LastIn(new, y) <=> LastIn(log, z) > LastIn(log, y)
    BY <1>1
  <2>3. QED
    BY <1>1, <2>1, <2>2 DEF NewerIn
<1>5. QED
  BY <1>3, <1>4 DEF new

\* A request that comes after the key came again says nothing of what was before.
LEMMA EvictedAppend ==
  ASSUME NEW log \in Seq(UnmatchedKey), NEW x \in UnmatchedKey, NEW key, NEW m \in Nat,
         NEW l \in m + 1..Len(log), log[l] = key
  PROVE  EvictedIn(Append(log, x), key, m) <=> EvictedIn(log, key, m)
<1> DEFINE new == Append(log, x)
           N == Len(log)
           Between(s, k) == {s[j] : j \in m + 1..k}
           Out(s, k) == (\A j \in m + 1..k : s[j] # key)
                        /\ Cardinality(Between(s, k)) >= AggregatorMax
<1>1. Len(new) = N + 1 /\ \A i \in 1..N : new[i] = log[i]
  BY LogAppend
<1>2. N \in Nat /\ l \in m + 1..N /\ log[l] = key
  BY LogFacts
<1>3. /\ EvictedIn(new, key, m) <=> \E k \in m + 1..Len(new) : Out(new, k)
      /\ EvictedIn(log, key, m) <=> \E k \in m + 1..N : Out(log, k)
  BY DEF EvictedIn
<1> HIDE DEF new, N
<1>4. ASSUME NEW k \in m + 1..N PROVE Out(new, k) <=> Out(log, k)
  <2>1. \A j \in m + 1..k : new[j] = log[j]
    BY <1>1, <1>2
  <2>2. Between(new, k) = Between(log, k)
    BY <2>1
  <2> HIDE DEF Between
  <2>3. QED
    BY <2>1, <2>2
<1>5. ASSUME NEW k \in m + 1..Len(new), Out(new, k) PROVE k \in m + 1..N
  <2>1. l \in m + 1..k => new[l] = key
    BY <1>1, <1>2
  <2>2. ~ (l \in m + 1..k)
    BY <1>5, <2>1
  <2>3. k < l
    BY <1>1, <1>2, <2>2
  <2>4. QED
    BY <1>1, <1>2, <2>3
<1> HIDE DEF Out
<1>6. \A k \in m + 1..N : k \in m + 1..Len(new)
  BY <1>1, <1>2
<1>7. EvictedIn(new, key, m) <=> EvictedIn(log, key, m)
  BY <1>3, <1>4, <1>5, <1>6
<1>8. QED
  BY <1>7 DEF new

LEMMA CountedFinite ==
  ASSUME NEW log \in Seq(UnmatchedKey), NEW key
  PROVE  /\ CountedIn(log, key) \subseteq 1..Len(log) /\ IsFiniteSet(CountedIn(log, key))
         /\ Cardinality(CountedIn(log, key)) \in Nat
         /\ Cardinality(CountedIn(log, key)) <= Len(log)
<1>1. Len(log) \in Nat /\ DOMAIN log = 1..Len(log)
  BY LogFacts
<1>2. CountedIn(log, key) \subseteq 1..Len(log)
  BY <1>1 DEF CountedIn
<1>3. IsFiniteSet(1..Len(log)) /\ Cardinality(1..Len(log)) = Len(log)
  BY <1>1, OneToN
<1>4. QED
  BY <1>2, <1>3, FS_Subset, FS_CardinalityType

\* The requests of a key since it last came in: those of another key stay the same, those
\* of the one that is requested become one more, or begin.
LEMMA CountedOther ==
  ASSUME NEW log \in Seq(UnmatchedKey), NEW x \in UnmatchedKey, NEW y \in Seen(log) \ {x}
  PROVE  CountedIn(Append(log, x), y) = CountedIn(log, y)
<1> DEFINE new == Append(log, x)
           N == Len(log)
           l == LastIn(log, y)
<1>1. /\ Len(new) = N + 1 /\ (\A i \in 1..N : new[i] = log[i]) /\ new[N + 1] = x
      /\ LastIn(new, y) = l
  BY LogAppend, LastAppend
<1>2. N \in Nat /\ DOMAIN log = 1..N /\ l \in 1..N /\ log[l] = y
  BY LogFacts, LastIsLast DEF IsLast
<1>3. DOMAIN new = 1..N + 1
  BY <1>1, LogAppend, LogFacts
<1>4. ASSUME NEW m \in Nat, m < l PROVE EvictedIn(new, y, m) <=> EvictedIn(log, y, m)
  <2>1. l \in m + 1..N
    BY <1>2, <1>4
  <2> HIDE DEF l, N
  <2>2. QED
    BY <1>2, <2>1, EvictedAppend DEF N
<1>5. LastIn(log, y) = l
  OBVIOUS
<1> HIDE DEF new, N, l
<1>6. \A n \in 1..N : n \in Nat /\ \A m \in n..l : m \in 1..N /\ m \in Nat
  BY <1>2
<1>7. ASSUME NEW n \in 1..N PROVE n \in CountedIn(new, y) <=> n \in CountedIn(log, y)
  <2>1. \A m \in n..l : /\ new[m] = log[m]
                        /\ m < l => (EvictedIn(new, y, m) <=> EvictedIn(log, y, m))
    BY <1>1, <1>4, <1>6
  <2>2. n \in 1..N + 1 /\ new[n] = log[n]
    BY <1>1, <1>2
  <2>3. QED
    BY <1>1, <1>2, <1>3, <1>5, <2>1, <2>2 DEF CountedIn
<1>8. N + 1 \notin CountedIn(new, y) /\ N + 1 \notin CountedIn(log, y)
  BY <1>1, <1>2 DEF CountedIn
<1>9. CountedIn(new, y) \subseteq 1..N \cup {N + 1} /\ CountedIn(log, y) \subseteq 1..N
  BY <1>2, <1>3 DEF CountedIn
<1>10. CountedIn(new, y) = CountedIn(log, y)
  BY <1>7, <1>8, <1>9
<1>11. QED
  BY <1>10 DEF new

\* Whether the key has left the table since it was last seen.
LEMMA EvictedSince ==
  ASSUME NEW log \in Seq(UnmatchedKey), NEW x \in Seen(log)
  PROVE  EvictedIn(Append(log, x), x, LastIn(log, x))
           <=> Cardinality(NewerIn(log, x)) >= AggregatorMax
<1> DEFINE new == Append(log, x)
           N == Len(log)
           l == LastIn(log, x)
           Between(k) == {new[j] : j \in l + 1..k}
<1>0. x \in UnmatchedKey
  BY LogFacts DEF Seen
<1>1. /\ Len(new) = N + 1 /\ (\A i \in 1..N : new[i] = log[i]) /\ new[N + 1] = x
  BY <1>0, LogAppend
<1>2. N \in Nat /\ l \in 1..N /\ \A m \in l + 1..N : log[m] # x
  BY LogFacts, LastIsLast DEF IsLast
<1>3. {log[j] : j \in l + 1..N} = NewerIn(log, x)
  BY NewerSeen
<1>4. EvictedIn(new, x, l) <=> \E m \in l + 1..Len(new) :
                                /\ \A j \in l + 1..m : new[j] # x
                                /\ Cardinality(Between(m)) >= AggregatorMax
  BY DEF EvictedIn
<1> HIDE DEF new, N, l
<1>5. Between(N) = NewerIn(log, x)
  <2>1. \A j \in l + 1..N : new[j] = log[j]
    BY <1>1, <1>2
  <2>2. QED
    BY <1>3, <2>1
<1>6. AggregatorMax \in Nat \ {0} /\ IsFiniteSet(NewerIn(log, x))
      /\ Cardinality(NewerIn(log, x)) \in Nat
  BY AggregatorAssumption, NewerFinite
<1>7. ASSUME Cardinality(NewerIn(log, x)) >= AggregatorMax PROVE EvictedIn(new, x, l)
  <2>1. N \in l + 1..Len(new)
    <3>1. CASE N = l
      <4>1. Between(N) = {}
        BY <1>2, <3>1
      <4>2. QED
        BY <1>5, <1>6, <1>7, <4>1, FS_EmptySet
    <3>2. CASE N # l
      BY <1>1, <1>2, <3>2
    <3>3. QED
      BY <3>1, <3>2
  <2>2. \A j \in l + 1..N : new[j] # x
    BY <1>1, <1>2
  <2> HIDE DEF Between
  <2>3. QED
    BY <1>4, <1>5, <1>7, <2>1, <2>2
<1>8. ASSUME EvictedIn(new, x, l) PROVE Cardinality(NewerIn(log, x)) >= AggregatorMax
  <2>1. PICK m \in l + 1..Len(new) : /\ \A j \in l + 1..m : new[j] # x
                                     /\ Cardinality(Between(m)) >= AggregatorMax
    BY <1>4, <1>8
  <2>2. m # N + 1
    BY <1>1, <1>2, <2>1
  <2>3. m \in Nat /\ m <= N
    BY <1>1, <1>2, <2>2
  <2>4. Between(m) \subseteq Between(N)
    BY <1>2, <2>3
  <2> HIDE DEF Between
  <2>5. Cardinality(Between(m)) <= Cardinality(NewerIn(log, x))
        /\ Cardinality(Between(m)) \in Nat
    BY <1>5, <1>6, <2>4, FS_Subset, FS_CardinalityType
  <2>6. QED
    BY <1>6, <2>1, <2>5
<1>9. QED
  BY <1>7, <1>8 DEF new, l

LEMMA CountedHit ==
  ASSUME NEW log \in Seq(UnmatchedKey), NEW x \in Seen(log),
         Cardinality(NewerIn(log, x)) < AggregatorMax
  PROVE  Cardinality(CountedIn(Append(log, x), x)) = Cardinality(CountedIn(log, x)) + 1
<1> DEFINE new == Append(log, x)
           N == Len(log)
           l == LastIn(log, x)
<1>0. x \in UnmatchedKey
  BY LogFacts DEF Seen
<1>1. /\ Len(new) = N + 1 /\ (\A i \in 1..N : new[i] = log[i]) /\ new[N + 1] = x
      /\ LastIn(new, x) = N + 1 /\ new \in Seq(UnmatchedKey)
  BY <1>0, LogAppend, LastAppend
<1>2. N \in Nat /\ DOMAIN log = 1..N /\ l \in 1..N /\ log[l] = x
      /\ \A m \in l + 1..N : log[m] # x
  BY LogFacts, LastIsLast DEF IsLast
<1>3. DOMAIN new = 1..N + 1
  BY <1>1, LogFacts
<1>4. ASSUME NEW m \in Nat, m < l PROVE EvictedIn(new, x, m) <=> EvictedIn(log, x, m)
  <2>1. l \in m + 1..N
    BY <1>2, <1>4
  <2> HIDE DEF l, N
  <2>2. QED
    BY <1>0, <1>2, <2>1, EvictedAppend DEF N
<1>5. ~ EvictedIn(new, x, l)
  <2>1. Cardinality(NewerIn(log, x)) \in Nat /\ AggregatorMax \in Nat
    BY NewerFinite, AggregatorAssumption
  <2>2. ~ (Cardinality(NewerIn(log, x)) >= AggregatorMax)
    BY <2>1
  <2>3. QED
    BY <2>2, EvictedSince
<1>6. LastIn(log, x) = l
  OBVIOUS
<1> HIDE DEF new, N, l
<1>7. ASSUME NEW n \in 1..N PROVE n \in CountedIn(new, x) <=> n \in CountedIn(log, x)
  <2>1. ASSUME n \in CountedIn(log, x) PROVE n \in CountedIn(new, x)
    <3>1. log[n] = x /\ \A m \in n..l : log[m] = x => ~ (m < l /\ EvictedIn(log, x, m))
      BY <1>6, <2>1 DEF CountedIn
    <3>2. ASSUME NEW m \in n..N + 1, new[m] = x, m < N + 1 PROVE ~ EvictedIn(new, x, m)
      <4>1. m \in 1..N /\ m \in Nat
        BY <1>2, <3>2
      <4>2. log[m] = x
        BY <1>1, <3>2, <4>1
      <4>3. m <= l
        BY <1>2, <4>1, <4>2
      <4>4. CASE m = l
        BY <1>5, <4>4
      <4>5. CASE m < l
        <5>1. m \in n..l
          BY <1>2, <4>1, <4>3, <3>2
        <5>2. QED
          BY <1>4, <3>1, <4>1, <4>2, <4>5, <5>1
      <4>6. QED
        BY <1>2, <4>1, <4>3, <4>4, <4>5
    <3>3. n \in 1..N + 1 /\ new[n] = x
      BY <1>1, <1>2, <3>1
    <3>4. QED
      BY <1>1, <1>3, <3>2, <3>3 DEF CountedIn
  <2>2. ASSUME n \in CountedIn(new, x) PROVE n \in CountedIn(log, x)
    <3>1. new[n] = x
          /\ \A m \in n..N + 1 : new[m] = x => ~ (m < N + 1 /\ EvictedIn(new, x, m))
      BY <1>1, <2>2 DEF CountedIn
    <3>2. log[n] = x
      BY <1>1, <3>1
    <3>3. ASSUME NEW m \in n..l, log[m] = x, m < l PROVE ~ EvictedIn(log, x, m)
      <4>1. m \in 1..N /\ m \in Nat /\ m \in n..N + 1 /\ m < N + 1
        BY <1>2
      <4>2. new[m] = x
        BY <1>1, <3>3, <4>1
      <4>3. QED
        BY <1>4, <3>1, <3>3, <4>1, <4>2
    <3>4. QED
      BY <1>2, <1>6, <3>2, <3>3 DEF CountedIn
  <2>3. QED
    BY <2>1, <2>2
<1>8. N + 1 \in CountedIn(new, x)
  <2>1. N + 1 \in 1..N + 1 /\ \A m \in N + 1..N + 1 : ~ (m < N + 1)
    BY <1>2
  <2>2. QED
    BY <1>1, <1>3, <2>1 DEF CountedIn
<1>9. CountedIn(new, x) \subseteq 1..N \cup {N + 1} /\ CountedIn(log, x) \subseteq 1..N
  BY <1>2, <1>3 DEF CountedIn
<1>10. CountedIn(new, x) = CountedIn(log, x) \cup {N + 1}
  BY <1>7, <1>8, <1>9
<1>11. N + 1 \notin CountedIn(log, x)
  BY <1>2, <1>9
<1>12. Cardinality(CountedIn(new, x)) = Cardinality(CountedIn(log, x)) + 1
  BY <1>10, <1>11, CountedFinite, FS_AddElement
<1>13. QED
  BY <1>12 DEF new

LEMMA CountedNew ==
  ASSUME NEW log \in Seq(UnmatchedKey), NEW x \in UnmatchedKey,
         x \in Seen(log) => Cardinality(NewerIn(log, x)) >= AggregatorMax
  PROVE  Cardinality(CountedIn(Append(log, x), x)) = 1
<1> DEFINE new == Append(log, x)
           N == Len(log)
           l == LastIn(log, x)
<1>1. /\ Len(new) = N + 1 /\ (\A i \in 1..N : new[i] = log[i]) /\ new[N + 1] = x
      /\ LastIn(new, x) = N + 1 /\ new \in Seq(UnmatchedKey)
  BY LogAppend, LastAppend
<1>2. N \in Nat /\ DOMAIN new = 1..N + 1
  BY <1>1, LogFacts
<1>3. x \in Seen(log) => /\ l \in 1..N /\ log[l] = x /\ EvictedIn(new, x, l)
                         /\ \A m \in l + 1..N : log[m] # x
  BY LastIsLast, EvictedSince DEF IsLast
<1>4. \A n \in 1..N : log[n] \in Seen(log)
  BY LogFacts
<1> HIDE DEF new, N, l
<1>5. ASSUME NEW n \in 1..N PROVE n \notin CountedIn(new, x)
  <2>1. SUFFICES ASSUME n \in CountedIn(new, x) PROVE FALSE
    OBVIOUS
  <2>2. new[n] = x /\ \A m \in n..N + 1 : new[m] = x => ~ (m < N + 1 /\ EvictedIn(new, x, m))
    BY <1>1, <2>1 DEF CountedIn
  <2>3. x \in Seen(log) /\ log[n] = x
    BY <1>1, <1>4, <2>2
  <2>4. l \in n..N + 1 /\ l < N + 1 /\ new[l] = x
    BY <1>1, <1>2, <1>3, <2>3
  <2>5. QED
    BY <1>3, <2>2, <2>3, <2>4
<1>6. N + 1 \in CountedIn(new, x)
  <2>1. N + 1 \in 1..N + 1 /\ \A m \in N + 1..N + 1 : ~ (m < N + 1)
    BY <1>2
  <2>2. QED
    BY <1>1, <1>2, <2>1 DEF CountedIn
<1>7. CountedIn(new, x) \subseteq 1..N \cup {N + 1}
  BY <1>2 DEF CountedIn
<1>8. CountedIn(new, x) = {N + 1}
  BY <1>5, <1>6, <1>7
<1>9. Cardinality(CountedIn(new, x)) = 1
  BY <1>8, FS_Singleton
<1>10. QED
  BY <1>9 DEF new

\* The place that a key gets in the order when another is requested.
LEMMA RankAppend ==
  ASSUME NEW log \in Seq(UnmatchedKey), NEW x \in UnmatchedKey, NEW y \in Seen(log) \ {x}
  PROVE  /\ Cardinality(NewerIn(Append(log, x), y)) =
              IF x \in NewerIn(log, y) THEN Cardinality(NewerIn(log, y))
              ELSE Cardinality(NewerIn(log, y)) + 1
         /\ x \in Seen(log) => x \in NewerIn(log, y) \/ y \in NewerIn(log, x)
<1>1. NewerIn(Append(log, x), y) = NewerIn(log, y) \cup {x}
  BY NewerAppend
<1>2. Cardinality(NewerIn(log, y) \cup {x}) =
        IF x \in NewerIn(log, y) THEN Cardinality(NewerIn(log, y))
        ELSE Cardinality(NewerIn(log, y)) + 1
  BY NewerFinite, FS_AddElement
<1>3. ASSUME x \in Seen(log) PROVE x \in NewerIn(log, y) \/ y \in NewerIn(log, x)
  <2>1. /\ LastIn(log, x) \in 1..Len(log) /\ LastIn(log, y) \in 1..Len(log)
        /\ LastIn(log, x) < LastIn(log, y) \/ LastIn(log, y) < LastIn(log, x)
    BY <1>3, LastDiffer
  <2>2. QED
    BY <1>3, <2>1 DEF NewerIn
<1>4. QED
  BY <1>1, <1>2, <1>3

-----------------------------------------------------------------------------
(* The table.                                                               *)

Entry == [key : UnmatchedKey, count : 1..HitMax]

\* The entry at place k is of the key that k - 1 others are newer than.
Ranked(table, log) ==
  \A k \in 1..Len(table) :
    /\ table[k].key \in Seen(log)
    /\ Cardinality(NewerIn(log, table[k].key)) = k - 1
    /\ table[k].count = Cardinality(CountedIn(log, table[k].key))

Held(table, key) == \E k \in 1..Len(table) : table[k].key = key

UnmatchedInv ==
  /\ UnmatchedTypeOK /\ Len(hitLog) <= HitMax
  /\ Ranked(unmatched, hitLog)
  /\ \A key \in Seen(hitLog) :
       Cardinality(NewerIn(hitLog, key)) < AggregatorMax => Held(unmatched, key)
  /\ Len(unmatched) < AggregatorMax => \A key \in Seen(hitLog) : Held(unmatched, key)

LEMMA TableFacts ==
  ASSUME NEW table \in Seq(Entry)
  PROVE  /\ Len(table) \in Nat /\ DOMAIN table = 1..Len(table)
         /\ \A k \in 1..Len(table) : /\ table[k] \in Entry /\ table[k].key \in UnmatchedKey
                                     /\ table[k].count \in 1..HitMax
<1>1. Len(table) \in Nat /\ DOMAIN table = 1..Len(table)
  BY LenProperties
<1>2. ASSUME NEW k \in 1..Len(table)
      PROVE  table[k] \in Entry /\ table[k].key \in UnmatchedKey /\ table[k].count \in 1..HitMax
  <2>1. table[k] \in Entry
    BY ElementOfSeq
  <2>2. QED
    BY <2>1 DEF Entry
<1>3. QED
  BY <1>1, <1>2

\* What the new entry, put before the ones that are kept, makes of the table: at place p
\* is what was at place src[p - 1].
LEMMA PutInFront ==
  ASSUME NEW table \in Seq(Entry), NEW e \in Entry, NEW n \in Nat,
         NEW src \in [1..n -> 1..Len(table)]
  PROVE  LET kept == [p \in 1..n |-> table[src[p]]]
             new == <<e>> \o kept
         IN  /\ new \in Seq(Entry) /\ Len(new) = n + 1 /\ new[1] = e
             /\ \A p \in 1..n : new[p + 1] = table[src[p]]
<1> DEFINE kept == [p \in 1..n |-> table[src[p]]]
           new == <<e>> \o kept
<1>1. \A p \in 1..n : table[src[p]] \in Entry
  BY TableFacts
<1>2. kept \in [1..n -> Entry] /\ DOMAIN kept = 1..n /\ \A p \in 1..n : kept[p] = table[src[p]]
  BY <1>1
<1> HIDE DEF kept
<1>3. kept \in Seq(Entry)
  BY <1>2, SeqDef
<1>4. Len(kept) = n
  <2>1. Len(kept) \in Nat /\ 1..Len(kept) = 1..n
    BY <1>2, <1>3, LenProperties
  <2>2. QED
    BY <2>1
<1>5. <<e>> \in Seq(Entry) /\ Len(<<e>>) = 1 /\ <<e>>[1] = e
  OBVIOUS
<1> DEFINE first == <<e>>
<1>6. first \in Seq(Entry) /\ Len(first) = 1 /\ first[1] = e
  BY <1>5
<1> HIDE DEF first
<1>7. /\ first \o kept \in Seq(Entry) /\ Len(first \o kept) = 1 + n
      /\ \A i \in 1..1 + n : (first \o kept)[i] = IF i <= 1 THEN first[i] ELSE kept[i - 1]
  <2>1. /\ first \o kept \in Seq(Entry) /\ Len(first \o kept) = Len(first) + Len(kept)
        /\ \A i \in 1..Len(first) + Len(kept) :
             (first \o kept)[i] = IF i <= Len(first) THEN first[i] ELSE kept[i - Len(first)]
    BY <1>3, <1>6, ConcatProperties
  <2>2. QED
    BY <1>4, <1>6, <2>1
<1>8. ASSUME NEW p \in 1..n PROVE (first \o kept)[p + 1] = table[src[p]]
  <2>1. p + 1 \in 1..1 + n /\ ~ (p + 1 <= 1) /\ (p + 1) - 1 = p
    OBVIOUS
  <2>2. (first \o kept)[p + 1] = kept[(p + 1) - 1]
    BY <1>7, <2>1
  <2>3. QED
    BY <1>2, <2>1, <2>2
<1>9. (first \o kept)[1] = e /\ 1 + n = n + 1
  <2>1. 1 \in 1..1 + n /\ 1 <= 1
    OBVIOUS
  <2>2. QED
    BY <1>6, <1>7, <2>1
<1>10. QED
  BY <1>7, <1>8, <1>9 DEF first, kept

LEMMA UnmatchedInitInv == UnmatchedInit => UnmatchedInv
<1> SUFFICES ASSUME UnmatchedInit PROVE UnmatchedInv
  OBVIOUS
<1>1. unmatched = <<>> /\ hitLog = <<>>
  BY DEF UnmatchedInit
<1>2. AggregatorMax \in Nat /\ HitMax \in Nat
  BY AggregatorAssumption
<1>3. /\ <<>> \in Seq(Entry) /\ <<>> \in Seq(UnmatchedKey) /\ Len(<<>>) = 0
      /\ Seen(<<>>) = {}
  BY EmptySeq DEF Seen
<1>4. UnmatchedTypeOK
  BY <1>1, <1>2, <1>3 DEF UnmatchedTypeOK, Entry
<1>5. QED
  BY <1>1, <1>2, <1>3, <1>4 DEF UnmatchedInv, Ranked

\* An entry that is hit: the others keep their order.
LEMMA HitInv ==
  ASSUME UnmatchedInv, NEW x \in UnmatchedKey, RecordUnmatched(x), Tallied(x) # {}
  PROVE  UnmatchedInv'
<1> DEFINE table == unmatched
           log == hitLog
           L == Len(table)
           N == Len(log)
           k == CHOOSE j \in Tallied(x) : TRUE
           src == [p \in 1..L - 1 |-> IF p < k THEN p ELSE p + 1]
           e == [table[k] EXCEPT !.count = @ + 1]
           new == Append(log, x)
<1>1. /\ table \in Seq(Entry) /\ log \in Seq(UnmatchedKey) /\ L <= AggregatorMax
      /\ N <= HitMax /\ Ranked(table, log)
      /\ \A key \in Seen(log) :
           Cardinality(NewerIn(log, key)) < AggregatorMax => Held(table, key)
      /\ L < AggregatorMax => \A key \in Seen(log) : Held(table, key)
  BY DEF UnmatchedInv, UnmatchedTypeOK, Entry
<1>2. /\ L \in Nat /\ N \in Nat /\ DOMAIN table = 1..L /\ AggregatorMax \in Nat /\ HitMax \in Nat
      /\ \A q \in 1..L : table[q] \in Entry
  BY <1>1, TableFacts, LogFacts, AggregatorAssumption
<1>3. k \in 1..L /\ table[k].key = x
  <2>1. k \in Tallied(x)
    OBVIOUS
  <2> HIDE DEF k
  <2>2. QED
    BY <1>2, <2>1 DEF Tallied
<1>4. /\ hitLog' = new /\ N < HitMax
      /\ unmatched' = <<e>> \o [p \in 1..L - 1 |-> table[IF p < k THEN p ELSE p + 1]]
  BY DEF RecordUnmatched, WithoutEntry
<1> HIDE DEF k
<1>5. src \in [1..L - 1 -> 1..L]
  BY <1>2, <1>3
<1>6. [p \in 1..L - 1 |-> table[IF p < k THEN p ELSE p + 1]] = [p \in 1..L - 1 |-> table[src[p]]]
  OBVIOUS
<1>7. \A p \in 1..L - 1 : /\ src[p] \in 1..L /\ src[p] # k
                          /\ src[p] = IF p < k THEN p ELSE p + 1
  BY <1>2, <1>3
<1>8. ASSUME NEW q \in 1..L, q # k
      PROVE  \E p \in 1..L - 1 : src[p] = q
  <2>1. CASE q < k
    <3>1. q \in 1..L - 1 /\ src[q] = q
      BY <1>2, <1>3, <2>1
    <3>2. QED
      BY <3>1
  <2>2. CASE q > k
    <3>1. q - 1 \in 1..L - 1 /\ src[q - 1] = q
      BY <1>2, <1>3, <2>2
    <3>2. QED
      BY <3>1
  <2>3. QED
    BY <1>3, <1>8, <2>1, <2>2
<1> HIDE DEF src, table, log, L, N, new
<1>9. /\ x \in Seen(log) /\ Cardinality(NewerIn(log, x)) = k - 1
      /\ table[k].count = Cardinality(CountedIn(log, x))
  BY <1>1, <1>3 DEF Ranked, L
<1>10. /\ new \in Seq(UnmatchedKey) /\ Len(new) = N + 1 /\ Seen(new) = Seen(log) \cup {x}
       /\ NewerIn(new, x) = {}
  BY <1>1, LogAppend, NewerAppend DEF new, N
<1>11. Cardinality(CountedIn(new, x)) = Cardinality(CountedIn(log, x)) + 1
  <2>1. Cardinality(NewerIn(log, x)) < AggregatorMax
    BY <1>1, <1>2, <1>3, <1>9
  <2>2. QED
    BY <1>1, <1>9, <2>1, CountedHit DEF new
<1>12. /\ e \in Entry /\ e.key = x /\ e.count = Cardinality(CountedIn(new, x))
  <2>1. table[k] \in Entry
    BY <1>2, <1>3
  <2>2. Cardinality(CountedIn(new, x)) \in Nat /\ Cardinality(CountedIn(new, x)) <= N + 1
        /\ Cardinality(CountedIn(log, x)) \in Nat
    BY <1>1, <1>10, CountedFinite
  <2>3. table[k].count + 1 = Cardinality(CountedIn(new, x))
    BY <1>9, <1>11
  <2>4. table[k].count + 1 \in 1..HitMax
    BY <1>2, <1>4, <1>9, <2>2, <2>3
  <2>5. QED
    BY <1>3, <2>1, <2>3, <2>4 DEF Entry
<1> HIDE DEF e
<1>13. /\ unmatched' \in Seq(Entry) /\ Len(unmatched') = L /\ unmatched'[1] = e
       /\ \A p \in 1..L - 1 : unmatched'[p + 1] = table[src[p]]
  <2> DEFINE n == L - 1
  <2>1. n \in Nat /\ n + 1 = L
    BY <1>2, <1>3
  <2>2. unmatched' = <<e>> \o [p \in 1..n |-> table[src[p]]]
    BY <1>4, <1>6 DEF src
  <2> HIDE DEF n
  <2>3. src \in [1..n -> 1..Len(table)]
    BY <1>5 DEF n, L
  <2>4. /\ unmatched' \in Seq(Entry) /\ Len(unmatched') = n + 1 /\ unmatched'[1] = e
        /\ \A p \in 1..n : unmatched'[p + 1] = table[src[p]]
    BY <1>1, <1>12, <2>1, <2>2, <2>3, PutInFront
  <2>5. QED
    BY <2>1, <2>4 DEF n
<1>14. ASSUME NEW p \in 1..L - 1
       PROVE  LET y == table[src[p]].key
              IN  /\ y \in Seen(log) \ {x} /\ Cardinality(NewerIn(new, y)) = p
                  /\ table[src[p]].count = Cardinality(CountedIn(new, y))
  <2> DEFINE q == src[p]
             y == table[q].key
  <2>1. q \in 1..L /\ q # k /\ q = IF p < k THEN p ELSE p + 1
    BY <1>7
  <2>2. /\ y \in Seen(log) /\ Cardinality(NewerIn(log, y)) = q - 1
        /\ table[q].count = Cardinality(CountedIn(log, y))
    BY <1>1, <2>1 DEF Ranked, L
  <2> HIDE DEF q
  <2>3. y # x
    BY <1>2, <1>3, <1>9, <2>1, <2>2
  <2> HIDE DEF y
  <2>4. x \in NewerIn(log, y) => k - 1 < q - 1
    BY <1>1, <1>9, <2>2, NewerOrdered
  <2>5. y \in NewerIn(log, x) => q - 1 < k - 1
    BY <1>1, <1>9, <2>2, NewerOrdered
  <2>6. /\ Cardinality(NewerIn(new, y)) = IF x \in NewerIn(log, y) THEN q - 1 ELSE (q - 1) + 1
        /\ x \in NewerIn(log, y) \/ y \in NewerIn(log, x)
    BY <1>1, <1>9, <2>2, <2>3, RankAppend DEF new
  <2>7. Cardinality(NewerIn(new, y)) = p
    BY <1>2, <1>3, <2>1, <2>4, <2>5, <2>6
  <2>8. CountedIn(new, y) = CountedIn(log, y)
    BY <1>1, <2>2, <2>3, CountedOther DEF new
  <2>9. QED
    BY <2>2, <2>3, <2>7, <2>8 DEF q, y
<1>15. Ranked(unmatched', new)
  <2>1. ASSUME NEW i \in 1..L
        PROVE  /\ unmatched'[i].key \in Seen(new)
               /\ Cardinality(NewerIn(new, unmatched'[i].key)) = i - 1
               /\ unmatched'[i].count = Cardinality(CountedIn(new, unmatched'[i].key))
    <3>1. CASE i = 1
      <4>1. unmatched'[i] = e
        BY <1>13, <3>1
      <4>2. x \in Seen(new)
        BY <1>10
      <4>3. Cardinality(NewerIn(new, x)) = 0
        BY <1>10, FS_EmptySet
      <4>4. i - 1 = 0
        BY <3>1
      <4>5. QED
        BY <1>12, <4>1, <4>2, <4>3, <4>4
    <3>2. CASE i # 1
      <4>1. i - 1 \in 1..L - 1 /\ (i - 1) + 1 = i
        BY <1>2, <3>2
      <4>2. unmatched'[i] = table[src[i - 1]]
        BY <1>13, <4>1
      <4>3. QED
        BY <1>10, <1>14, <4>1, <4>2
    <3>3. QED
      BY <3>1, <3>2
  <2>2. QED
    BY <1>13, <2>1 DEF Ranked
<1>16. ASSUME NEW key \in Seen(new), key = x \/ Held(table, key) PROVE Held(unmatched', key)
  <2>1. CASE key = x
    <3>1. 1 \in 1..L
      BY <1>2, <1>3
    <3>2. QED
      BY <1>12, <1>13, <2>1, <3>1 DEF Held
  <2>2. CASE key # x
    <3>1. PICK q \in 1..L : table[q].key = key
      BY <1>16, <2>2 DEF Held, L
    <3>2. q # k
      BY <1>3, <2>2, <3>1
    <3>3. PICK p \in 1..L - 1 : src[p] = q
      BY <1>8, <3>2
    <3>4. p + 1 \in 1..L /\ unmatched'[p + 1].key = key
      BY <1>2, <1>13, <3>1, <3>3
    <3>5. QED
      BY <1>13, <3>4 DEF Held
  <2>3. QED
    BY <2>1, <2>2
<1>17. ASSUME NEW key \in Seen(new), Cardinality(NewerIn(new, key)) < AggregatorMax
       PROVE  Held(unmatched', key)
  <2>1. CASE key = x
    BY <1>16, <2>1
  <2>2. CASE key # x
    <3>1. key \in Seen(log) \ {x}
      BY <1>10, <2>2
    <3>2. Cardinality(NewerIn(log, key)) <= Cardinality(NewerIn(new, key))
          /\ Cardinality(NewerIn(log, key)) \in Nat /\ Cardinality(NewerIn(new, key)) \in Nat
      BY <1>1, <1>10, <3>1, RankAppend, NewerFinite DEF new
    <3>3. Held(table, key)
      BY <1>1, <1>2, <1>17, <3>1, <3>2
    <3>4. QED
      BY <1>16, <3>3
  <2>3. QED
    BY <2>1, <2>2
<1>18. ASSUME L < AggregatorMax, NEW key \in Seen(new) PROVE Held(unmatched', key)
  BY <1>1, <1>10, <1>16, <1>18
<1>19. UnmatchedTypeOK'
  BY <1>1, <1>4, <1>10, <1>13 DEF UnmatchedTypeOK, Entry
<1>20. Len(hitLog') <= HitMax
  BY <1>2, <1>4, <1>10
<1>21. QED
  BY <1>4, <1>13, <1>15, <1>17, <1>18, <1>19, <1>20 DEF UnmatchedInv


\* An entry that is new: those at the first r places are kept.
LEMMA NewInv ==
  ASSUME UnmatchedInv, NEW x \in UnmatchedKey, RecordUnmatched(x), Tallied(x) = {}
  PROVE  UnmatchedInv'
<1> DEFINE table == unmatched
           log == hitLog
           L == Len(table)
           N == Len(log)
           r == IF L < AggregatorMax THEN L ELSE L - 1
           src == [p \in 1..r |-> p]
           e == [key |-> x, count |-> 1]
           new == Append(log, x)
<1>1. /\ table \in Seq(Entry) /\ log \in Seq(UnmatchedKey) /\ L <= AggregatorMax
      /\ N <= HitMax /\ Ranked(table, log)
      /\ \A key \in Seen(log) :
           Cardinality(NewerIn(log, key)) < AggregatorMax => Held(table, key)
      /\ L < AggregatorMax => \A key \in Seen(log) : Held(table, key)
  BY DEF UnmatchedInv, UnmatchedTypeOK, Entry
<1>2. /\ L \in Nat /\ N \in Nat /\ DOMAIN table = 1..L /\ HitMax \in Nat
      /\ AggregatorMax \in Nat /\ AggregatorMax > 0 /\ \A q \in 1..L : table[q] \in Entry
  BY <1>1, TableFacts, LogFacts, AggregatorAssumption
<1>3. ~ Held(table, x)
  BY <1>2 DEF Tallied, Held
<1>4. /\ hitLog' = new /\ N < HitMax
      /\ unmatched' = <<e>> \o (IF Len(unmatched) >= AggregatorMax
                                THEN WithoutEntry(Len(unmatched)) ELSE unmatched)
  BY DEF RecordUnmatched
<1>5. r \in Nat /\ r <= L /\ r + 1 <= AggregatorMax
      /\ (L < AggregatorMax => r = L) /\ (~ (L < AggregatorMax) => r = L - 1 /\ L = AggregatorMax)
  <2>1. L \in Nat /\ L <= AggregatorMax /\ AggregatorMax \in Nat /\ AggregatorMax > 0
    BY <1>1, <1>2
  <2> HIDE DEF L
  <2>2. QED
    BY <2>1
<1>6. /\ src \in [1..r -> 1..L] /\ \A p \in 1..r : src[p] = p
  <2>1. L \in Nat /\ r \in Nat /\ r <= L
    BY <1>2, <1>5
  <2> HIDE DEF L, r
  <2>2. QED
    BY <2>1
<1>7. (IF Len(unmatched) >= AggregatorMax THEN WithoutEntry(Len(unmatched)) ELSE unmatched)
        = [p \in 1..r |-> table[src[p]]]
  <2>1. CASE L < AggregatorMax
    <3>1. unmatched = [p \in 1..L |-> table[p]]
      BY <1>1, <1>2, LenProperties
    <3>2. r = L /\ ~ (Len(unmatched) >= AggregatorMax)
      BY <1>2, <2>1
    <3>3. QED
      BY <3>1, <3>2
  <2>2. CASE ~ (L < AggregatorMax)
    <3>1. WithoutEntry(L) = [p \in 1..L - 1 |-> table[p]]
      BY <1>2 DEF WithoutEntry
    <3>2. r = L - 1 /\ Len(unmatched) >= AggregatorMax
      BY <1>2, <2>2
    <3>3. QED
      BY <3>1, <3>2
  <2>3. QED
    BY <2>1, <2>2
<1> HIDE DEF src, table, log, L, N, new, r
<1>8. x \in Seen(log) => Cardinality(NewerIn(log, x)) >= AggregatorMax
  <2>1. Cardinality(NewerIn(log, x)) \in Nat
    BY <1>1, NewerFinite
  <2>2. QED
    BY <1>1, <1>2, <1>3, <2>1
<1>9. /\ new \in Seq(UnmatchedKey) /\ Len(new) = N + 1 /\ Seen(new) = Seen(log) \cup {x}
      /\ NewerIn(new, x) = {}
  BY <1>1, LogAppend, NewerAppend DEF new, N
<1>10. Cardinality(CountedIn(new, x)) = 1
  BY <1>1, <1>8, CountedNew DEF new
<1>11. /\ e \in Entry /\ e.key = x /\ e.count = Cardinality(CountedIn(new, x))
  <2>1. 1 \in 1..HitMax
    BY <1>2, <1>4
  <2>2. QED
    BY <1>10, <2>1 DEF Entry
<1> HIDE DEF e
<1>12. /\ unmatched' \in Seq(Entry) /\ Len(unmatched') = r + 1 /\ unmatched'[1] = e
       /\ \A p \in 1..r : unmatched'[p + 1] = table[src[p]]
  <2>1. unmatched' = <<e>> \o [p \in 1..r |-> table[src[p]]]
    BY <1>4, <1>7
  <2>2. src \in [1..r -> 1..Len(table)]
    BY <1>6 DEF L
  <2>3. QED
    BY <1>1, <1>5, <1>11, <2>1, <2>2, PutInFront
<1>13. ASSUME NEW q \in 1..L
       PROVE  LET y == table[q].key
              IN  /\ y \in Seen(log) \ {x} /\ Cardinality(NewerIn(new, y)) = q
                  /\ table[q].count = Cardinality(CountedIn(new, y))
  <2> DEFINE y == table[q].key
  <2>1. /\ y \in Seen(log) /\ Cardinality(NewerIn(log, y)) = q - 1
        /\ table[q].count = Cardinality(CountedIn(log, y))
    BY <1>1 DEF Ranked, L
  <2>2. y # x
    BY <1>3 DEF Held, L
  <2> HIDE DEF y
  <2>3. x \notin NewerIn(log, y)
    <3>1. SUFFICES ASSUME x \in NewerIn(log, y) PROVE FALSE
      OBVIOUS
    <3>2. x \in Seen(log)
      BY <3>1 DEF NewerIn
    <3>3. Cardinality(NewerIn(log, x)) < q - 1
      BY <1>1, <2>1, <3>1, <3>2, NewerOrdered
    <3>4. Cardinality(NewerIn(log, x)) \in Nat
      BY <1>1, NewerFinite
    <3>5. QED
      BY <1>1, <1>2, <1>8, <3>2, <3>3, <3>4
  <2>4. Cardinality(NewerIn(new, y)) = (q - 1) + 1
    BY <1>1, <2>1, <2>2, <2>3, RankAppend DEF new
  <2>5. Cardinality(NewerIn(new, y)) = q
    BY <1>2, <2>4
  <2>6. CountedIn(new, y) = CountedIn(log, y)
    BY <1>1, <2>1, <2>2, CountedOther DEF new
  <2>7. QED
    BY <2>1, <2>2, <2>5, <2>6 DEF y
<1>14. Ranked(unmatched', new)
  <2>1. ASSUME NEW i \in 1..r + 1
        PROVE  /\ unmatched'[i].key \in Seen(new)
               /\ Cardinality(NewerIn(new, unmatched'[i].key)) = i - 1
               /\ unmatched'[i].count = Cardinality(CountedIn(new, unmatched'[i].key))
    <3>1. CASE i = 1
      <4>1. unmatched'[i] = e
        BY <1>12, <3>1
      <4>2. x \in Seen(new)
        BY <1>9
      <4>3. Cardinality(NewerIn(new, x)) = 0
        BY <1>9, FS_EmptySet
      <4>4. i - 1 = 0
        BY <3>1
      <4>5. QED
        BY <1>11, <4>1, <4>2, <4>3, <4>4
    <3>2. CASE i # 1
      <4>1. i - 1 \in 1..r /\ (i - 1) + 1 = i /\ i - 1 \in 1..L
        BY <1>2, <1>5, <3>2
      <4>2. unmatched'[i] = table[i - 1]
        BY <1>6, <1>12, <4>1
      <4>3. QED
        BY <1>9, <1>13, <4>1, <4>2
    <3>3. QED
      BY <3>1, <3>2
  <2>2. QED
    BY <1>12, <2>1 DEF Ranked
<1>15. Held(unmatched', x)
  <2>1. 1 \in 1..r + 1
    BY <1>5
  <2>2. QED
    BY <1>11, <1>12, <2>1 DEF Held
<1>16. ASSUME NEW q \in 1..r PROVE Held(unmatched', table[q].key)
  <2>1. q + 1 \in 1..r + 1 /\ unmatched'[q + 1] = table[q]
    BY <1>5, <1>6, <1>12
  <2>2. QED
    BY <1>12, <2>1 DEF Held
<1>17. ASSUME NEW key \in Seen(new), Cardinality(NewerIn(new, key)) < AggregatorMax
       PROVE  Held(unmatched', key)
  <2>1. CASE key = x
    BY <1>15, <2>1
  <2>2. CASE key # x
    <3>1. key \in Seen(log) \ {x}
      BY <1>9, <2>2
    <3>2. Cardinality(NewerIn(log, key)) <= Cardinality(NewerIn(new, key))
          /\ Cardinality(NewerIn(log, key)) \in Nat /\ Cardinality(NewerIn(new, key)) \in Nat
      BY <1>1, <1>9, <3>1, RankAppend, NewerFinite DEF new
    <3>3. Held(table, key)
      BY <1>1, <1>2, <1>17, <3>1, <3>2
    <3>4. PICK q \in 1..L : table[q].key = key
      BY <3>3 DEF Held, L
    <3>5. Cardinality(NewerIn(new, key)) = q
      BY <1>13, <3>4
    <3>6. q \in 1..r
      BY <1>2, <1>5, <1>17, <3>5
    <3>7. QED
      BY <1>16, <3>4, <3>6
  <2>3. QED
    BY <2>1, <2>2
<1>18. ASSUME r + 1 < AggregatorMax, NEW key \in Seen(new) PROVE Held(unmatched', key)
  <2>1. CASE key = x
    BY <1>15, <2>1
  <2>2. CASE key # x
    <3>1. L < AggregatorMax /\ r = L
      BY <1>2, <1>5, <1>18
    <3>2. Held(table, key)
      BY <1>1, <1>9, <2>2, <3>1
    <3>3. PICK q \in 1..L : table[q].key = key
      BY <3>2 DEF Held, L
    <3>4. QED
      BY <1>16, <3>1, <3>3
  <2>3. QED
    BY <2>1, <2>2
<1>19. UnmatchedTypeOK'
  BY <1>4, <1>5, <1>9, <1>12 DEF UnmatchedTypeOK, Entry
<1>20. Len(hitLog') <= HitMax
  BY <1>2, <1>4, <1>9
<1>21. QED
  BY <1>4, <1>12, <1>14, <1>17, <1>18, <1>19, <1>20 DEF UnmatchedInv

LEMMA UnmatchedNextInv ==
  ASSUME UnmatchedInv, [UnmatchedNext]_unmatchedVars
  PROVE  UnmatchedInv'
<1>1. CASE UnmatchedNext
  <2>1. PICK x \in UnmatchedKey : RecordUnmatched(x)
    BY <1>1 DEF UnmatchedNext
  <2>2. QED
    BY <2>1, HitInv, NewInv
<1>2. CASE UNCHANGED unmatchedVars
  BY <1>2 DEF unmatchedVars, UnmatchedInv, UnmatchedTypeOK
<1>3. QED
  BY <1>1, <1>2

\* The table never holds more than the limit, and every count is of requests that came.
THEOREM UnmatchedTypes == UnmatchedSpec => []UnmatchedTypeOK
<1>1. UnmatchedInv => UnmatchedTypeOK
  BY DEF UnmatchedInv
<1>2. QED
  BY <1>1, UnmatchedInitInv, UnmatchedNextInv, PTL DEF UnmatchedSpec

LEMMA InvRecentKept == ASSUME UnmatchedInv PROVE RecentKept
<1>1. /\ unmatched \in Seq(Entry) /\ hitLog \in Seq(UnmatchedKey)
      /\ Ranked(unmatched, hitLog) /\ Len(unmatched) <= AggregatorMax
      /\ \A key \in Seen(hitLog) :
           Cardinality(NewerIn(hitLog, key)) < AggregatorMax => Held(unmatched, key)
  BY DEF UnmatchedInv, UnmatchedTypeOK, Entry
<1>2. Len(unmatched) \in Nat /\ DOMAIN unmatched = 1..Len(unmatched) /\ AggregatorMax \in Nat
  BY <1>1, TableFacts, AggregatorAssumption
<1> DEFINE held == {key \in Seen(hitLog) : Cardinality(NewerIn(hitLog, key)) < AggregatorMax}
<1>3. \A k \in 1..Len(unmatched) : unmatched[k].key \in held
  BY <1>1, <1>2 DEF Ranked
<1>4. \A key \in held : \E k \in 1..Len(unmatched) : unmatched[k].key = key
  BY <1>1 DEF Held
<1>5. {unmatched[k].key : k \in DOMAIN unmatched} = held
  BY <1>2, <1>3, <1>4
<1>6. \A k \in DOMAIN unmatched :
        /\ Cardinality(NewerIn(hitLog, unmatched[k].key)) = k - 1
        /\ unmatched[k].count = Cardinality(CountedIn(hitLog, unmatched[k].key))
  BY <1>1, <1>2 DEF Ranked
<1>7. QED
  BY <1>5, <1>6, Zenon
     DEF RecentKept, Seen, LastIn, NewerIn, CountedIn, Evicted, EvictedIn

\* The aggregator is a most-recently-seen table: it holds exactly the AggregatorMax keys seen
\* last, in that order, each with the number of its requests since it last came in.
THEOREM RecentAreKept == UnmatchedSpec => []RecentKept
<1>1. UnmatchedInv => RecentKept
  BY InvRecentKept
<1>2. QED
  BY <1>1, UnmatchedInitInv, UnmatchedNextInv, PTL DEF UnmatchedSpec

-----------------------------------------------------------------------------
\* What the recursion of a function says of its values.
LEMMA Recursion ==
  ASSUME NEW S, NEW n \in Nat, NEW z \in S, NEW step \in [1..n -> [S -> S]], NEW F,
         F[0] = z, \A k \in 1..n : F[k - 1] \in S => F[k] = step[k][F[k - 1]]
  PROVE  /\ \A k \in 0..n : F[k] \in S
         /\ \A k \in 1..n : F[k] = step[k][F[k - 1]]
<1> DEFINE T == {k \in Nat : k <= n => F[k] \in S}
<1>1. 0 \in T
  OBVIOUS
<1>2. ASSUME NEW k \in Nat, k \in T PROVE k + 1 \in T
  <2>1. SUFFICES ASSUME k + 1 <= n PROVE F[k + 1] \in S
    OBVIOUS
  <2>2. F[k] \in S /\ k + 1 \in 1..n /\ (k + 1) - 1 = k
    BY <1>2, <2>1
  <2>3. F[(k + 1) - 1] \in S => F[k + 1] = step[k + 1][F[(k + 1) - 1]]
    BY <2>2, Zenon
  <2>4. F[k + 1] = step[k + 1][F[k]]
    BY <2>2, <2>3
  <2>5. QED
    BY <2>2, <2>4
<1> HIDE DEF T
<1>3. \A k \in Nat : k \in T
  BY <1>1, <1>2, Inductive
<1>4. \A k \in 0..n : F[k] \in S
  BY <1>3 DEF T
<1>5. ASSUME NEW k \in 1..n PROVE F[k] = step[k][F[k - 1]]
  <2>1. k - 1 \in 0..n
    OBVIOUS
  <2>2. QED
    BY <1>4, <2>1
<1>6. QED
  BY <1>4, <1>5

-----------------------------------------------------------------------------
(* InitialCrypto: the frames of a datagram.                                 *)

HelloChunk ==
  {c \in Chunk : /\ c.off + Len(c.data) <= HelloLen
                 /\ \A i \in 1..Len(c.data) : c.data[i] = c.off + i - 1}

ChunkOf(f) == [off |-> f.off, data |-> [i \in 1..f.len |-> f.off + i - 1]]
Taken(frames, k) == frames[k].kind = "crypto" /\ \A j \in 1..k : frames[j].kind # "stop"

ReadFrames(frames, read) ==
  read = [k \in 0..Len(frames) |->
            IF k = 0 THEN <<>>
            ELSE IF Taken(frames, k) THEN Append(read[k - 1], ChunkOf(frames[k])) ELSE read[k - 1]]

LEMMA ChunkOfFrame ==
  ASSUME NEW f \in Frame, f.kind = "crypto"
  PROVE  ChunkOf(f) \in HelloChunk
<1>1. PICK off \in 0..HelloLen, len \in 0..HelloLen : f = Crypto(off, len) /\ off + len <= HelloLen
  <2>1. f \in {g \in {Crypto(off, len) : off, len \in 0..HelloLen} : g.off + g.len <= HelloLen}
    BY DEF Frame, FrameSkip, FrameStop
  <2>2. QED
    BY <2>1 DEF Crypto
<1>2. f.off = off /\ f.len = len /\ off \in Nat /\ len \in Nat
  BY <1>1, InitialAssumption DEF Crypto
<1> DEFINE data == [i \in 1..len |-> off + i - 1]
<1>3. data \in [1..len -> Nat]
  BY <1>2
<1>4. data \in Seq(Nat) /\ Len(data) = len
  <2>1. data \in Seq(Nat)
    BY <1>2, <1>3, SeqDef
  <2>2. Len(data) \in Nat /\ 1..Len(data) = 1..len
    BY <1>3, <2>1, LenProperties
  <2> HIDE DEF data
  <2>3. QED
    BY <1>2, <2>1, <2>2
<1>5. \A i \in 1..len : data[i] = off + i - 1
  OBVIOUS
<1>6. ChunkOf(f) = [off |-> off, data |-> data]
  BY <1>2 DEF ChunkOf
<1> HIDE DEF data
<1>7. QED
  BY <1>1, <1>2, <1>4, <1>5, <1>6 DEF HelloChunk, Chunk

\* cryptoFrames returns stretches of the hello.
LEMMA FramesRead ==
  ASSUME NEW frames \in Seq(Frame)
  PROVE  CryptoFrames(frames) \in Seq(HelloChunk)
<1> DEFINE n == Len(frames)
           S == Seq(HelloChunk)
           step == [k \in 1..n |-> [s \in S |-> IF Taken(frames, k)
                                                THEN Append(s, ChunkOf(frames[k])) ELSE s]]
           z == <<>>
<1>1. n \in Nat /\ z \in S
  BY LenProperties, EmptySeq
<1>2. ASSUME NEW k \in 1..n, NEW s \in S, Taken(frames, k)
      PROVE  Append(s, ChunkOf(frames[k])) \in S
  <2>1. ChunkOf(frames[k]) \in HelloChunk
    BY <1>2, ElementOfSeq, ChunkOfFrame DEF Taken
  <2>2. QED
    BY <2>1, AppendProperties
<1>3. step \in [1..n -> [S -> S]]
  BY <1>2
<1>4. \A k \in 1..n : \A s \in S :
        step[k][s] = IF Taken(frames, k) THEN Append(s, ChunkOf(frames[k])) ELSE s
  OBVIOUS
<1> HIDE DEF n, S, step, z
<1>5. \E f : ReadFrames(frames, f)
  <2>1. PICK f : Iterated(S, n, z, step, f)
    BY <1>1, <1>3, Iterates
  <2>2. f \in [0..n -> S] /\ f[0] = z /\ \A k \in 1..n : f[k] = step[k][f[k - 1]]
    BY <2>1 DEF Iterated
  <2>3. ASSUME NEW k \in 1..n
        PROVE  f[k] = IF Taken(frames, k) THEN Append(f[k - 1], ChunkOf(frames[k])) ELSE f[k - 1]
    <3>1. k - 1 \in 0..n
      BY <1>1
    <3>2. f[k - 1] \in S
      BY <2>2, <3>1
    <3>3. QED
      BY <1>4, <2>2, <3>2
  <2>4. ASSUME NEW k \in 0..n
        PROVE  f[k] = IF k = 0 THEN z
                      ELSE IF Taken(frames, k) THEN Append(f[k - 1], ChunkOf(frames[k])) ELSE f[k - 1]
    <3>1. CASE k = 0
      BY <2>2, <3>1
    <3>2. CASE k # 0
      <4>1. k \in 1..n
        BY <1>1, <3>2
      <4>2. QED
        BY <2>3, <3>2, <4>1
    <3>3. QED
      BY <3>1, <3>2
  <2>5. QED
    BY <2>2, <2>4 DEF ReadFrames, n, z
<1> DEFINE F == CHOOSE f : ReadFrames(frames, f)
<1>6. CryptoFrames(frames) = F[n]
  BY DEF CryptoFrames, ReadFrames, Taken, ChunkOf, n
<1>7. ReadFrames(frames, F)
  BY <1>5
<1> HIDE DEF F
<1>8. ASSUME NEW k \in 0..n
      PROVE  F[k] = IF k = 0 THEN z
                    ELSE IF Taken(frames, k) THEN Append(F[k - 1], ChunkOf(frames[k])) ELSE F[k - 1]
  BY <1>7, Zenon DEF ReadFrames, n, z
<1>9. F[0] = z /\ \A k \in 1..n : F[k - 1] \in S => F[k] = step[k][F[k - 1]]
  BY <1>1, <1>4, <1>8
<1>10. \A k \in 0..n : F[k] \in S
  BY <1>1, <1>3, <1>9, Recursion
<1>11. QED
  BY <1>1, <1>6, <1>10 DEF S


-----------------------------------------------------------------------------
(* InitialCrypto: the chunks in the order of their offsets.                 *)

ByOffset(cs) == \A i, j \in 1..Len(cs) : i < j => cs[i].off <= cs[j].off
Upto(cs, n) == {cs[i] : i \in 1..n}

\* Where a chunk is put: behind those whose offsets are not greater.
PutAt(sorted, c, p, new) ==
  /\ p \in 1..Len(sorted) + 1 /\ new \in Seq(HelloChunk) /\ Len(new) = Len(sorted) + 1
  /\ \A i \in 1..Len(sorted) + 1 :
       new[i] = IF i < p THEN sorted[i] ELSE IF i = p THEN c ELSE sorted[i - 1]
  /\ \A i \in 1..p - 1 : sorted[i].off <= c.off
  /\ p <= Len(sorted) => sorted[p].off > c.off

LEMMA ChunkFacts ==
  ASSUME NEW cs \in Seq(HelloChunk)
  PROVE  /\ Len(cs) \in Nat /\ DOMAIN cs = 1..Len(cs)
         /\ \A k \in 1..Len(cs) : /\ cs[k] \in HelloChunk /\ cs[k].off \in Nat
                                  /\ cs[k].data \in Seq(Nat) /\ Len(cs[k].data) \in Nat
<1>1. ASSUME NEW k \in 1..Len(cs)
      PROVE  /\ cs[k] \in HelloChunk /\ cs[k].off \in Nat
             /\ cs[k].data \in Seq(Nat) /\ Len(cs[k].data) \in Nat
  <2>1. cs[k] \in HelloChunk
    BY ElementOfSeq
  <2>2. cs[k].off \in Nat /\ cs[k].data \in Seq(Nat)
    BY <2>1 DEF HelloChunk, Chunk
  <2>3. QED
    BY <2>1, <2>2, LenProperties
<1>2. QED
  BY <1>1, LenProperties

LEMMA InsertInFront ==
  ASSUME NEW s \in Seq(HelloChunk), NEW c \in HelloChunk, NEW p \in 1..Len(s)
  PROVE  LET new == InsertAt(s, p, c)
         IN  /\ new \in Seq(HelloChunk) /\ Len(new) = Len(s) + 1
             /\ \A i \in 1..Len(s) + 1 :
                  new[i] = IF i < p THEN s[i] ELSE IF i = p THEN c ELSE s[i - 1]
<1> DEFINE L == Len(s)
           a == SubSeq(s, 1, p - 1)
           e == <<c>>
           b == SubSeq(s, p, L)
<1>1. L \in Nat /\ p \in 1..L
  BY LenProperties
<1>2. /\ a \in Seq(HelloChunk) /\ Len(a) = p - 1 /\ \A i \in 1..p - 1 : a[i] = s[i]
  <2>1. 1 \in 1..Len(s) + 1 /\ p - 1 \in 1 - 1..Len(s)
    BY <1>1
  <2>2. /\ a \in Seq(HelloChunk) /\ Len(a) = (p - 1) - 1 + 1
        /\ \A i \in 1..(p - 1) - 1 + 1 : a[i] = s[1 + i - 1]
    BY <2>1, SubSeqProperties
  <2> HIDE DEF a
  <2>3. (p - 1) - 1 + 1 = p - 1 /\ \A i \in 1..p - 1 : 1 + i - 1 = i
    BY <1>1
  <2>4. QED
    BY <2>2, <2>3
<1>3. /\ b \in Seq(HelloChunk) /\ Len(b) = L - p + 1
      /\ \A i \in 1..L - p + 1 : b[i] = s[p + i - 1]
  <2>1. p \in 1..Len(s) + 1 /\ L \in p - 1..Len(s)
    BY <1>1
  <2>2. QED
    BY <2>1, SubSeqProperties
<1>4. e \in Seq(HelloChunk) /\ Len(e) = 1 /\ e[1] = c
  OBVIOUS
<1>5. InsertAt(s, p, c) = (a \o e) \o b
  BY DEF InsertAt
<1> DEFINE ae == a \o e
<1> HIDE DEF a, e, b
<1>6. /\ ae \in Seq(HelloChunk) /\ Len(ae) = Len(a) + Len(e)
      /\ \A i \in 1..Len(a) + Len(e) : ae[i] = IF i <= Len(a) THEN a[i] ELSE e[i - Len(a)]
  BY <1>2, <1>4, ConcatProperties
<1> HIDE DEF ae
<1>7. Len(ae) = p
  BY <1>1, <1>2, <1>4, <1>6
<1>8. /\ ae \o b \in Seq(HelloChunk) /\ Len(ae \o b) = Len(ae) + Len(b)
      /\ \A i \in 1..Len(ae) + Len(b) : (ae \o b)[i] = IF i <= Len(ae) THEN ae[i] ELSE b[i - Len(ae)]
  <2>1. ae \in Seq(HelloChunk) /\ b \in Seq(HelloChunk)
    BY <1>3, <1>6
  <2>2. QED
    BY <2>1, ConcatProperties
<1> DEFINE new == ae \o b
<1>9. /\ new \in Seq(HelloChunk) /\ Len(new) = p + (L - p + 1)
      /\ \A i \in 1..p + (L - p + 1) : new[i] = IF i <= p THEN ae[i] ELSE b[i - p]
  BY <1>3, <1>7, <1>8
<1>10. p + (L - p + 1) = L + 1
  BY <1>1
<1> HIDE DEF new
<1>11. ASSUME NEW i \in 1..L + 1
       PROVE  new[i] = IF i < p THEN s[i] ELSE IF i = p THEN c ELSE s[i - 1]
  <2>1. CASE i < p
    <3>1. i \in 1..p - 1 /\ i <= p /\ i \in 1..(p - 1) + 1
      BY <1>1, <2>1
    <3>2. new[i] = ae[i] /\ ae[i] = a[i]
      BY <1>2, <1>4, <1>6, <1>9, <1>10, <3>1
    <3>3. QED
      BY <1>2, <2>1, <3>1, <3>2
  <2>2. CASE i = p
    <3>1. new[i] = ae[p]
      BY <1>1, <1>9, <1>10, <2>2
    <3>2. p \in 1..(p - 1) + 1 /\ ~ (p <= p - 1) /\ p - (p - 1) = 1
      BY <1>1
    <3>3. ae[p] = e[1]
      BY <1>2, <1>4, <1>6, <3>2
    <3>4. QED
      BY <1>1, <1>4, <2>2, <3>1, <3>3
  <2>3. CASE i > p
    <3>1. i - p \in 1..L - p + 1 /\ p + (i - p) - 1 = i - 1 /\ ~ (i <= p) /\ ~ (i < p) /\ i # p
      BY <1>1, <2>3
    <3>2. new[i] = b[i - p]
      BY <1>9, <1>10, <3>1
    <3>3. b[i - p] = s[i - 1]
      BY <1>3, <3>1
    <3>4. QED
      BY <3>1, <3>2, <3>3
  <2>4. QED
    BY <1>1, <2>1, <2>2, <2>3
<1>12. InsertAt(s, p, c) = new
  BY <1>5 DEF new, ae
<1>13. QED
  BY <1>9, <1>10, <1>11, <1>12 DEF L

LEMMA Inserted ==
  ASSUME NEW s \in Seq(HelloChunk), NEW c \in HelloChunk
  PROVE  \E p : PutAt(s, c, p, InsertByOffset(s, c))
<1> DEFINE L == Len(s)
           I == {i \in 1..L : s[i].off > c.off}
<1>1. L \in Nat /\ c.off \in Nat /\ \A i \in 1..L : s[i].off \in Nat
  BY ChunkFacts DEF HelloChunk, Chunk
<1>2. InsertByOffset(s, c) = IF I = {} THEN Append(s, c)
                             ELSE InsertAt(s, CHOOSE x \in I : \A y \in I : x <= y, c)
  <2>1. SelectInSeq(s, LAMBDA d : d.off > c.off) =
          IF I # {} THEN CHOOSE x \in I : \A y \in I : x <= y ELSE 0
    BY DEF SelectInSeq, Min
  <2>2. ASSUME I # {} PROVE (CHOOSE x \in I : \A y \in I : x <= y) \in 1..L
    <3>1. \E x \in I : \A y \in I : x <= y
      <4>1. I \subseteq Nat
        BY <1>1
      <4> HIDE DEF I
      <4>2. QED
        BY <2>2, <4>1, LeastNat
    <3>2. QED
      BY <3>1
  <2>3. QED
    BY <1>1, <2>1, <2>2 DEF InsertByOffset
<1>3. CASE I = {}
  <2> DEFINE new == Append(s, c)
  <2>1. InsertByOffset(s, c) = new
    BY <1>2, <1>3
  <2>2. /\ new \in Seq(HelloChunk) /\ Len(new) = L + 1
        /\ \A i \in 1..L : new[i] = s[i]
        /\ new[L + 1] = c
    BY AppendProperties
  <2> HIDE DEF new
  <2>3. ASSUME NEW i \in 1..L + 1
        PROVE  new[i] = IF i < L + 1 THEN s[i] ELSE IF i = L + 1 THEN c ELSE s[i - 1]
    BY <1>1, <2>2
  <2>4. ASSUME NEW i \in 1..L PROVE s[i].off <= c.off
    BY <1>1, <1>3
  <2>5. L + 1 \in 1..L + 1 /\ (L + 1) - 1 = L /\ ~ (L + 1 <= L)
    BY <1>1
  <2>6. PutAt(s, c, L + 1, new)
    BY <2>2, <2>3, <2>4, <2>5 DEF PutAt
  <2>7. QED
    BY <2>1, <2>6
<1>4. CASE I # {}
  <2> DEFINE p == CHOOSE x \in I : \A y \in I : x <= y
             new == InsertAt(s, p, c)
  <2>1. \E x \in I : \A y \in I : x <= y
    <3>1. I \subseteq Nat
      BY <1>1
    <3> HIDE DEF I
    <3>2. QED
      BY <1>4, <3>1, LeastNat
  <2>2. p \in I /\ \A y \in I : p <= y
    BY <2>1
  <2>3. InsertByOffset(s, c) = new
    BY <1>2, <1>4
  <2> HIDE DEF p
  <2>4. p \in 1..L /\ s[p].off > c.off
    BY <2>2
  <2>5. /\ new \in Seq(HelloChunk) /\ Len(new) = L + 1
        /\ \A i \in 1..L + 1 : new[i] = IF i < p THEN s[i] ELSE IF i = p THEN c ELSE s[i - 1]
    BY <2>4, InsertInFront
  <2>6. ASSUME NEW i \in 1..p - 1 PROVE s[i].off <= c.off
    <3>1. i \in 1..L /\ ~ (p <= i)
      BY <1>1, <2>4
    <3>2. i \notin I
      BY <2>2, <3>1
    <3>3. QED
      BY <1>1, <3>1, <3>2
  <2>7. p \in 1..L + 1
    BY <1>1, <2>4
  <2> HIDE DEF new
  <2>8. PutAt(s, c, p, new)
    BY <2>4, <2>5, <2>6, <2>7 DEF PutAt
  <2>9. QED
    BY <2>3, <2>8
<1>5. QED
  BY <1>3, <1>4

\* The insertion keeps the order and adds the chunk.
LEMMA InsertKeeps ==
  ASSUME NEW s \in Seq(HelloChunk), ByOffset(s), NEW c \in HelloChunk
  PROVE  LET new == InsertByOffset(s, c)
         IN  /\ new \in Seq(HelloChunk) /\ Len(new) = Len(s) + 1 /\ ByOffset(new)
             /\ Upto(new, Len(new)) = Upto(s, Len(s)) \cup {c}
<1> DEFINE new == InsertByOffset(s, c)
           L == Len(s)
<1>1. PICK p : PutAt(s, c, p, new)
  BY Inserted
<1> HIDE DEF new
<1>2. /\ L \in Nat /\ p \in 1..L + 1 /\ new \in Seq(HelloChunk) /\ Len(new) = L + 1
      /\ \A i \in 1..L + 1 : new[i] = IF i < p THEN s[i] ELSE IF i = p THEN c ELSE s[i - 1]
      /\ \A i \in 1..p - 1 : s[i].off <= c.off
      /\ p <= L => s[p].off > c.off
  BY <1>1, LenProperties DEF PutAt
<1>3. c.off \in Nat /\ \A i \in 1..L : s[i].off \in Nat
  BY ChunkFacts DEF HelloChunk, Chunk
<1>4. \A i, j \in 1..L : i < j => s[i].off <= s[j].off
  BY DEF ByOffset
<1> HIDE DEF L
<1>5. \A i \in p..L : s[i].off >= c.off
  <2>1. ASSUME NEW i \in p..L PROVE s[i].off >= c.off
    <3>1. p \in 1..L /\ i \in 1..L /\ s[p].off > c.off /\ (p = i \/ p < i)
      BY <1>2
    <3>2. s[p].off <= s[i].off
      BY <1>3, <1>4, <3>1
    <3>3. QED
      BY <1>3, <3>1, <3>2
  <2>2. QED
    BY <2>1
<1>6. ASSUME NEW i \in 1..L + 1, NEW j \in 1..L + 1, i < j
      PROVE  new[i].off <= new[j].off
  <2>1. CASE j < p
    <3>1. new[i] = s[i] /\ new[j] = s[j] /\ i \in 1..L /\ j \in 1..L
      BY <1>2, <1>6, <2>1
    <3>2. QED
      BY <1>4, <1>6, <3>1
  <2>2. CASE j = p
    <3>1. new[i] = s[i] /\ new[j] = c /\ i \in 1..p - 1
      BY <1>2, <1>6, <2>2
    <3>2. QED
      BY <1>2, <3>1
  <2>3. CASE j > p /\ i < p
    <3>1. new[i] = s[i] /\ new[j] = s[j - 1] /\ i \in 1..L /\ j - 1 \in 1..L /\ i <= j - 1
      BY <1>2, <2>3
    <3>2. i < j - 1 \/ i = j - 1
      BY <1>2, <3>1
    <3>3. QED
      BY <1>3, <1>4, <3>1, <3>2
  <2>4. CASE j > p /\ i = p
    <3>1. new[i] = c /\ new[j] = s[j - 1] /\ j - 1 \in p..L /\ j - 1 \in 1..L
      BY <1>2, <2>4
    <3>2. s[j - 1].off >= c.off /\ s[j - 1].off \in Nat
      BY <1>3, <1>5, <3>1
    <3>3. QED
      BY <1>3, <3>1, <3>2
  <2>5. CASE j > p /\ i > p
    <3>1. /\ new[i] = s[i - 1] /\ new[j] = s[j - 1]
          /\ i - 1 \in 1..L /\ j - 1 \in 1..L /\ i - 1 < j - 1
      BY <1>2, <1>6, <2>5
    <3>2. QED
      BY <1>4, <3>1
  <2>6. QED
    BY <1>2, <2>1, <2>2, <2>3, <2>4, <2>5
<1>7. ASSUME NEW x \in Upto(new, L + 1) PROVE x \in Upto(s, L) \cup {c}
  <2>1. PICK i \in 1..L + 1 : x = new[i]
    BY DEF Upto
  <2>2. i < p => i \in 1..L
    BY <1>2
  <2>3. i > p => i - 1 \in 1..L
    BY <1>2
  <2>4. i < p \/ i = p \/ i > p
    BY <1>2
  <2>5. i > p => ~ (i < p) /\ i # p
    BY <1>2
  <2>6. QED
    BY <1>2, <2>1, <2>2, <2>3, <2>4, <2>5 DEF Upto
<1>8. ASSUME NEW x \in Upto(s, L) \cup {c} PROVE x \in Upto(new, L + 1)
  <2>1. CASE x = c
    <3>1. new[p] = c
      BY <1>2
    <3>2. QED
      BY <1>2, <2>1, <3>1 DEF Upto
  <2>2. CASE x \in Upto(s, L)
    <3>1. PICK i \in 1..L : x = s[i]
      BY <2>2 DEF Upto
    <3>2. CASE i < p
      <4>1. i \in 1..L + 1 /\ new[i] = s[i]
        BY <1>2, <3>2
      <4>2. QED
        BY <3>1, <4>1 DEF Upto
    <3>3. CASE ~ (i < p)
      <4>1. i + 1 \in 1..L + 1 /\ ~ (i + 1 < p) /\ i + 1 # p /\ (i + 1) - 1 = i
        BY <1>2, <3>3
      <4>2. new[i + 1] = s[(i + 1) - 1]
        BY <1>2, <4>1
      <4>3. QED
        BY <3>1, <4>1, <4>2 DEF Upto
    <3>4. QED
      BY <3>2, <3>3
  <2>3. QED
    BY <2>1, <2>2
<1>9. QED
  BY <1>2, <1>6, <1>7, <1>8 DEF ByOffset, new, L


SortChunks(cs, sorted) ==
  sorted = [k \in 0..Len(cs) |-> IF k = 0 THEN <<>> ELSE InsertByOffset(sorted[k - 1], cs[k])]

\* The insertion sort orders the chunks and keeps each of them.
LEMMA ChunksSorted ==
  ASSUME NEW cs \in Seq(HelloChunk)
  PROVE  LET sorted == SortedChunks(cs)
         IN  /\ sorted \in Seq(HelloChunk) /\ ByOffset(sorted)
             /\ Upto(sorted, Len(sorted)) = Upto(cs, Len(cs))
<1> DEFINE n == Len(cs)
           S == {s \in Seq(HelloChunk) : ByOffset(s)}
           step == [k \in 1..n |-> [s \in S |-> InsertByOffset(s, cs[k])]]
           z == <<>>
<1>1. n \in Nat /\ z \in S /\ Len(z) = 0 /\ \A k \in 1..n : cs[k] \in HelloChunk
  BY ChunkFacts, EmptySeq DEF ByOffset
<1>2. ASSUME NEW k \in 1..n, NEW s \in S
      PROVE  /\ InsertByOffset(s, cs[k]) \in S
             /\ Upto(InsertByOffset(s, cs[k]), Len(InsertByOffset(s, cs[k]))) = Upto(s, Len(s)) \cup {cs[k]}
  BY <1>1, InsertKeeps
<1>3. step \in [1..n -> [S -> S]]
  BY <1>2
<1>4. \A k \in 1..n : \A s \in S : step[k][s] = InsertByOffset(s, cs[k])
  OBVIOUS
<1> HIDE DEF n, S, step, z
<1>5. \E f : SortChunks(cs, f)
  <2>1. PICK f : Iterated(S, n, z, step, f)
    BY <1>1, <1>3, Iterates
  <2>2. f \in [0..n -> S] /\ f[0] = z /\ \A k \in 1..n : f[k] = step[k][f[k - 1]]
    BY <2>1 DEF Iterated
  <2>3. ASSUME NEW k \in 0..n
        PROVE  f[k] = IF k = 0 THEN z ELSE InsertByOffset(f[k - 1], cs[k])
    <3>1. CASE k = 0
      BY <2>2, <3>1
    <3>2. CASE k # 0
      <4>1. k \in 1..n /\ k - 1 \in 0..n
        BY <1>1, <3>2
      <4>2. f[k - 1] \in S
        BY <2>2, <4>1
      <4>3. QED
        BY <1>4, <2>2, <3>2, <4>1, <4>2
    <3>3. QED
      BY <3>1, <3>2
  <2>4. QED
    BY <2>2, <2>3 DEF SortChunks, n, z
<1> DEFINE F == CHOOSE f : SortChunks(cs, f)
<1>6. SortedChunks(cs) = F[n]
  BY DEF SortedChunks, SortChunks, n
<1>7. SortChunks(cs, F)
  BY <1>5
<1> HIDE DEF F
<1>8. ASSUME NEW k \in 0..n
      PROVE  F[k] = IF k = 0 THEN z ELSE InsertByOffset(F[k - 1], cs[k])
  BY <1>7, Zenon DEF SortChunks, n, z
<1>9. F[0] = z /\ \A k \in 1..n : F[k] = InsertByOffset(F[k - 1], cs[k])
  BY <1>1, <1>8
<1>10. \A k \in 0..n : F[k] \in S
  <2>1. F[0] = z /\ \A k \in 1..n : F[k - 1] \in S => F[k] = step[k][F[k - 1]]
    BY <1>4, <1>9
  <2>2. n \in Nat /\ z \in S
    BY <1>1
  <2>3. QED
    BY <1>3, <2>1, <2>2, Recursion
<1> DEFINE T == {k \in Nat : k <= n => Upto(F[k], Len(F[k])) = Upto(cs, k)}
<1>11. 0 \in T
  <2>1. 1..0 = {} /\ Len(F[0]) = 0
    BY <1>1, <1>9
  <2>2. QED
    BY <2>1 DEF Upto
<1>12. ASSUME NEW k \in Nat, k \in T PROVE k + 1 \in T
  <2>1. SUFFICES ASSUME k + 1 <= n PROVE Upto(F[k + 1], Len(F[k + 1])) = Upto(cs, k + 1)
    OBVIOUS
  <2>2. k + 1 \in 1..n /\ k \in 0..n /\ (k + 1) - 1 = k
    BY <1>1, <2>1
  <2>3. F[k + 1] = InsertByOffset(F[(k + 1) - 1], cs[k + 1])
    BY <1>9, <2>2, Zenon
  <2>4. F[k] \in S /\ F[k + 1] = InsertByOffset(F[k], cs[k + 1])
    BY <1>10, <2>2, <2>3
  <2>5. Upto(F[k + 1], Len(F[k + 1])) = Upto(F[k], Len(F[k])) \cup {cs[k + 1]}
    BY <1>2, <2>2, <2>4
  <2>6. Upto(F[k], Len(F[k])) = Upto(cs, k)
    BY <1>1, <1>12, <2>1
  <2>7. Upto(cs, k + 1) = Upto(cs, k) \cup {cs[k + 1]}
    <3>1. 1..k + 1 = 1..k \cup {k + 1}
      OBVIOUS
    <3>2. QED
      BY <3>1 DEF Upto
  <2>8. QED
    BY <2>5, <2>6, <2>7
<1> HIDE DEF T
<1>13. n \in T
  BY <1>1, <1>11, <1>12, Inductive
<1>14. Upto(F[n], Len(F[n])) = Upto(cs, n) /\ F[n] \in S
  BY <1>1, <1>10, <1>13 DEF T
<1>15. QED
  BY <1>6, <1>14 DEF S, n

-----------------------------------------------------------------------------
(* InitialCrypto: the join.                                                 *)

End(c) == c.off + Len(c.data)
Covers(c, x) == c.off <= x /\ x < End(c)

JoinChunks(sorted, out) ==
  out = [k \in 0..Len(sorted) |-> IF k = 0 THEN <<>> ELSE JoinStep(out[k - 1], sorted[k])]

\* The join of the first k chunks is the hello up to the first offset that none of them
\* covers.
JoinedTo(sorted, k, out) ==
  /\ \A i \in 1..Len(out) : out[i] = i - 1
  /\ \A x \in 0..Len(out) - 1 : \E j \in 1..k : Covers(sorted[j], x)
  /\ \A j \in 1..k : sorted[j].off > Len(out) \/ End(sorted[j]) <= Len(out)

LEMMA JoinStepIs ==
  ASSUME NEW out \in Seq(Nat), NEW c \in HelloChunk
  PROVE  LET new == JoinStep(out, c)
         IN  /\ new \in Seq(Nat)
             /\ c.off > Len(out) \/ End(c) <= Len(out) => new = out
             /\ ~ (c.off > Len(out) \/ End(c) <= Len(out)) =>
                  /\ Len(new) = End(c) /\ \A i \in 1..Len(out) : new[i] = out[i]
                  /\ \A i \in Len(out) + 1..End(c) : new[i] = i - 1
<1> DEFINE n == Len(out)
           data == c.data
           m == Len(data)
<1>1. /\ n \in Nat /\ c.off \in Nat /\ data \in Seq(Nat) /\ m \in Nat
      /\ \A i \in 1..m : data[i] = c.off + i - 1
  BY LenProperties DEF HelloChunk, Chunk
<1> DEFINE off == c.off
<1>2. JoinStep(out, c) = IF off > n \/ off + m <= n THEN out
                         ELSE out \o SubSeq(data, n - off + 1, Len(data))
  BY DEF JoinStep
<1>3. End(c) = off + m
  BY DEF End
<1>4. CASE off > n \/ off + m <= n
  BY <1>2, <1>3, <1>4
<1>5. CASE ~ (off > n \/ off + m <= n)
  <2> DEFINE a == n - off + 1
             rest == SubSeq(data, a, Len(data))
             new == out \o rest
  <2> HIDE DEF m, n, off
  <2>1. off \in Nat /\ a \in 1..m + 1 /\ m \in a - 1..m /\ m - a + 1 = off + m - n
    <3>1. off \in Nat /\ n \in Nat /\ m \in Nat /\ off <= n /\ n < off + m
      <4>1. off \in Nat /\ n \in Nat /\ m \in Nat
        BY <1>1 DEF off
      <4>2. QED
        BY <1>5, <4>1
    <3>2. a = n - off + 1
      OBVIOUS
    <3> HIDE DEF a
    <3>3. QED
      BY <3>1, <3>2
  <2> HIDE DEF a
  <2>2. /\ rest \in Seq(Nat) /\ Len(rest) = m - a + 1
        /\ \A i \in 1..m - a + 1 : rest[i] = data[a + i - 1]
    <3>1. /\ a \in Int /\ m \in Int /\ rest = SubSeq(data, a, m)
          /\ \A i \in a..m : data[i] \in Nat
      <4>1. \A i \in a..m : i \in 1..m
        BY <1>1, <2>1
      <4>2. \A i \in 1..m : data[i] \in Nat
        BY <1>1, ElementOfSeq DEF m
      <4>3. \A i \in a..m : data[i] \in Nat
        BY <4>1, <4>2
      <4>4. a \in Int /\ m \in Int
        BY <1>1, <2>1
      <4>5. rest = SubSeq(data, a, m)
        BY DEF m
      <4>6. QED
        BY <4>3, <4>4, <4>5
    <3> HIDE DEF rest
    <3>2. /\ rest \in Seq(Nat) /\ Len(rest) = IF a <= m THEN m - a + 1 ELSE 0
          /\ \A i \in 1..m - a + 1 : rest[i] = data[a + i - 1]
      BY <3>1, SubSeqProperties
    <3>3. Len(rest) = m - a + 1
      BY <1>1, <2>1, <3>2
    <3>4. QED
      BY <3>2, <3>3
  <2> HIDE DEF rest
  <2>3. /\ new \in Seq(Nat) /\ Len(new) = Len(out) + Len(rest)
        /\ \A i \in 1..Len(out) + Len(rest) :
             new[i] = IF i <= Len(out) THEN out[i] ELSE rest[i - Len(out)]
    BY <2>2, ConcatProperties
  <2> HIDE DEF new
  <2>4. n + (m - a + 1) = off + m
    BY <1>1, <2>1
  <2>5. /\ Len(new) = off + m
        /\ \A i \in 1..off + m : new[i] = IF i <= n THEN out[i] ELSE rest[i - n]
    BY <2>2, <2>3, <2>4 DEF n
  <2>6. ASSUME NEW i \in 1..n PROVE new[i] = out[i]
    <3>1. i \in 1..off + m /\ i <= n
      BY <1>1, <1>5, <2>1
    <3>2. QED
      BY <2>5, <3>1
  <2>7. ASSUME NEW i \in n + 1..off + m PROVE new[i] = i - 1
    <3>1. /\ i \in 1..off + m /\ ~ (i <= n) /\ i - n \in 1..m - a + 1
          /\ a + (i - n) - 1 \in 1..m /\ off + (a + (i - n) - 1) - 1 = i - 1
      BY <1>1, <1>5, <2>1 DEF a
    <3>2. new[i] = rest[i - n]
      BY <2>5, <3>1
    <3>3. rest[i - n] = data[a + (i - n) - 1]
      BY <2>2, <3>1
    <3>4. data[a + (i - n) - 1] = off + (a + (i - n) - 1) - 1
      BY <1>1, <3>1 DEF off
    <3>5. QED
      BY <3>1, <3>2, <3>3, <3>4
  <2>8. JoinStep(out, c) = new
    BY <1>2, <1>5 DEF new, rest, a
  <2>9. QED
    BY <1>3, <1>5, <2>3, <2>5, <2>6, <2>7, <2>8 DEF n, off
<1>6. QED
  BY <1>4, <1>5


LEMMA JoinKeeps ==
  ASSUME NEW sorted \in Seq(HelloChunk), ByOffset(sorted), NEW k \in 0..Len(sorted) - 1,
         NEW out \in Seq(Nat), JoinedTo(sorted, k, out)
  PROVE  JoinedTo(sorted, k + 1, JoinStep(out, sorted[k + 1]))
<1> DEFINE c == sorted[k + 1]
           new == JoinStep(out, c)
           n == Len(out)
<1>1. /\ n \in Nat /\ k \in Nat /\ k + 1 \in 1..Len(sorted) /\ Len(sorted) \in Nat
      /\ c \in HelloChunk /\ \A j \in 1..Len(sorted) : sorted[j].off \in Nat /\ End(sorted[j]) \in Nat
  BY LenProperties, ChunkFacts DEF End
<1>2. /\ new \in Seq(Nat)
      /\ c.off > n \/ End(c) <= n => new = out
      /\ ~ (c.off > n \/ End(c) <= n) =>
           /\ Len(new) = End(c) /\ \A i \in 1..n : new[i] = out[i]
           /\ \A i \in n + 1..End(c) : new[i] = i - 1
  BY <1>1, JoinStepIs
<1>3. /\ \A i \in 1..n : out[i] = i - 1
      /\ \A x \in 0..n - 1 : \E j \in 1..k : Covers(sorted[j], x)
      /\ \A j \in 1..k : sorted[j].off > n \/ End(sorted[j]) <= n
  BY DEF JoinedTo
<1>4. c.off \in Nat /\ End(c) \in Nat /\ 1..k + 1 = 1..k \cup {k + 1}
  BY <1>1
<1>5. \A j \in 1..k : j \in 1..Len(sorted) /\ sorted[j].off <= c.off
  BY <1>1 DEF ByOffset
<1> HIDE DEF new, n
<1>6. CASE c.off > n \/ End(c) <= n
  <2>1. new = out /\ Len(new) = n
    BY <1>2, <1>6 DEF n
  <2>2. \A j \in 1..k + 1 : sorted[j].off > n \/ End(sorted[j]) <= n
    BY <1>3, <1>4, <1>6
  <2>3. \A x \in 0..n - 1 : \E j \in 1..k + 1 : Covers(sorted[j], x)
    BY <1>3, <1>4
  <2>4. JoinedTo(sorted, k + 1, new)
    BY <1>3, <2>1, <2>2, <2>3 DEF JoinedTo
  <2>5. QED
    BY <2>4 DEF new
<1>7. CASE ~ (c.off > n \/ End(c) <= n)
  <2> DEFINE e == End(c)
  <2>1. /\ Len(new) = e /\ e \in Nat /\ n < e /\ c.off <= n
        /\ \A i \in 1..n : new[i] = out[i]
        /\ \A i \in n + 1..e : new[i] = i - 1
    BY <1>1, <1>2, <1>4, <1>7
  <2> HIDE DEF e, c
  <2>2. ASSUME NEW i \in 1..e PROVE new[i] = i - 1
    <3>1. CASE i \in 1..n
      BY <1>3, <2>1, <3>1
    <3>2. CASE i \in n + 1..e
      BY <2>1, <3>2
    <3>3. i \in 1..n \/ i \in n + 1..e
      BY <1>1, <2>1
    <3>4. QED
      BY <3>1, <3>2, <3>3
  <2>3. ASSUME NEW x \in 0..e - 1 PROVE \E j \in 1..k + 1 : Covers(sorted[j], x)
    <3>1. CASE x \in 0..n - 1
      BY <1>3, <1>4, <3>1
    <3>2. CASE x >= n
      <4>1. c.off <= x /\ x < e
        BY <1>1, <1>4, <2>1, <3>2
      <4>2. Covers(sorted[k + 1], x) /\ k + 1 \in 1..k + 1
        BY <1>1, <4>1 DEF Covers, e, c
      <4>3. QED
        BY <4>2
    <3>3. x \in 0..n - 1 \/ x >= n
      BY <1>1, <2>1
    <3>4. QED
      BY <3>1, <3>2, <3>3
  <2>4. ASSUME NEW j \in 1..k + 1 PROVE sorted[j].off > e \/ End(sorted[j]) <= e
    <3>1. CASE j \in 1..k
      <4>1. sorted[j].off \in Nat /\ End(sorted[j]) \in Nat /\ sorted[j].off <= c.off
        BY <1>1, <1>5, <3>1
      <4>2. sorted[j].off > n \/ End(sorted[j]) <= n
        BY <1>3, <3>1
      <4>3. c.off \in Nat /\ n \in Nat /\ c.off <= n
        BY <1>1, <1>4, <2>1
      <4>4. sorted[j].off <= n
        BY <4>1, <4>3
      <4>5. QED
        BY <1>1, <2>1, <4>1, <4>2, <4>4
    <3>2. CASE j = k + 1
      <4>1. End(sorted[j]) = e
        BY <3>2 DEF e, c
      <4>2. QED
        BY <2>1, <4>1
    <3>3. QED
      BY <1>4, <3>1, <3>2
  <2>5. JoinedTo(sorted, k + 1, new)
    BY <2>1, <2>2, <2>3, <2>4 DEF JoinedTo
  <2>6. QED
    BY <2>5 DEF new, c
<1>8. QED
  BY <1>6, <1>7

FirstMissing(cs, n) ==
  /\ \A x \in 0..n - 1 : \E j \in 1..Len(cs) : Covers(cs[j], x)
  /\ \A j \in 1..Len(cs) : ~ Covers(cs[j], n)

\* joinCryptoChunks returns the hello up to its first byte that is missing.
LEMMA ChunksJoined ==
  ASSUME NEW cs \in Seq(HelloChunk)
  PROVE  \E n \in 0..HelloLen :
           FirstMissing(cs, n) /\ joinCryptoChunks(cs) = [i \in 1..n |-> i - 1]
<1> DEFINE sorted == SortedChunks(cs)
           N == Len(sorted)
           S == Seq(Nat)
           step == [k \in 1..N |-> [s \in S |-> JoinStep(s, sorted[k])]]
           z == <<>>
<1>1. sorted \in Seq(HelloChunk) /\ ByOffset(sorted) /\ Upto(sorted, N) = Upto(cs, Len(cs))
  BY ChunksSorted
<1> HIDE DEF sorted
<1>2. N \in Nat /\ z \in S /\ Len(z) = 0 /\ \A k \in 1..N : sorted[k] \in HelloChunk
  BY <1>1, ChunkFacts, EmptySeq
<1>3. step \in [1..N -> [S -> S]]
  <2>1. ASSUME NEW k \in 1..N, NEW s \in S PROVE JoinStep(s, sorted[k]) \in S
    BY <1>2, JoinStepIs
  <2>2. QED
    BY <2>1
<1>4. \A k \in 1..N : \A s \in S : step[k][s] = JoinStep(s, sorted[k])
  OBVIOUS
<1> HIDE DEF N, S, step, z
<1>5. \E f : JoinChunks(sorted, f)
  <2>1. PICK f : Iterated(S, N, z, step, f)
    BY <1>2, <1>3, Iterates
  <2>2. f \in [0..N -> S] /\ f[0] = z /\ \A k \in 1..N : f[k] = step[k][f[k - 1]]
    BY <2>1 DEF Iterated
  <2>3. ASSUME NEW k \in 0..N
        PROVE  f[k] = IF k = 0 THEN z ELSE JoinStep(f[k - 1], sorted[k])
    <3>1. CASE k = 0
      BY <2>2, <3>1
    <3>2. CASE k # 0
      <4>1. k \in 1..N /\ k - 1 \in 0..N
        BY <1>2, <3>2
      <4>2. f[k - 1] \in S
        BY <2>2, <4>1
      <4>3. QED
        BY <1>4, <2>2, <3>2, <4>1, <4>2
    <3>3. QED
      BY <3>1, <3>2
  <2>4. QED
    BY <2>2, <2>3 DEF JoinChunks, N, z
<1> DEFINE F == CHOOSE f : JoinChunks(sorted, f)
<1>6. joinCryptoChunks(cs) = F[N]
  BY DEF joinCryptoChunks, JoinChunks, N, sorted
<1>7. JoinChunks(sorted, F)
  BY <1>5
<1> HIDE DEF F
<1>8. ASSUME NEW k \in 0..N
      PROVE  F[k] = IF k = 0 THEN z ELSE JoinStep(F[k - 1], sorted[k])
  BY <1>7, Zenon DEF JoinChunks, N, z
<1>9. F[0] = z /\ \A k \in 1..N : F[k] = JoinStep(F[k - 1], sorted[k])
  BY <1>2, <1>8
<1>10. \A k \in 0..N : F[k] \in S
  <2>1. F[0] = z /\ \A k \in 1..N : F[k - 1] \in S => F[k] = step[k][F[k - 1]]
    BY <1>4, <1>9
  <2>2. N \in Nat /\ z \in S
    BY <1>2
  <2>3. QED
    BY <1>3, <2>1, <2>2, Recursion
<1> DEFINE T == {k \in Nat : k <= N => JoinedTo(sorted, k, F[k])}
<1>11. 0 \in T
  <2>1. Len(F[0]) = 0 /\ 1..0 = {} /\ 0..0 - 1 = {}
    BY <1>2, <1>9
  <2>2. JoinedTo(sorted, 0, F[0])
    BY <2>1 DEF JoinedTo
  <2>3. QED
    BY <2>2
<1>12. ASSUME NEW k \in Nat, k \in T PROVE k + 1 \in T
  <2>1. SUFFICES ASSUME k + 1 <= N PROVE JoinedTo(sorted, k + 1, F[k + 1])
    OBVIOUS
  <2>2. k + 1 \in 1..N /\ k \in 0..N /\ (k + 1) - 1 = k /\ k \in 0..N - 1
    BY <1>2, <2>1
  <2>3. F[k + 1] = JoinStep(F[(k + 1) - 1], sorted[k + 1])
    BY <1>9, <2>2, Zenon
  <2>4. F[k] \in Seq(Nat) /\ F[k + 1] = JoinStep(F[k], sorted[k + 1])
    BY <1>10, <2>2, <2>3 DEF S
  <2>5. JoinedTo(sorted, k, F[k])
    BY <1>2, <1>12, <2>1
  <2>6. k \in 0..Len(sorted) - 1
    BY <2>2 DEF N
  <2>7. QED
    BY <1>1, <2>4, <2>5, <2>6, JoinKeeps
<1> HIDE DEF T
<1>13. N \in T
  BY <1>2, <1>11, <1>12, Inductive
<1> DEFINE out == F[N]
           n == Len(out)
<1>14. JoinedTo(sorted, N, out) /\ out \in Seq(Nat) /\ N \in 0..N
  BY <1>2, <1>10, <1>13 DEF T, S
<1> HIDE DEF out
<1>15. /\ n \in Nat /\ \A i \in 1..n : out[i] = i - 1
       /\ \A x \in 0..n - 1 : \E j \in 1..N : Covers(sorted[j], x)
       /\ \A j \in 1..N : sorted[j].off > n \/ End(sorted[j]) <= n
  BY <1>14, LenProperties DEF JoinedTo
<1>16. out = [i \in 1..n |-> i - 1]
  <2>1. out \in [1..n -> Nat]
    BY <1>14, LenProperties
  <2>2. QED
    BY <1>15, <2>1
<1> HIDE DEF n
<1>17. \A j \in 1..N : ~ Covers(sorted[j], n)
  <2>1. ASSUME NEW j \in 1..N PROVE ~ Covers(sorted[j], n)
    <3>1. sorted[j].off \in Nat /\ Len(sorted[j].data) \in Nat /\ (sorted[j].off > n \/ End(sorted[j]) <= n)
      BY <1>1, <1>15, ChunkFacts DEF N
    <3>2. QED
      BY <1>15, <3>1 DEF Covers, End
  <2>2. QED
    BY <2>1
<1>18. \A j \in 1..Len(cs) : \E i \in 1..N : sorted[i] = cs[j]
  BY <1>1 DEF Upto
<1>19. \A i \in 1..N : \E j \in 1..Len(cs) : sorted[i] = cs[j]
  BY <1>1 DEF Upto
<1>20. FirstMissing(cs, n)
  BY <1>15, <1>17, <1>18, <1>19 DEF FirstMissing
<1>21. n \in 0..HelloLen
  <2>1. CASE n = 0
    BY <2>1, InitialAssumption
  <2>2. CASE n # 0
    <3>1. n - 1 \in 0..n - 1
      BY <1>15, <2>2
    <3>2. PICK j \in 1..N : Covers(sorted[j], n - 1)
      BY <1>15, <3>1
    <3>3. /\ sorted[j].off + Len(sorted[j].data) <= HelloLen
          /\ sorted[j].off \in Nat /\ Len(sorted[j].data) \in Nat
      BY <1>1, <1>2, ChunkFacts DEF HelloChunk, N
    <3>4. n - 1 < sorted[j].off + Len(sorted[j].data)
      BY <3>2 DEF Covers, End
    <3>5. n \in Nat /\ HelloLen \in Nat
      BY <1>15, InitialAssumption
    <3>6. QED
      BY <3>3, <3>4, <3>5
  <2>3. QED
    BY <2>1, <2>2
<1>22. QED
  BY <1>6, <1>16, <1>20, <1>21 DEF out


-----------------------------------------------------------------------------
(* InitialCrypto: the extractor.                                            *)

InitialInv ==
  /\ chunks \in Seq(HelloChunk) /\ packets \in 0..FeedMax
  /\ feedResult \in [sni : BOOLEAN, done : BOOLEAN]
  /\ ~ feedResult.done => packets < FeedMax
  /\ feedResult.sni => feedResult.done
  /\ feedResult.sni <=> HelloComplete(joinCryptoChunks(chunks))

\* Whether the hello is complete, by the first byte that is missing.
LEMMA CompleteAt ==
  ASSUME NEW cs \in Seq(HelloChunk)
  PROVE  \E n \in 0..HelloLen :
           /\ FirstMissing(cs, n) /\ joinCryptoChunks(cs) = [i \in 1..n |-> i - 1]
           /\ HelloComplete(joinCryptoChunks(cs)) <=> n = HelloLen
<1>1. PICK n \in 0..HelloLen :
        FirstMissing(cs, n) /\ joinCryptoChunks(cs) = [i \in 1..n |-> i - 1]
  BY ChunksJoined
<1> DEFINE out == [i \in 1..n |-> i - 1]
<1>2. n \in Nat /\ HelloLen \in Nat /\ n <= HelloLen
  BY InitialAssumption
<1>3. Len(out) = n
  <2>1. out \in [1..n -> Nat] /\ DOMAIN out = 1..n
    BY <1>2
  <2>2. out \in Seq(Nat)
    BY <1>2, <2>1, SeqDef
  <2>3. Len(out) \in Nat /\ 1..Len(out) = 1..n
    BY <2>1, <2>2, LenProperties
  <2> HIDE DEF out
  <2>4. QED
    BY <1>2, <2>3
<1> HIDE DEF out
<1>4. HelloComplete(out) <=> n = HelloLen
  BY <1>2, <1>3 DEF HelloComplete
<1>5. joinCryptoChunks(cs) = out
  BY <1>1 DEF out
<1>6. QED
  BY <1>1, <1>4, <1>5

LEMMA InitialInitInv == InitialInit => InitialInv
<1> SUFFICES ASSUME InitialInit PROVE InitialInv
  OBVIOUS
<1>1. chunks = <<>> /\ packets = 0 /\ feedResult = [sni |-> FALSE, done |-> FALSE]
  BY DEF InitialInit
<1>2. chunks \in Seq(HelloChunk) /\ Len(chunks) = 0
  BY <1>1, EmptySeq
<1>3. HelloLen \in Nat \ {0} /\ FeedMax \in Nat \ {0}
  BY InitialAssumption
<1>4. PICK n \in 0..HelloLen :
        FirstMissing(chunks, n) /\ (HelloComplete(joinCryptoChunks(chunks)) <=> n = HelloLen)
  BY <1>2, CompleteAt
<1>5. n = 0
  <2>1. SUFFICES ASSUME n # 0 PROVE FALSE
    OBVIOUS
  <2>2. n - 1 \in 0..n - 1
    BY <2>1
  <2>3. \E j \in 1..0 : Covers(chunks[j], n - 1)
    BY <1>2, <1>4, <2>2 DEF FirstMissing
  <2>4. QED
    BY <2>3
<1>6. packets \in 0..FeedMax /\ packets < FeedMax
  BY <1>1, <1>3
<1>7. QED
  BY <1>1, <1>2, <1>3, <1>4, <1>5, <1>6 DEF InitialInv

LEMMA FeedInv ==
  ASSUME InitialInv, NEW datagram \in Datagrams, Feed(datagram)
  PROVE  InitialInv'
<1> DEFINE all == IF datagram = Undecryptable THEN chunks ELSE chunks \o CryptoFrames(datagram)
           found == datagram # Undecryptable /\ HelloComplete(joinCryptoChunks(all))
<1>1. /\ ~ feedResult.done /\ packets' = packets + 1 /\ chunks' = all
      /\ feedResult' = [sni |-> found, done |-> found \/ packets + 1 >= FeedMax]
  BY DEF Feed
<1>2. /\ chunks \in Seq(HelloChunk) /\ packets \in 0..FeedMax /\ packets < FeedMax
      /\ ~ HelloComplete(joinCryptoChunks(chunks)) /\ FeedMax \in Nat
  BY <1>1, InitialAssumption DEF InitialInv
<1>3. all \in Seq(HelloChunk)
  <2>1. CASE datagram = Undecryptable
    BY <1>2, <2>1
  <2>2. CASE datagram # Undecryptable
    <3>1. datagram \in Seq(Frame)
      BY <2>2, InitialAssumption
    <3>2. CryptoFrames(datagram) \in Seq(HelloChunk)
      BY <3>1, FramesRead
    <3>3. chunks \o CryptoFrames(datagram) \in Seq(HelloChunk)
      BY <1>2, <3>2, ConcatProperties
    <3>4. QED
      BY <2>2, <3>3
  <2>3. QED
    BY <2>1, <2>2
<1>4. found <=> HelloComplete(joinCryptoChunks(all))
  <2>1. CASE datagram = Undecryptable
    BY <1>2, <2>1
  <2>2. CASE datagram # Undecryptable
    BY <2>2
  <2>3. QED
    BY <2>1, <2>2
<1>5. found \in BOOLEAN
  OBVIOUS
<1> HIDE DEF all, found
<1>6. packets' \in 0..FeedMax /\ (~ (packets + 1 >= FeedMax) => packets' < FeedMax)
  BY <1>1, <1>2
<1>7. /\ feedResult' \in [sni : BOOLEAN, done : BOOLEAN] /\ feedResult'.sni = found
      /\ feedResult'.done = (found \/ packets + 1 >= FeedMax)
  BY <1>1, <1>5
<1>8. chunks' \in Seq(HelloChunk) /\ (feedResult'.sni <=> HelloComplete(joinCryptoChunks(chunks')))
  BY <1>1, <1>3, <1>4, <1>7
<1>9. (~ feedResult'.done => packets' < FeedMax) /\ (feedResult'.sni => feedResult'.done)
  BY <1>6, <1>7
<1>10. QED
  BY <1>6, <1>7, <1>8, <1>9 DEF InitialInv

LEMMA InitialNextInv ==
  ASSUME InitialInv, [InitialNext]_initialVars
  PROVE  InitialInv'
<1>1. CASE InitialNext
  BY <1>1, FeedInv DEF InitialNext
<1>2. CASE UNCHANGED initialVars
  BY <1>2 DEF initialVars, InitialInv
<1>3. QED
  BY <1>1, <1>2

\* What the extractor holds are chunks of bytes, and it gives up after FeedMax datagrams.
THEOREM InitialTypes == InitialSpec => []InitialTypeOK
<1>1. ASSUME InitialInv PROVE InitialTypeOK
  <2>1. chunks \in Seq(HelloChunk)
    BY <1>1 DEF InitialInv
  <2>2. Len(chunks) \in Nat /\ chunks \in [1..Len(chunks) -> HelloChunk] /\ HelloChunk \subseteq Chunk
    BY <2>1, LenProperties DEF HelloChunk
  <2>3. chunks \in Seq(Chunk)
    BY <2>2, SeqDef
  <2>4. QED
    BY <1>1, <2>3 DEF InitialInv, InitialTypeOK
<1>2. QED
  BY <1>1, InitialInitInv, InitialNextInv, PTL DEF InitialSpec

LEMMA InvJoinExact == ASSUME InitialInv PROVE JoinExact
<1>1. chunks \in Seq(HelloChunk) /\ (feedResult.sni <=> HelloComplete(joinCryptoChunks(chunks)))
  BY DEF InitialInv
<1> DEFINE covered == UNION {{chunks[k].data[i] : i \in DOMAIN chunks[k].data} : k \in DOMAIN chunks}
           First(n) == (n \notin covered \/ n = HelloLen) /\ \A m \in 0..n - 1 : m \in covered
           first == CHOOSE n \in 0..HelloLen : First(n)
<1>2. PICK n \in 0..HelloLen :
        /\ FirstMissing(chunks, n) /\ joinCryptoChunks(chunks) = [i \in 1..n |-> i - 1]
        /\ HelloComplete(joinCryptoChunks(chunks)) <=> n = HelloLen
  BY <1>1, CompleteAt
<1>3. n \in Nat /\ HelloLen \in Nat /\ n <= HelloLen
  BY InitialAssumption
<1>4. ASSUME NEW k \in DOMAIN chunks
      PROVE  /\ k \in 1..Len(chunks) /\ DOMAIN chunks[k].data = 1..Len(chunks[k].data)
             /\ chunks[k].off \in Nat /\ Len(chunks[k].data) \in Nat
             /\ \A i \in 1..Len(chunks[k].data) : chunks[k].data[i] = chunks[k].off + i - 1
  <2>1. k \in 1..Len(chunks) /\ chunks[k] \in HelloChunk /\ chunks[k].data \in Seq(Nat)
        /\ chunks[k].off \in Nat /\ Len(chunks[k].data) \in Nat
    BY <1>1, ChunkFacts
  <2>2. DOMAIN chunks[k].data = 1..Len(chunks[k].data)
    BY <2>1, LenProperties
  <2>3. \A i \in 1..Len(chunks[k].data) : chunks[k].data[i] = chunks[k].off + i - 1
    BY <2>1 DEF HelloChunk
  <2>4. QED
    BY <2>1, <2>2, <2>3
<1>5. ASSUME NEW x \in Nat
      PROVE  x \in covered <=> \E k \in DOMAIN chunks : Covers(chunks[k], x)
  <2>1. ASSUME x \in covered PROVE \E k \in DOMAIN chunks : Covers(chunks[k], x)
    <3>1. PICK k \in DOMAIN chunks : x \in {chunks[k].data[i] : i \in DOMAIN chunks[k].data}
      BY <2>1
    <3>2. PICK i \in DOMAIN chunks[k].data : x = chunks[k].data[i]
      BY <3>1
    <3>3. i \in 1..Len(chunks[k].data) /\ x = chunks[k].off + i - 1
      BY <1>4, <3>2
    <3>4. chunks[k].off \in Nat /\ Len(chunks[k].data) \in Nat
      BY <1>4
    <3>5. Covers(chunks[k], x)
      BY <3>3, <3>4 DEF Covers, End
    <3>6. QED
      BY <3>5
  <2>2. ASSUME NEW k \in DOMAIN chunks, Covers(chunks[k], x) PROVE x \in covered
    <3>1. /\ chunks[k].off \in Nat /\ Len(chunks[k].data) \in Nat
          /\ chunks[k].off <= x /\ x < chunks[k].off + Len(chunks[k].data)
      BY <1>4, <2>2 DEF Covers, End
    <3> DEFINE i == x - chunks[k].off + 1
    <3>2. i \in 1..Len(chunks[k].data) /\ chunks[k].off + i - 1 = x
      BY <3>1
    <3> HIDE DEF i
    <3>3. i \in DOMAIN chunks[k].data /\ chunks[k].data[i] = x
      BY <1>4, <3>2
    <3>4. x \in {chunks[k].data[j] : j \in DOMAIN chunks[k].data}
      BY <3>3
    <3>5. QED
      BY <3>4
  <2>3. QED
    BY <2>1, <2>2
<1>6. DOMAIN chunks = 1..Len(chunks)
  BY <1>1, ChunkFacts
<1> HIDE DEF covered
<1>7. n \notin covered /\ \A m \in 0..n - 1 : m \in covered
  <2>1. n \notin covered
    BY <1>2, <1>3, <1>5, <1>6 DEF FirstMissing
  <2>2. ASSUME NEW m \in 0..n - 1 PROVE m \in covered
    <3>1. \E k \in 1..Len(chunks) : Covers(chunks[k], m)
      BY <1>2 DEF FirstMissing
    <3>2. m \in Nat /\ \E k \in DOMAIN chunks : Covers(chunks[k], m)
      BY <1>6, <3>1
    <3>3. QED
      BY <1>5, <3>2
  <2>3. QED
    BY <2>1, <2>2
<1>8. ASSUME NEW k \in 0..HelloLen, First(k) PROVE k = n
  <2>1. CASE k < n
    <3>1. k \in 0..n - 1 /\ k # HelloLen
      BY <1>3, <2>1
    <3>2. QED
      BY <1>7, <1>8, <3>1
  <2>2. CASE n < k
    <3>1. n \in 0..k - 1
      BY <1>3, <2>2
    <3>2. QED
      BY <1>7, <1>8, <3>1
  <2>3. QED
    BY <1>3, <2>1, <2>2
<1>9. first = n
  <2>1. First(n)
    BY <1>7
  <2> HIDE DEF First
  <2>2. QED
    BY <1>8, <2>1
<1>10. /\ joinCryptoChunks(chunks) = [i \in 1..first |-> i - 1]
       /\ feedResult.sni <=> first = HelloLen
  BY <1>1, <1>2, <1>9
<1>11. QED
  BY <1>10 DEF JoinExact, covered

\* The join of what came is the hello up to its first missing byte, and the SNI is found with
\* the datagram that completes it: for any hello, frames, losses, repetitions and orders.
THEOREM JoinsAreExact == InitialSpec => []JoinExact
<1>1. InitialInv => JoinExact
  BY InvJoinExact
<1>2. QED
  BY <1>1, InitialInitInv, InitialNextInv, PTL DEF InitialSpec

-----------------------------------------------------------------------------
(* The certificate issuer.                                                  *)

HsSteps == {"load", "store", "storeNew", "save", "write", "served"}
HsRec == {HsIdle} \cup [pc : HsSteps, sni : Sni, now : Nat, leaf : Leaf \cup {NoLeaf}]
CacheRec == [leaf : Leaf, used : Nat]

\* The cache in memory is a finite function on names, a handshake is a record.
IssuerTyped ==
  /\ IssuerTypeOK
  /\ leafCache \in [DOMAIN leafCache -> CacheRec] /\ IsFiniteSet(DOMAIN leafCache)
  /\ hs \in [Handshake -> HsRec]

\* A leaf for a name, signed by a CA that outlives it.
Signed(leaf, s, c) ==
  leaf \in Leaf /\ leaf.sni = s /\ leaf.ca = c /\ leaf.exp <= CAEnd[c]

\* The leaf is good for a handshake that began at the time now, unless the CA is not.
GoodAt(leaf, now) == now < leaf.exp \/ CAEnd[ca] <= now

\* Every copy of a leaf is for the name it is kept under: those in memory and those of
\* the handshakes are of the CA in use, those on the disk of the CA of their directory.
MemorySigned == \A s \in DOMAIN leafCache : Signed(leafCache[s].leaf, s, ca)
DiskSigned ==
  \A c \in CA, s \in Sni : leafDisk[c][s] \in {NoLeaf, TornFile} \/ Signed(leafDisk[c][s], s, c)
HandshakesSigned ==
  \A h \in Handshake : hs[h].pc \in {"store", "storeNew", "save", "write", "served"} =>
    Signed(hs[h].leaf, hs[h].sni, ca) /\ GoodAt(hs[h].leaf, hs[h].now)

LeafInv == IssuerTyped /\ MemorySigned /\ DiskSigned /\ HandshakesSigned

\* A handshake's record, and how a step replaces it.
LEMMA HandshakeKinds ==
  ASSUME NEW r \in HsRec, r.pc \in HsSteps
  PROVE  /\ r \in [pc : HsSteps, sni : Sni, now : Nat, leaf : Leaf \cup {NoLeaf}]
         /\ r.sni \in Sni /\ r.now \in Nat /\ r.leaf \in Leaf \cup {NoLeaf} /\ r # HsIdle
BY DEF HsRec, HsIdle, HsSteps

\* The steps of a handshake keep its types when they replace its record by another one.
LEMMA HandshakeTypes ==
  ASSUME IssuerTyped, UNCHANGED <<clock, ca, leafDisk>>, NEW h \in Handshake,
         NEW r \in HsRec, r = HsIdle \/ r.now \in 0..clock,
         hs' = [hs EXCEPT ![h] = r],
         leafCache' \in [DOMAIN leafCache' -> CacheRec], IsFiniteSet(DOMAIN leafCache'),
         DOMAIN leafCache' \subseteq Sni, Cardinality(DOMAIN leafCache') <= CacheMax,
         \A s \in DOMAIN leafCache' : leafCache'[s].used \in 0..clock
  PROVE  IssuerTyped'
<1>1. hs' \in [Handshake -> HsRec]
  BY DEF IssuerTyped
<1>2. \A s \in DOMAIN leafCache' : leafCache'[s].leaf \in Leaf
  BY DEF CacheRec
<1>3. ASSUME NEW g \in Handshake
      PROVE  \/ hs'[g] = HsIdle
             \/ hs'[g].sni \in Sni /\ hs'[g].now \in 0..clock /\ hs'[g].leaf \in Leaf \cup {NoLeaf}
  <2>1. CASE g = h
    BY <2>1 DEF IssuerTyped, HsRec
  <2>2. CASE g # h
    BY <2>2 DEF IssuerTyped, IssuerTypeOK
  <2>3. QED
    BY <2>1, <2>2
<1>4. IssuerTypeOK'
  BY <1>2, <1>3 DEF IssuerTyped, IssuerTypeOK
<1>5. QED
  BY <1>1, <1>4 DEF IssuerTyped

\* When a handshake's step leaves the cache alone, or the disk, so do the lemmas.
LEMMA CacheStays ==
  ASSUME IssuerTyped, UNCHANGED leafCache
  PROVE  /\ leafCache' \in [DOMAIN leafCache' -> CacheRec] /\ IsFiniteSet(DOMAIN leafCache')
         /\ DOMAIN leafCache' \subseteq Sni /\ Cardinality(DOMAIN leafCache') <= CacheMax
         /\ \A s \in DOMAIN leafCache' : leafCache'[s].used \in 0..clock
BY DEF IssuerTyped, IssuerTypeOK

\* certFor
LEMMA CertForKeeps ==
  ASSUME LeafInv, NEW h \in Handshake, NEW s \in Sni, CertFor(h, s)
  PROVE  LeafInv'
<1>1. clock \in Nat /\ clock \in 0..clock
  BY IssuerAssumption DEF LeafInv, IssuerTyped, IssuerTypeOK
<1>2. CASE s \in DOMAIN leafCache /\ clock < leafCache[s].leaf.exp
  <2> DEFINE r == [pc |-> "served", sni |-> s, now |-> clock, leaf |-> leafCache[s].leaf]
  <2>1. leafCache' = [leafCache EXCEPT ![s].used = clock] /\ hs' = [hs EXCEPT ![h] = r]
        /\ UNCHANGED <<clock, ca, leafDisk>>
    BY <1>2 DEF CertFor
  <2>2. leafCache[s].leaf \in Leaf /\ leafCache[s] \in CacheRec
    BY <1>2 DEF LeafInv, IssuerTyped, CacheRec
  <2>3. r \in HsRec
    BY <1>1, <2>2 DEF HsRec, HsSteps
  <2>4. /\ leafCache' \in [DOMAIN leafCache -> CacheRec] /\ DOMAIN leafCache' = DOMAIN leafCache
        /\ \A t \in DOMAIN leafCache : leafCache'[t].leaf = leafCache[t].leaf
                                       /\ leafCache'[t].used \in 0..clock
    <3>1. leafCache \in [DOMAIN leafCache -> CacheRec]
      BY DEF LeafInv, IssuerTyped
    <3>2. [leafCache[s] EXCEPT !.used = clock] \in CacheRec
      BY <1>1, <2>2 DEF CacheRec
    <3>3. leafCache' = [leafCache EXCEPT ![s] = [leafCache[s] EXCEPT !.used = clock]]
      BY <2>1, <3>1
    <3>4. \A t \in DOMAIN leafCache : leafCache[t].used \in 0..clock
      BY DEF LeafInv, IssuerTyped, IssuerTypeOK
    <3>5. QED
      BY <1>1, <1>2, <2>2, <3>1, <3>2, <3>3, <3>4 DEF CacheRec
  <2>5. IssuerTyped'
    <3>1. r.now \in 0..clock
      BY <1>1
    <3>2. DOMAIN leafCache \subseteq Sni /\ Cardinality(DOMAIN leafCache) <= CacheMax
          /\ IsFiniteSet(DOMAIN leafCache)
      BY DEF LeafInv, IssuerTyped, IssuerTypeOK
    <3> HIDE DEF r
    <3>3. QED
      BY <2>1, <2>3, <2>4, <3>1, <3>2, HandshakeTypes DEF LeafInv
  <2>6. MemorySigned'
    BY <2>1, <2>4 DEF LeafInv, MemorySigned, Signed
  <2>7. HandshakesSigned'
    <3>1. Signed(r.leaf, r.sni, ca) /\ GoodAt(r.leaf, r.now)
      BY <1>2 DEF LeafInv, MemorySigned, GoodAt
    <3>2. \A g \in Handshake : hs'[g] = IF g = h THEN r ELSE hs[g]
      BY <2>1 DEF LeafInv, IssuerTyped
    <3> HIDE DEF r
    <3>3. QED
      BY <2>1, <3>1, <3>2 DEF LeafInv, HandshakesSigned, Signed, GoodAt
  <2>8. DiskSigned'
    BY <2>1 DEF LeafInv, DiskSigned, Signed
  <2>9. QED
    BY <2>5, <2>6, <2>7, <2>8 DEF LeafInv
<1>3. CASE ~(s \in DOMAIN leafCache /\ clock < leafCache[s].leaf.exp)
  <2> DEFINE r == [pc |-> "load", sni |-> s, now |-> clock, leaf |-> NoLeaf]
  <2>1. hs' = [hs EXCEPT ![h] = r] /\ UNCHANGED <<clock, ca, leafCache, leafDisk>>
    BY <1>3 DEF CertFor
  <2>2. r \in HsRec /\ r.now \in 0..clock /\ r.pc = "load"
    BY <1>1 DEF HsRec, HsSteps
  <2> HIDE DEF r
  <2>3. IssuerTyped'
    BY <2>1, <2>2, CacheStays, HandshakeTypes DEF LeafInv
  <2>4. \A g \in Handshake : hs'[g] = IF g = h THEN r ELSE hs[g]
    BY <2>1 DEF LeafInv, IssuerTyped
  <2>5. QED
    BY <2>1, <2>2, <2>3, <2>4
    DEF LeafInv, MemorySigned, DiskSigned, HandshakesSigned, Signed, GoodAt
<1>4. QED
  BY <1>2, <1>3

\* loadDisk and issue
LEMMA LoadDiskKeeps ==
  ASSUME LeafInv, NEW h \in Handshake, LoadDisk(h)
  PROVE  LeafInv'
<1> DEFINE file == leafDisk[ca][hs[h].sni]
           usable == file \notin {NoLeaf, TornFile} /\ hs[h].now < file.exp
           new == Issued(hs[h].sni, hs[h].now)
<1>1. UNCHANGED <<clock, ca, leafCache, leafDisk>> /\ hs[h].pc = "load"
  BY DEF LoadDisk
<1>2. /\ hs[h] \in [pc : HsSteps, sni : Sni, now : Nat, leaf : Leaf \cup {NoLeaf}]
      /\ hs[h].sni \in Sni /\ hs[h].now \in Nat /\ hs[h] # HsIdle
  BY <1>1, HandshakeKinds DEF LeafInv, IssuerTyped, HsSteps
<1>3. hs[h].now \in 0..clock /\ ca \in CA
  BY <1>2 DEF LeafInv, IssuerTyped, IssuerTypeOK
<1>4. ASSUME usable PROVE Signed(file, hs[h].sni, ca) /\ GoodAt(file, hs[h].now)
  BY <1>2, <1>3, <1>4 DEF LeafInv, DiskSigned, GoodAt
<1>5. Signed(new, hs[h].sni, ca) /\ GoodAt(new, hs[h].now)
  <2>1. CAEnd[ca] \in Nat /\ LeafTTL \in Nat \ {0}
    BY <1>3, IssuerAssumption
  <2>2. hs[h].now + LeafTTL \in Nat /\ hs[h].now < hs[h].now + LeafTTL
    BY <1>2, <2>1
  <2>3. new.exp \in Nat /\ new.exp <= CAEnd[ca] /\ (hs[h].now < new.exp \/ CAEnd[ca] <= hs[h].now)
    BY <1>2, <2>1, <2>2 DEF Issued
  <2>4. new.sni = hs[h].sni /\ new.ca = ca /\ new \in Leaf
    BY <1>2, <1>3, <2>1, <2>2 DEF Issued, Leaf
  <2>5. QED
    BY <2>3, <2>4 DEF Signed, GoodAt
<1>6. PICK r \in HsRec :
        /\ hs' = [hs EXCEPT ![h] = r]
        /\ r = HsIdle \/ /\ r.now = hs[h].now
                         /\ Signed(r.leaf, r.sni, ca) /\ GoodAt(r.leaf, r.now)
  <2>1. hs \in [Handshake -> HsRec]
    BY DEF LeafInv, IssuerTyped
  <2>2. CASE usable
    <3> DEFINE r == [hs[h] EXCEPT !.pc = "store", !.leaf = file]
    <3>1. hs' = [hs EXCEPT ![h].pc = "store", ![h].leaf = file]
      BY <2>2 DEF LoadDisk, DiskDir
    <3>2. hs' = [hs EXCEPT ![h] = r]
      BY <2>1, <3>1, <1>2
    <3>3. r \in HsRec /\ r.now = hs[h].now /\ r.sni = hs[h].sni /\ r.leaf = file
      BY <1>2, <1>4, <2>2 DEF HsRec, HsSteps, Signed
    <3>4. QED
      BY <1>4, <2>2, <3>2, <3>3
  <2>3. CASE ~usable /\ hs' = [hs EXCEPT ![h] = HsIdle]
    BY <2>3 DEF HsRec
  <2>4. CASE hs' = [hs EXCEPT ![h].pc = "storeNew", ![h].leaf = new]
    <3> DEFINE r == [hs[h] EXCEPT !.pc = "storeNew", !.leaf = new]
    <3> HIDE DEF new
    <3>1. hs' = [hs EXCEPT ![h] = r]
      BY <2>1, <2>4, <1>2
    <3>2. r \in HsRec /\ r.now = hs[h].now /\ r.sni = hs[h].sni /\ r.leaf = new
      BY <1>2, <1>5 DEF HsRec, HsSteps, Signed
    <3>3. QED
      BY <1>5, <3>1, <3>2
  <2>5. QED
    BY <2>2, <2>3, <2>4 DEF LoadDisk, DiskDir
<1>7. r = HsIdle \/ r.now \in 0..clock
  BY <1>3, <1>6
<1>8. IssuerTyped'
  BY <1>1, <1>6, <1>7, CacheStays, HandshakeTypes DEF LeafInv
<1>9. \A g \in Handshake : hs'[g] = IF g = h THEN r ELSE hs[g]
  BY <1>6 DEF LeafInv, IssuerTyped
<1>10. HandshakesSigned'
  BY <1>1, <1>6, <1>9 DEF LeafInv, HandshakesSigned, Signed, GoodAt, HsIdle
<1>11. QED
  BY <1>1, <1>8, <1>10, SMTT(30) DEF LeafInv, MemorySigned, DiskSigned, Signed

\* store and evictLocked: what is kept is the cache with the new leaf, or that without
\* one name, and it fits.
LEMMA KeptFits ==
  ASSUME NEW cache, NEW D, IsFiniteSet(D), Cardinality(D) <= CacheMax, NEW s,
         DOMAIN cache = D \cup {s}, NEW kept \in LeavesKept(cache)
  PROVE  /\ DOMAIN kept \subseteq DOMAIN cache /\ \A t \in DOMAIN kept : kept[t] = cache[t]
         /\ kept \in [DOMAIN kept -> {cache[t] : t \in DOMAIN kept}] \/ kept = cache
         /\ IsFiniteSet(DOMAIN kept) /\ Cardinality(DOMAIN kept) <= CacheMax
<1>1. /\ IsFiniteSet(DOMAIN cache) /\ Cardinality(DOMAIN cache) \in Nat
      /\ Cardinality(D) \in Nat /\ Cardinality(DOMAIN cache) <= Cardinality(D) + 1
  <2>1. IsFiniteSet(D \cup {s})
        /\ Cardinality(D \cup {s}) = IF s \in D THEN Cardinality(D) ELSE Cardinality(D) + 1
    BY FS_AddElement
  <2>2. Cardinality(D) \in Nat
    BY FS_CardinalityType
  <2>3. QED
    BY <2>1, <2>2
<1>2. CASE Cardinality(DOMAIN cache) <= CacheMax
  BY <1>1, <1>2 DEF LeavesKept
<1>3. CASE ~(Cardinality(DOMAIN cache) <= CacheMax)
  <2>1. PICK old \in DOMAIN cache : kept = [t \in DOMAIN cache \ {old} |-> cache[t]]
    BY <1>3 DEF LeavesKept
  <2>2. DOMAIN kept = DOMAIN cache \ {old}
    BY <2>1
  <2>3. IsFiniteSet(DOMAIN kept) /\ Cardinality(DOMAIN kept) = Cardinality(DOMAIN cache) - 1
    BY <1>1, <2>2, FS_RemoveElement
  <2>4. Cardinality(DOMAIN kept) <= CacheMax
    BY <1>1, <2>3, IssuerAssumption
  <2>5. QED
    BY <2>1, <2>2, <2>3, <2>4
<1>4. QED
  BY <1>2, <1>3

LEMMA StoreKeeps ==
  ASSUME LeafInv, NEW h \in Handshake, Store(h)
  PROVE  LeafInv'
<1> DEFINE s == hs[h].sni
           D == DOMAIN leafCache
           cache == [t \in D \cup {s} |->
                      IF t = s THEN [leaf |-> hs[h].leaf, used |-> clock] ELSE leafCache[t]]
           r == [hs[h] EXCEPT !.pc = IF @ = "store" THEN "served" ELSE "save"]
<1>1. /\ hs[h].pc \in {"store", "storeNew"} /\ leafCache' \in LeavesKept(cache)
      /\ hs' = [hs EXCEPT ![h].pc = IF @ = "store" THEN "served" ELSE "save"]
      /\ UNCHANGED <<clock, ca, leafDisk>>
  BY DEF Store
<1>2. /\ hs[h] \in [pc : HsSteps, sni : Sni, now : Nat, leaf : Leaf \cup {NoLeaf}]
      /\ s \in Sni /\ hs[h].now \in Nat /\ hs[h] # HsIdle
  BY <1>1, HandshakeKinds DEF LeafInv, IssuerTyped, HsSteps
<1>3. hs[h].now \in 0..clock /\ clock \in Nat
  BY <1>2, IssuerAssumption DEF LeafInv, IssuerTyped, IssuerTypeOK
<1>4. Signed(hs[h].leaf, s, ca) /\ GoodAt(hs[h].leaf, hs[h].now)
  BY <1>1 DEF LeafInv, HandshakesSigned
<1>5. /\ r \in HsRec /\ r.now = hs[h].now /\ r.sni = s /\ r.leaf = hs[h].leaf
      /\ hs' = [hs EXCEPT ![h] = r]
  BY <1>1, <1>2 DEF HsRec, HsSteps, LeafInv, IssuerTyped
<1>6. \A t \in D \cup {s} : cache[t] \in CacheRec /\ Signed(cache[t].leaf, t, ca)
                           /\ cache[t].used \in 0..clock
  <2>1. ASSUME NEW t \in D
        PROVE  leafCache[t] \in CacheRec /\ Signed(leafCache[t].leaf, t, ca)
               /\ leafCache[t].used \in 0..clock
    BY DEF LeafInv, IssuerTyped, IssuerTypeOK, MemorySigned
  <2>2. [leaf |-> hs[h].leaf, used |-> clock] \in CacheRec
    BY <1>3, <1>4 DEF CacheRec, Signed
  <2>3. QED
    BY <1>3, <1>4, <2>1, <2>2
<1>7. DOMAIN cache = D \cup {s} /\ D \subseteq Sni /\ IsFiniteSet(D) /\ Cardinality(D) <= CacheMax
  BY DEF LeafInv, IssuerTyped, IssuerTypeOK
<1> HIDE DEF D, cache, r, s
<1>8. /\ DOMAIN leafCache' \subseteq DOMAIN cache
      /\ \A t \in DOMAIN leafCache' : leafCache'[t] = cache[t]
      /\ leafCache' \in [DOMAIN leafCache' -> {cache[t] : t \in DOMAIN leafCache'}]
           \/ leafCache' = cache
      /\ IsFiniteSet(DOMAIN leafCache') /\ Cardinality(DOMAIN leafCache') <= CacheMax
  BY <1>1, <1>7, KeptFits
<1>9. leafCache' \in [DOMAIN leafCache' -> CacheRec]
  <2>1. cache \in [D \cup {s} -> CacheRec]
    BY <1>6 DEF cache
  <2>2. QED
    BY <1>6, <1>7, <1>8, <2>1
<1>10. IssuerTyped'
  <2>1. DOMAIN leafCache' \subseteq Sni
    BY <1>2, <1>7, <1>8
  <2>2. \A t \in DOMAIN leafCache' : leafCache'[t].used \in 0..clock
    BY <1>6, <1>7, <1>8
  <2>3. r.now \in 0..clock
    BY <1>3, <1>5
  <2>4. QED
    BY <1>1, <1>5, <1>8, <1>9, <2>1, <2>2, <2>3, HandshakeTypes DEF LeafInv
<1>11. MemorySigned'
  BY <1>1, <1>6, <1>7, <1>8 DEF MemorySigned, Signed
<1>12. \A g \in Handshake : hs'[g] = IF g = h THEN r ELSE hs[g]
  BY <1>5 DEF LeafInv, IssuerTyped
<1>13. HandshakesSigned'
  BY <1>1, <1>4, <1>5, <1>12 DEF LeafInv, HandshakesSigned, Signed, GoodAt, s
<1>14. QED
  BY <1>1, <1>10, <1>11, <1>13 DEF LeafInv, DiskSigned, Signed

\* saveDisk: the new leaf goes to the directory of the CA in use, or its file is torn.
LEMMA SaveKeeps ==
  ASSUME LeafInv, NEW h \in Handshake, SaveBegins(h) \/ SaveEnds(h)
  PROVE  LeafInv'
<1>1. hs[h].pc \in {"save", "write"} /\ UNCHANGED <<clock, ca, leafCache>>
  BY DEF SaveBegins, SaveEnds
<1>2. /\ hs[h] \in [pc : HsSteps, sni : Sni, now : Nat, leaf : Leaf \cup {NoLeaf}]
      /\ hs[h].sni \in Sni /\ hs[h] # HsIdle
  BY <1>1, HandshakeKinds DEF LeafInv, IssuerTyped, HsSteps
<1>3. hs[h].now \in 0..clock /\ ca \in CA
  BY <1>2 DEF LeafInv, IssuerTyped, IssuerTypeOK
<1>4. Signed(hs[h].leaf, hs[h].sni, ca) /\ GoodAt(hs[h].leaf, hs[h].now)
  BY <1>1 DEF LeafInv, HandshakesSigned
<1>5. PICK pc \in {"write", "served"} : hs' = [hs EXCEPT ![h].pc = pc]
  BY DEF SaveBegins, SaveEnds
<1>6. PICK file \in {TornFile, hs[h].leaf} :
        leafDisk' \in {leafDisk, [leafDisk EXCEPT ![ca][hs[h].sni] = file]}
  BY DEF SaveBegins, SaveEnds, DiskDir
<1>7. leafDisk \in [CA -> [Sni -> Leaf \cup {TornFile, NoLeaf}]]
  BY DEF LeafInv, IssuerTyped, IssuerTypeOK
<1>8. file \in Leaf \cup {TornFile, NoLeaf}
  BY <1>4, <1>6 DEF Signed
<1>9. leafDisk' \in [CA -> [Sni -> Leaf \cup {TornFile, NoLeaf}]]
  <2>1. [leafDisk[ca] EXCEPT ![hs[h].sni] = file] \in [Sni -> Leaf \cup {TornFile, NoLeaf}]
    BY <1>3, <1>7, <1>8
  <2>2. QED
    BY <1>3, <1>6, <1>7, <2>1
<1>10. \A c \in CA, s \in Sni :
         leafDisk'[c][s] = leafDisk[c][s] \/ (c = ca /\ s = hs[h].sni /\ leafDisk'[c][s] = file)
  BY <1>2, <1>3, <1>6, <1>7
<1>11. DiskSigned'
  BY <1>1, <1>4, <1>6, <1>10 DEF LeafInv, DiskSigned, Signed
<1> DEFINE r == [hs[h] EXCEPT !.pc = pc]
<1>12. /\ r \in HsRec /\ r.now = hs[h].now /\ r.sni = hs[h].sni /\ r.leaf = hs[h].leaf
       /\ hs' = [hs EXCEPT ![h] = r]
  BY <1>2, <1>5 DEF HsRec, HsSteps, LeafInv, IssuerTyped
<1> HIDE DEF r
<1>13. \A g \in Handshake : hs'[g] = IF g = h THEN r ELSE hs[g]
  BY <1>12 DEF LeafInv, IssuerTyped
<1>14. HandshakesSigned'
  BY <1>1, <1>4, <1>12, <1>13 DEF LeafInv, HandshakesSigned, Signed, GoodAt
<1>15. IssuerTyped'
  <2>1. hs' \in [Handshake -> HsRec]
    BY <1>12 DEF LeafInv, IssuerTyped
  <2>2. ASSUME NEW g \in Handshake
        PROVE  \/ hs'[g] = HsIdle
               \/ hs'[g].sni \in Sni /\ hs'[g].now \in 0..clock /\ hs'[g].leaf \in Leaf \cup {NoLeaf}
    <3>1. CASE g = h
      BY <1>2, <1>3, <1>12, <1>13, <3>1
    <3>2. CASE g # h
      BY <1>13, <3>2 DEF LeafInv, IssuerTyped, IssuerTypeOK
    <3>3. QED
      BY <3>1, <3>2
  <2>3. IssuerTypeOK'
    BY <1>1, <1>9, <2>2 DEF LeafInv, IssuerTyped, IssuerTypeOK
  <2>4. QED
    BY <1>1, <2>1, <2>3 DEF LeafInv, IssuerTyped
<1>16. QED
  BY <1>1, <1>11, <1>14, <1>15 DEF LeafInv, MemorySigned, Signed

LEMMA IssuerInitKeeps == IssuerInit => LeafInv
<1> SUFFICES ASSUME IssuerInit PROVE LeafInv
  OBVIOUS
<1>1. DOMAIN leafCache = {} /\ IsFiniteSet({}) /\ Cardinality({}) = 0
  BY FS_EmptySet DEF IssuerInit
<1>2. leafCache \in [DOMAIN leafCache -> CacheRec]
  BY DEF IssuerInit
<1>3. hs \in [Handshake -> HsRec]
  BY DEF IssuerInit, HsRec
<1>4. IssuerTyped
  BY <1>1, <1>2, <1>3, IssuerAssumption DEF IssuerInit, IssuerTyped, IssuerTypeOK
<1>5. QED
  BY <1>1, <1>4 DEF IssuerInit, LeafInv, MemorySigned, DiskSigned, HandshakesSigned, HsIdle

\* The next process has an empty memory; the disk is as the last one left it, and it
\* reads the directory of its own CA.
LEMMA IssuerRestartKeeps ==
  ASSUME LeafInv, NEW c \in CA, IssuerRestart(c)
  PROVE  LeafInv'
<1>1. DOMAIN leafCache' = {} /\ IsFiniteSet({}) /\ Cardinality({}) = 0
  BY FS_EmptySet DEF IssuerRestart
<1>2. leafCache' \in [DOMAIN leafCache' -> CacheRec]
  BY DEF IssuerRestart
<1>3. hs' \in [Handshake -> HsRec]
  BY DEF IssuerRestart, HsRec
<1>4. IssuerTyped'
  BY <1>1, <1>2, <1>3, IssuerAssumption DEF LeafInv, IssuerRestart, IssuerTyped, IssuerTypeOK
<1>5. QED
  BY <1>1, <1>4
  DEF LeafInv, IssuerRestart, MemorySigned, DiskSigned, HandshakesSigned, HsIdle, Signed

LEMMA IssuerTickKeeps ==
  ASSUME LeafInv, IssuerTick
  PROVE  LeafInv'
<1>1. clock' = clock + 1 /\ clock' \in 0..ClockMax /\ clock \in Nat
      /\ UNCHANGED <<ca, leafCache, leafDisk, hs>>
  BY IssuerAssumption DEF LeafInv, IssuerTyped, IssuerTypeOK, IssuerTick
<1>2. 0..clock \subseteq 0..clock'
  BY <1>1
<1>3. IssuerTyped'
  BY <1>1, <1>2 DEF LeafInv, IssuerTyped, IssuerTypeOK
<1>4. QED
  BY <1>1, <1>3 DEF LeafInv, MemorySigned, DiskSigned, HandshakesSigned, Signed, GoodAt

LEMMA IssuerNextKeeps ==
  ASSUME LeafInv, [IssuerNext]_issuerVars
  PROVE  LeafInv'
<1>1. CASE UNCHANGED issuerVars
  BY <1>1 DEF issuerVars, LeafInv, IssuerTyped, IssuerTypeOK, MemorySigned, DiskSigned,
              HandshakesSigned, Signed, GoodAt
<1>2. QED
  BY <1>1, CertForKeeps, LoadDiskKeeps, StoreKeeps, SaveKeeps, IssuerRestartKeeps,
     IssuerTickKeeps DEF IssuerNext

\* The issuer's cache keeps within cache_max, whatever handshakes store into it side by
\* side, and its other variables have the values that the code gives them.
THEOREM IssuerTypes == IssuerSpec => []IssuerTypeOK
<1>1. LeafInv => IssuerTypeOK
  BY DEF LeafInv, IssuerTyped
<1>2. LeafInv /\ [IssuerNext]_issuerVars => LeafInv'
  BY IssuerNextKeeps
<1>3. QED
  BY <1>1, <1>2, IssuerInitKeeps, PTL DEF IssuerSpec

\* certFor never serves a leaf of another name, of another CA than the one in use, or
\* one that had expired when the handshake began although its CA had not: every copy in
\* memory, on the disk and in a handshake is signed for the name and the CA under which
\* it is kept, and a restart with another CA forgets the memory and changes the directory.
THEOREM LeavesServable == IssuerSpec => []LeafServable
<1>1. LeafInv => LeafServable
  BY DEF LeafInv, HandshakesSigned, LeafServable, Signed, GoodAt
<1>2. LeafInv /\ [IssuerNext]_issuerVars => LeafInv'
  BY IssuerNextKeeps
<1>3. QED
  BY <1>1, <1>2, IssuerInitKeeps, PTL DEF IssuerSpec
=============================================================================
