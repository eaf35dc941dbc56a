----------------------------- MODULE PolicyFiles -----------------------------
(***************************************************************************)
(* The policy directory, its editor in the admin server, policy.Load, which  *)
(* reads the files one after another and builds the ruleset, and Match,      *)
(* which decides a request by it.                                            *)
(*                                                                         *)
(* A file is a document: its rules in order, and perhaps a default.  A rule  *)
(* is its name, its priority, the requests that its domain, path and method  *)
(* match, and whether it compiles.  Truncated is what is read of a file that *)
(* is being written: a document without rules or default.                    *)
(***************************************************************************)
EXTENDS Integers, Sequences, FiniteSets

CONSTANTS FileCount,    \* the files of the directory, in the order of their names
          PolicyDocs,   \* the documents that are put
          RequestKind,  \* what the rules tell requests apart by
          SafeDefault,  \* the default when no document has one
          NoDefault     \* a document without a default

Files == 1..FileCount
Truncated == [rules |-> <<>>, def |-> NoDefault]

PolicyRule == [name : STRING, prio : Int, reqs : SUBSET RequestKind, ok : BOOLEAN]

ASSUME PolicyAssumption ==
  FileCount \in Nat /\ \A doc \in PolicyDocs : doc.rules \in Seq(PolicyRule)

VARIABLES policyDir,  \* the document in each file
          policyPut,  \* the file that an editor is writing
          policyLoad, \* what Load has read
          ruleset,    \* the ruleset that the engine serves
          ruleDocs    \* ghost: the documents it was built from, as they were read

policyVars == <<policyDir, policyPut, policyLoad, ruleset, ruleDocs>>

NoPut == [pc |-> "idle"]
NoLoad == [pc |-> "idle"]

PolicyTypeOK ==
  /\ policyDir \in [Files -> PolicyDocs \cup {Truncated}]
  /\ policyPut \in {NoPut} \cup [pc : {"write"}, file : Files, doc : PolicyDocs]
  /\ \/ policyLoad = NoLoad
     \/ /\ policyLoad \in [pc : {"read"}, docs : Seq(PolicyDocs \cup {Truncated})]
        /\ Len(policyLoad.docs) <= FileCount
  /\ ruleDocs \in Seq(PolicyDocs \cup {Truncated})

-----------------------------------------------------------------------------
\* ValidateBytes: every rule of the document compiles.
Compiles(doc) == \A k \in DOMAIN doc.rules : doc.rules[k].ok

\* Load appends the rules of the files; a name that is there already is an error, in
\* this file or in another.
AllRules(docs) ==
  LET all[k \in 0..Len(docs)] == IF k = 0 THEN <<>> ELSE all[k - 1] \o docs[k].rules
  IN  all[Len(docs)]
NamesUnique(rules) == \A i, j \in DOMAIN rules : rules[i].name = rules[j].name => i = j

\* the last file that has a default gives it
DefaultOf(docs) ==
  LET given == {k \in DOMAIN docs : docs[k].def # NoDefault}
  IN  IF given = {} THEN SafeDefault ELSE docs[CHOOSE k \in given : \A j \in given : j <= k].def

\* mutant: rules of one priority are not kept in the order of the files
ByPriorityUnstable(rules) ==
  LET before(i, j) == rules[i].prio < rules[j].prio \/ (rules[i].prio = rules[j].prio /\ i > j)
      place(i) == Cardinality({j \in DOMAIN rules : before(j, i)}) + 1
  IN  [p \in DOMAIN rules |-> rules[CHOOSE i \in DOMAIN rules : place(i) = p]]

\* sort.SliceStable by priority
ByPriority(rules) ==
  LET before(i, j) == rules[i].prio < rules[j].prio \/ (rules[i].prio = rules[j].prio /\ i < j)
      place(i) == Cardinality({j \in DOMAIN rules : before(j, i)}) + 1
  IN  [p \in DOMAIN rules |-> rules[CHOOSE i \in DOMAIN rules : place(i) = p]]

Ruleset(docs) == [rules |-> ByPriority(AllRules(docs)), def |-> DefaultOf(docs)]

\* Match: the first rule of the ruleset that matches, else the default
Match(set, request) ==
  LET matching == {k \in DOMAIN set.rules : request \in set.rules[k].reqs}
  IN  IF matching = {} THEN set.def
      ELSE set.rules[CHOOSE k \in matching : \A j \in matching : k <= j].name

-----------------------------------------------------------------------------
PolicyInit ==
  /\ policyDir \in {dir \in [Files -> PolicyDocs] :
                      (\A f \in Files : Compiles(dir[f])) /\ NamesUnique(AllRules(dir))}
  /\ policyPut = NoPut /\ policyLoad = NoLoad
  /\ ruleset = Ruleset(policyDir) /\ ruleDocs = policyDir

\* handlePolicyPut: the document is validated by itself, the file is truncated,
PolicyPutStart(f, doc) ==
  /\ policyPut = NoPut
  /\ Compiles(doc)
  /\ policyDir' = [policyDir EXCEPT ![f] = Truncated]
  /\ policyPut' = [pc |-> "write", file |-> f, doc |-> doc]
  /\ UNCHANGED <<policyLoad, ruleset, ruleDocs>>

\* and written.
PolicyPutEnd ==
  /\ policyPut.pc = "write"
  /\ policyDir' = [policyDir EXCEPT ![policyPut.file] = policyPut.doc]
  /\ policyPut' = NoPut
  /\ UNCHANGED <<policyLoad, ruleset, ruleDocs>>

\* someone edits the directory by hand, with documents that nobody validates
PolicyHandEdit(f, doc) ==
  /\ policyPut = NoPut
  /\ policyDir' = [policyDir EXCEPT ![f] = doc]
  /\ UNCHANGED <<policyPut, policyLoad, ruleset, ruleDocs>>

\* reload: Load reads the files in turn,
LoadBegins ==
  /\ policyLoad = NoLoad
  /\ policyLoad' = [pc |-> "read", docs |-> <<>>]
  /\ UNCHANGED <<policyDir, policyPut, ruleset, ruleDocs>>

\* and gives up at the first rule that does not compile or has a name again;
LoadReads ==
  LET docs == Append(policyLoad.docs, policyDir[Len(policyLoad.docs) + 1])
  IN  /\ policyLoad.pc = "read" /\ Len(policyLoad.docs) < FileCount
      /\ policyLoad' = IF Compiles(docs[Len(docs)]) /\ NamesUnique(AllRules(docs))
                       THEN [policyLoad EXCEPT !.docs = docs] ELSE NoLoad
      /\ UNCHANGED <<policyDir, policyPut, ruleset, ruleDocs>>

\* then the engine serves what it built.
LoadServes ==
  /\ policyLoad.pc = "read" /\ Len(policyLoad.docs) = FileCount
  /\ ruleset' = Ruleset(policyLoad.docs) /\ ruleDocs' = policyLoad.docs
  /\ policyLoad' = NoLoad
  /\ UNCHANGED <<policyDir, policyPut>>

PolicyNext ==
  \/ \E f \in Files, doc \in PolicyDocs : PolicyPutStart(f, doc) \/ PolicyHandEdit(f, doc)
  \/ PolicyPutEnd
  \/ LoadBegins \/ LoadReads \/ LoadServes

PolicySpec == PolicyInit /\ [][PolicyNext]_policyVars

-----------------------------------------------------------------------------
\* A rule's place in its directory: priority, file, position in the file.
Placed == UNION {{<<f, k>> : k \in DOMAIN ruleDocs[f].rules} : f \in DOMAIN ruleDocs}
RuleAt(p) == ruleDocs[p[1]].rules[p[2]]
Precedes(p, q) ==
  \/ RuleAt(p).prio < RuleAt(q).prio
  \/ RuleAt(p).prio = RuleAt(q).prio /\ (p[1] < q[1] \/ (p[1] = q[1] /\ p[2] < q[2]))

\* Whatever was edited while the files were read, every rule that is served compiles and
\* has its name to itself, and the engine decides a request by the rule that comes first
\* by priority, file and position among all the rules read that match it, and by a
\* default only when none does.
MatchIsFirst ==
  /\ \A p \in Placed : RuleAt(p).ok
  /\ \A p, q \in Placed : RuleAt(p).name = RuleAt(q).name => p = q
  /\ \A request \in RequestKind :
       LET matching == {p \in Placed : request \in RuleAt(p).reqs}
           decided == Match(ruleset, request)
       IN  IF matching = {} THEN decided = DefaultOf(ruleDocs)
           ELSE \E p \in matching : /\ decided = RuleAt(p).name
                                    /\ \A q \in matching \ {p} : Precedes(p, q)

=============================================================================
