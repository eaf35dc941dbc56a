---------------------------- MODULE MCIntercept ----------------------------
(* Configurations for model checking, all about one kind of domain.         *)
EXTENDS Intercept, TLC

Rule(a, n) == [action |-> a, catalog |-> n, by |-> "rule"]
Default    == [action |-> "stub", catalog |-> Safe, by |-> "default"]
Observe    == [action |-> "forward-asis", catalog |-> NoName, by |-> "unknown-profile"]

Conf(m, cat, decs, sp, unk) ==
  [mode |-> m, catalog |-> cat, rules |-> [d \in Domain |-> decs],
   splice |-> sp, unknown |-> unk]

\* Every action, the unknown profile, both modes, a stub that one of two catalogs
\* lacks, and one file that does not validate (a rule names an entry it lacks).
FilesAll ==
  {Conf("full", {Safe}, {Rule("forward-mimic", NoName), Rule("passthrough", NoName), Default},
        Domain, {Observe}),
   Conf("stub-only", {Safe, "ad"}, {Rule("forward-scrubbed", NoName), Rule("stub", "ad")}, {}, {}),
   Conf("full", {Safe}, {Rule("stub", "ad")}, {}, {})}

\* Forwarding only, with the catalog changing under it.
FilesForward == {Conf("full", c, {Rule("forward-asis", NoName)}, {}, {}) : c \in {{Safe}, {}}}

\* A passthrough rule under stub-only mode.
FilesSplice == {Conf("stub-only", {Safe}, {Rule("passthrough", NoName)}, Domain, {})}

Symmetry == Permutations(Req) \cup Permutations(Domain)
=============================================================================
