-------------------------- MODULE MCManagedSources --------------------------
(* Two AdGuard sources that can list the same entry, so that their imports  *)
(* take it over from each other.  The first lists one entry or the other,   *)
(* with repeated lines: of two lines the loss of the entry it had is held   *)
(* back at 50 percent, of three it is not.                                  *)
EXTENDS ManagedSources, TLC

CONSTANTS s1, s2, e1, e2

List(ids, lines) == [ids |-> ids, lines |-> lines]

MCImportable ==
  (s1 :> {List({e1}, 2), List({e2}, 3)}) @@ (s2 :> {List({e2}, 1)})

\* The goroutines are interchangeable; sources and entries are not.
Symmetry == Permutations(Worker)
=============================================================================
