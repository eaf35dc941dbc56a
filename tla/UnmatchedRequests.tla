-------------------------- MODULE UnmatchedRequests --------------------------
(***************************************************************************)
(* The engine's aggregator: a bounded table of the unmatched requests, in    *)
(* the order in which they were last seen, from which the curation page and  *)
(* the log take the most frequent.                                           *)
(***************************************************************************)
EXTENDS Naturals, Sequences, FiniteSets

CONSTANTS UnmatchedKey,  \* domain and path
          AggregatorMax, \* how many the table holds
          HitMax         \* bound: requests in a behaviour

ASSUME AggregatorAssumption == AggregatorMax \in Nat \ {0} /\ HitMax \in Nat

VARIABLES unmatched,  \* the entries, most recently seen first
          hitLog      \* ghost: the unmatched requests in order

unmatchedVars == <<unmatched, hitLog>>

UnmatchedTypeOK ==
  /\ unmatched \in Seq([key : UnmatchedKey, count : 1..HitMax]) /\ Len(unmatched) <= AggregatorMax
  /\ hitLog \in Seq(UnmatchedKey)

UnmatchedInit == unmatched = <<>> /\ hitLog = <<>>

Tallied(key) == {k \in DOMAIN unmatched : unmatched[k].key = key}
WithoutEntry(k) == [j \in 1..Len(unmatched) - 1 |-> unmatched[IF j < k THEN j ELSE j + 1]]

\* mutant: an entry that is hit keeps its place
RecordInPlace(key) ==
  LET k == CHOOSE j \in Tallied(key) : TRUE
      kept == IF Len(unmatched) >= AggregatorMax THEN WithoutEntry(Len(unmatched)) ELSE unmatched
  IN  /\ Len(hitLog) < HitMax /\ hitLog' = Append(hitLog, key)
      /\ unmatched' = IF Tallied(key) # {} THEN [unmatched EXCEPT ![k].count = @ + 1]
                      ELSE <<[key |-> key, count |-> 1]>> \o kept

\* record: an entry that is hit moves to the front; a new one goes there, and when the
\* table is full the one at the back makes room.
RecordUnmatched(key) ==
  LET k == CHOOSE j \in Tallied(key) : TRUE
      kept == IF Len(unmatched) >= AggregatorMax THEN WithoutEntry(Len(unmatched)) ELSE unmatched
  IN  /\ Len(hitLog) < HitMax /\ hitLog' = Append(hitLog, key)
      /\ unmatched' = IF Tallied(key) # {}
                      THEN <<[unmatched[k] EXCEPT !.count = @ + 1]>> \o WithoutEntry(k)
                      ELSE <<[key |-> key, count |-> 1]>> \o kept

UnmatchedNext == \E key \in UnmatchedKey : RecordUnmatched(key)

UnmatchedSpec == UnmatchedInit /\ [][UnmatchedNext]_unmatchedVars

-----------------------------------------------------------------------------
\* key left the table after its request n: AggregatorMax other keys came before it came
\* again
Evicted(key, n) ==
  \E m \in n + 1..Len(hitLog) :
    /\ \A j \in n + 1..m : hitLog[j] # key
    /\ Cardinality({hitLog[j] : j \in n + 1..m}) >= AggregatorMax

\* The table holds exactly the AggregatorMax keys that were seen last, the last one
\* first, and the count of each is the number of its requests since it last came in: no
\* stream of other requests makes it lose a key that is still among them.
RecentKept ==
  LET last(key) == CHOOSE n \in DOMAIN hitLog :
                     hitLog[n] = key /\ \A m \in n + 1..Len(hitLog) : hitLog[m] # key
      keys == {hitLog[n] : n \in DOMAIN hitLog}
      newer(key) == {other \in keys : last(other) > last(key)}
      held == {key \in keys : Cardinality(newer(key)) < AggregatorMax}
      counted(key) == {n \in DOMAIN hitLog : hitLog[n] = key
                         /\ \A m \in n..last(key) : hitLog[m] = key => ~(m < last(key) /\ Evicted(key, m))}
  IN  /\ {unmatched[k].key : k \in DOMAIN unmatched} = held
      /\ \A k \in DOMAIN unmatched :
           /\ Cardinality(newer(unmatched[k].key)) = k - 1
           /\ unmatched[k].count = Cardinality(counted(unmatched[k].key))

=============================================================================
