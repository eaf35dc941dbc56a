------------------------------- MODULE Traffic -------------------------------
(***************************************************************************)
(* The request recorder (observability.Recorder) and who reads it: every     *)
(* answered request is logged into a ring of the last records under the      *)
(* logging mode of that moment; the admin UI shows the ring and follows it   *)
(* with an event stream, both under the mode of the moment they read; reload *)
(* changes the mode and the redaction in between.                            *)
(*                                                                         *)
(* A record is its number (ghost: the records in the order of Log), how much *)
(* of its path is left, and whether a debug scope names its domain and       *)
(* client.  The counters that only the metrics read are the total.           *)
(***************************************************************************)
EXTENDS Naturals, Sequences, FiniteSets, SequencesExt

CONSTANTS RingSize,     \* the length of the ring
          RecOptions,   \* the logging options that the configurations have
          NoRecord,     \* a slot that no record has been written to
          LogMax        \* bound: records in a behaviour

LogModes == {"off", "stats", "debug", "full", "redacted"}

ASSUME TrafficAssumption ==
  /\ RingSize \in Nat \ {0} /\ LogMax \in Nat
  /\ RecOptions \subseteq [mode : LogModes, redact : BOOLEAN]

VARIABLES ring,      \* the slots
          ringNext,  \* the slot of the next record
          ringFull,  \* the ring has wrapped
          total,     \* records logged
          recOpts,   \* mode and redact
          scopeLive, \* the debug scope has not expired
          shown,     \* the last answer to a reader, with the options it was read under
          stream,    \* an open event stream
          overwrote  \* ghost: numbers of records that the ring lost before the stream read them

trafficVars == <<ring, ringNext, ringFull, total, recOpts, scopeLive, shown, stream, overwrote>>

Paths == {"raw", "masked", "none"}
LogRecord == [n : 1..LogMax, path : Paths, scoped : BOOLEAN]
StreamClosed == [open |-> FALSE]

ASSUME NoRecordAssumption == NoRecord \notin LogRecord

TrafficTypeOK ==
  /\ ring \in [0..RingSize - 1 -> LogRecord \cup {NoRecord}]
  /\ ringNext \in 0..RingSize - 1 /\ ringFull \in BOOLEAN
  /\ total \in 0..LogMax
  /\ recOpts \in RecOptions /\ scopeLive \in BOOLEAN
  /\ shown.recs \in Seq(LogRecord) /\ shown.opts \in RecOptions /\ shown.live \in BOOLEAN
  /\ stream = StreamClosed
     \/ /\ stream.start \in 0..LogMax /\ stream.seq \in 0..LogMax
        /\ stream.got \in Seq(1..LogMax)
  /\ overwrote \subseteq 1..LogMax

TrafficInit ==
  /\ ring = [i \in 0..RingSize - 1 |-> NoRecord]
  /\ ringNext = 0 /\ ringFull = FALSE /\ total = 0
  /\ recOpts \in RecOptions /\ scopeLive = TRUE
  /\ shown = [recs |-> <<>>, opts |-> recOpts, live |-> TRUE]
  /\ stream = StreamClosed
  /\ overwrote = {}

-----------------------------------------------------------------------------
\* RedactURL keeps the path and masks the values of the query.
Masked(rec) == [rec EXCEPT !.path = IF @ = "raw" THEN "masked" ELSE @]

applyPolicy(rec) ==
  CASE recOpts.mode \in {"off", "stats"} -> [rec EXCEPT !.path = "none"]
    [] recOpts.mode = "full" -> rec
    [] recOpts.mode = "debug" -> IF scopeLive /\ rec.scoped THEN rec ELSE Masked(rec)
    [] recOpts.mode = "redacted" -> IF recOpts.redact THEN Masked(rec) ELSE rec

\* the records in the ring, oldest first
Buffered ==
  LET slots(from, to) == [k \in 1..(to - from) |-> ring[from + k - 1]]
  IN  IF ringFull THEN slots(ringNext, RingSize) \o slots(0, ringNext) ELSE slots(0, ringNext)

LastOf(s, count) == IF count < Len(s) THEN SubSeq(s, Len(s) - count + 1, Len(s)) ELSE s

\* mutant: the answers are read as they were stored
ShownAsStored(recs) == recs

\* A reader applies the policy once more, unless nothing asks for it.
ShownRecs(recs) ==
  IF recOpts.redact \/ recOpts.mode \in {"stats", "off"}
  THEN [k \in DOMAIN recs |-> applyPolicy(recs[k])]
  ELSE recs

-----------------------------------------------------------------------------
\* Log, under the recorder's mutex
LogRequest(scoped) ==
  /\ total < LogMax
  /\ LET rec == [n |-> total + 1, path |-> "raw", scoped |-> scoped]
         old == ring[ringNext]
     IN  /\ ring' = [ring EXCEPT ![ringNext] = applyPolicy(rec)]
         /\ overwrote' = IF stream.open /\ old # NoRecord /\ old.n > stream.seq
                         THEN overwrote \cup {old.n} ELSE overwrote
  /\ ringNext' = (ringNext + 1) % RingSize
  /\ ringFull' = (ringFull \/ ringNext' = 0)
  /\ total' = total + 1
  /\ UNCHANGED <<recOpts, scopeLive, shown, stream>>

\* SetOptions, at the end of a reload
SetOptions(opts) ==
  /\ recOpts' = opts /\ scopeLive' = TRUE
  /\ UNCHANGED <<ring, ringNext, ringFull, total, shown, stream, overwrote>>

ScopeExpires ==
  /\ scopeLive' = FALSE
  /\ UNCHANGED <<ring, ringNext, ringFull, total, recOpts, shown, stream, overwrote>>

Shows(recs) == shown' = [recs |-> ShownRecs(recs), opts |-> recOpts, live |-> scopeLive]

\* handleTraffic: Snapshot
Snapshot ==
  /\ Shows(Buffered)
  /\ UNCHANGED <<ring, ringNext, ringFull, total, recOpts, scopeLive, stream, overwrote>>

\* handleTrafficStream starts at Seq.
StreamStart ==
  /\ ~stream.open
  /\ stream' = [open |-> TRUE, start |-> total, seq |-> total, got |-> <<>>]
  /\ overwrote' = {}
  /\ UNCHANGED <<ring, ringNext, ringFull, total, recOpts, scopeLive, shown>>

\* mutant: the cursor is the number of records in the ring, which no longer grows
\* once the ring has wrapped
StreamTickByLength ==
  LET recs == LastOf(Buffered, Len(Buffered) - stream.seq)
  IN  /\ stream.open /\ stream.seq < Len(Buffered)
      /\ Shows(recs)
      /\ stream' = [stream EXCEPT !.seq = Len(Buffered), !.got = @ \o [k \in DOMAIN recs |-> recs[k].n]]
      /\ UNCHANGED <<ring, ringNext, ringFull, total, recOpts, scopeLive, overwrote>>

\* every second: SnapshotSince, and what it answers is sent
StreamTick ==
  LET recs == LastOf(Buffered, total - stream.seq)
  IN  /\ stream.open /\ stream.seq < total
      /\ Shows(recs)
      /\ stream' = [stream EXCEPT !.seq = total, !.got = @ \o [k \in DOMAIN recs |-> recs[k].n]]
      /\ UNCHANGED <<ring, ringNext, ringFull, total, recOpts, scopeLive, overwrote>>

\* The client leaves, or the admin server's write timeout cuts the answer.
StreamEnds ==
  /\ stream.open
  /\ stream' = StreamClosed /\ overwrote' = {}
  /\ UNCHANGED <<ring, ringNext, ringFull, total, recOpts, scopeLive, shown>>

TrafficNext ==
  \/ \E scoped \in BOOLEAN : LogRequest(scoped)
  \/ \E opts \in RecOptions : SetOptions(opts)
  \/ ScopeExpires
  \/ Snapshot
  \/ StreamStart \/ StreamTick \/ StreamEnds

TrafficSpec == TrafficInit /\ [][TrafficNext]_trafficVars

-----------------------------------------------------------------------------
\* However often the ring wraps and the stream lags behind it, a stream sends every
\* record logged since it was opened once and in order, but for those that the ring
\* overwrote before the stream's next turn.
StreamExact ==
  stream.open =>
    /\ \A j, k \in DOMAIN stream.got : j < k => stream.got[j] < stream.got[k]
    /\ {stream.got[k] : k \in DOMAIN stream.got}
         = {n \in stream.start + 1..stream.seq : n \notin overwrote}

\* No reader is shown more of a record than the options it is read under allow, also
\* of a record that was logged before a reload tightened them or while a debug scope
\* was live: no path in the off and stats modes, and with redaction on no query
\* values, except in full mode and for a live debug scope.
ViewsRedacted ==
  \A k \in DOMAIN shown.recs :
    LET rec == shown.recs[k]
        mode == shown.opts.mode
    IN  /\ mode \in {"off", "stats"} => rec.path = "none"
        /\ shown.opts.redact /\ rec.path = "raw" =>
             mode = "full" \/ (mode = "debug" /\ shown.live /\ rec.scoped)

=============================================================================
