----------------------------- MODULE Passthrough -----------------------------
(***************************************************************************)
(* One connection of the routing listener: PeekClientHello reads the         *)
(* client's TLS records until it has the ClientHello, and returns the SNI    *)
(* and a connection that replays what it has read; route then gives that     *)
(* connection to the TLS server, or Splice copies it to the origin.          *)
(*                                                                         *)
(* The client's stream is a sequence of records.  Its bytes are units, which *)
(* the record and the place in it identify: two of the header, then the      *)
(* body's.  The handshake units together are the ClientHello, whose length   *)
(* the first of them tells.                                                  *)
(***************************************************************************)
EXTENDS Naturals, Sequences, SequencesExt

CONSTANTS ClientStreams, \* what a client may send, with the length of its hello
          MaxRecords,    \* maxRecords
          MaxHandshake   \* maxHandshake, in units

HeaderLen == 2
RecordKind == {"handshake", "other"}

ASSUME PassthroughAssumption ==
  /\ MaxRecords \in Nat \ {0} /\ MaxHandshake \in Nat \ {0}
  /\ \A c \in ClientStreams : /\ c.recs \in Seq([kind : RecordKind, len : Nat])
                              /\ c.hello \in Nat \ {0} /\ c.pinned \in BOOLEAN

VARIABLES client,   \* the client's stream
          taken,    \* units that were read from the socket
          peek,     \* PeekClientHello: what it waits for and has
          route,    \* where the connection is
          replay,   \* the buffer of prefixConn
          got,      \* what the reader of prefixConn has got: TLS server or origin
          upEnd,    \* what ended the copy to the reader, who takes each for the end
          downEnd   \* the origin has ended its side of a splice

passVars == <<client, taken, peek, route, replay, got, upEnd, downEnd>>

Wire == FlattenSeq([k \in DOMAIN client.recs |->
                     [u \in 1..HeaderLen + client.recs[k].len |-> <<k, u>>]])

\* peek: readFull's buffer, every byte read, the handshake units, records, the error
Peeking == [pc : {"header", "body", "done"}, part : Seq(Nat \X Nat), raw : Seq(Nat \X Nat),
            hs : Nat, rec : Nat, err : {"none", "read", "format"}, sni : BOOLEAN]

PassTypeOK ==
  /\ client \in ClientStreams /\ taken \in 0..Len(Wire)
  /\ peek \in Peeking
  /\ route \in {"peek", "tls", "dial", "splice", "closed"}
  /\ replay \in Seq(Nat \X Nat) /\ got \in Seq(Nat \X Nat)
  /\ upEnd \in {"no", "end", "broken"} /\ downEnd \in BOOLEAN

PassInit ==
  /\ client \in ClientStreams /\ taken = 0
  /\ peek = [pc |-> "header", part |-> <<>>, raw |-> <<>>, hs |-> 0, rec |-> 0,
             err |-> "none", sni |-> FALSE]
  /\ route = "peek" /\ replay = <<>> /\ got = <<>>
  /\ upEnd = "no" /\ downEnd = FALSE

-----------------------------------------------------------------------------
\* the record that is being read
Current == client.recs[peek.rec + 1]
Wanted == IF peek.pc = "header" THEN HeaderLen ELSE Current.len

\* parseSNI needs the whole message.
ParseSNI(n) == n >= client.hello

PeekReturns(raw, hs, err) ==
  /\ peek' = [peek EXCEPT !.pc = "done", !.part = <<>>, !.raw = raw, !.hs = hs, !.err = err,
                          !.sni = ParseSNI(hs)]
  /\ replay' = raw

\* readFull: some of what the client has sent
PeekReads ==
  /\ peek.pc # "done" /\ Len(peek.part) < Wanted /\ taken < Len(Wire)
  /\ \E n \in 1..Wanted - Len(peek.part) :
       /\ taken + n <= Len(Wire)
       /\ taken' = taken + n
       /\ peek' = [peek EXCEPT !.part = @ \o SubSeq(Wire, taken + 1, taken + n)]
  /\ UNCHANGED <<client, route, replay, got, upEnd, downEnd>>

\* The deadline passes or the client ends its stream in the middle: what readFull has read
\* is lost, except for the header of the body it was waiting for.
PeekFails ==
  /\ peek.pc # "done" /\ Len(peek.part) < Wanted
  /\ PeekReturns(peek.raw \o (IF peek.pc = "body"
                              THEN SubSeq(Wire, taken - Len(peek.part) - HeaderLen + 1,
                                          taken - Len(peek.part))
                              ELSE <<>>), peek.hs, "read")
  /\ UNCHANGED <<client, taken, route, got, upEnd, downEnd>>

\* A header: of something else, of an empty record, or of a body that is read next.
HeaderRead ==
  /\ peek.pc = "header" /\ Len(peek.part) = HeaderLen
  /\ \/ /\ Current.kind = "other"
        /\ PeekReturns(peek.raw \o peek.part, peek.hs,
                       IF peek.rec = 0 THEN "format" ELSE "none")
     \/ /\ Current.kind = "handshake" /\ Current.len = 0
        /\ PeekReturns(peek.raw \o peek.part, peek.hs, "format")
     \/ /\ Current.kind = "handshake" /\ Current.len > 0
        /\ peek' = [peek EXCEPT !.pc = "body", !.part = <<>>]
        /\ UNCHANGED replay
  /\ UNCHANGED <<client, taken, route, got, upEnd, downEnd>>

\* mutant: the header is not kept for replaying
BodyReadAlone ==
  LET hs == peek.hs + Current.len
  IN  /\ peek.pc = "body" /\ Len(peek.part) = Current.len
      /\ IF peek.rec + 1 = MaxRecords \/ hs >= client.hello \/ hs >= MaxHandshake
         THEN PeekReturns(peek.raw \o peek.part, hs, "none")
         ELSE /\ peek' = [peek EXCEPT !.pc = "header", !.part = <<>>, !.hs = hs,
                                      !.rec = @ + 1, !.raw = @ \o peek.part]
              /\ UNCHANGED replay
      /\ UNCHANGED <<client, taken, route, got, upEnd, downEnd>>

\* A body: the hello is complete, there are enough records, or the next one is read.
BodyRead ==
  LET hs == peek.hs + Current.len
      raw == peek.raw \o SubSeq(Wire, taken - Current.len - HeaderLen + 1, taken)
  IN  /\ peek.pc = "body" /\ Len(peek.part) = Current.len
      /\ IF peek.rec + 1 = MaxRecords \/ hs >= client.hello \/ hs >= MaxHandshake
         THEN PeekReturns(raw, hs, "none")
         ELSE /\ peek' = [peek EXCEPT !.pc = "header", !.part = <<>>, !.hs = hs,
                                      !.rec = @ + 1, !.raw = raw]
              /\ UNCHANGED replay
      /\ UNCHANGED <<client, taken, route, got, upEnd, downEnd>>

-----------------------------------------------------------------------------
\* route: without an error and with the SNI of a passthrough rule the connection is
\* spliced, else it goes to Accept, or is closed when the listener is.
RoutePeeked ==
  /\ route = "peek" /\ peek.pc = "done"
  /\ IF peek.err = "none" /\ peek.sni /\ client.pinned THEN route' = "dial"
     ELSE route' \in {"tls", "closed"}
  /\ UNCHANGED <<client, taken, peek, replay, got, upEnd, downEnd>>

\* Splice looks the origin up and connects to one of its addresses.
SpliceDials ==
  /\ route = "dial"
  /\ route' \in {"splice", "closed"}
  /\ UNCHANGED <<client, taken, peek, replay, got, upEnd, downEnd>>

\* prefixConn.Read, by the TLS server or the copy loop to the origin: the buffer first,
ReplayRead ==
  /\ route \in {"tls", "splice"} /\ upEnd = "no" /\ replay # <<>>
  /\ \E n \in 1..Len(replay) :
       /\ got' = got \o SubSeq(replay, 1, n)
       /\ replay' = SubSeq(replay, n + 1, Len(replay))
  /\ UNCHANGED <<client, taken, peek, route, upEnd, downEnd>>

\* then the connection.
ConnRead ==
  /\ route \in {"tls", "splice"} /\ upEnd = "no" /\ replay = <<>> /\ taken < Len(Wire)
  /\ \E n \in 1..Len(Wire) - taken :
       /\ got' = got \o SubSeq(Wire, taken + 1, taken + n)
       /\ taken' = taken + n
  /\ UNCHANGED <<client, peek, route, replay, upEnd, downEnd>>

\* The client has ended its stream: halfClose tells the origin.
ConnEnds ==
  /\ route \in {"tls", "splice"} /\ upEnd = "no" /\ replay = <<>> /\ taken = Len(Wire)
  /\ upEnd' = "end"
  /\ UNCHANGED <<client, taken, peek, route, replay, got, downEnd>>

\* The client's connection breaks, at any moment; halfClose tells the origin the same.
ConnBreaks ==
  /\ route = "splice" /\ upEnd = "no" /\ replay = <<>>
  /\ upEnd' = "broken"
  /\ UNCHANGED <<client, taken, peek, route, replay, got, downEnd>>

\* The origin ends its side; halfClose(client) does nothing, because prefixConn has no
\* CloseWrite, and the client does not see the end before both directions are done.
OriginEnds ==
  /\ route = "splice" /\ ~downEnd
  /\ downEnd' = TRUE
  /\ UNCHANGED <<client, taken, peek, route, replay, got, upEnd>>

\* Both copies are done (Splice waits for two), or writing to the origin fails after it
\* ended its side, or the TLS server is done.
ConnCloses ==
  /\ \/ route = "splice" /\ downEnd
     \/ route = "tls"
  /\ route' = "closed"
  /\ UNCHANGED <<client, taken, peek, replay, got, upEnd, downEnd>>

PassNext ==
  \/ PeekReads \/ PeekFails \/ HeaderRead \/ BodyRead
  \/ RoutePeeked \/ SpliceDials \/ ReplayRead \/ ConnRead \/ ConnEnds \/ ConnBreaks
  \/ OriginEnds \/ ConnCloses

PassSpec == PassInit /\ [][PassNext]_passVars

-----------------------------------------------------------------------------
\* the units of the handshake records that start the stream, as far as they are looked at
HelloUnits ==
  LET whole(n) == \A k \in 1..n : client.recs[k].kind = "handshake" /\ client.recs[k].len > 0
      n == CHOOSE n \in 0..Len(client.recs) :
             /\ n <= MaxRecords /\ whole(n)
             /\ n = Len(client.recs) \/ n = MaxRecords \/ ~whole(n + 1)
      sum[k \in 0..n] == IF k = 0 THEN 0 ELSE sum[k - 1] + client.recs[k].len
  IN  sum[n]

\* the stream without the units i + 1 .. j, all of the record that was being read
CutStream(i, j) ==
  IF \A k \in i + 1..j : Wire[k][1] = peek.rec + 1
  THEN SubSeq(Wire, 1, i) \o SubSeq(Wire, j + 1, Len(Wire)) ELSE <<>>

\* What PeekClientHello returns is exact. However the records and their bytes come in, a
\* peek without a read error has the reader get the client's stream from its first byte
\* and, once it is told of the end, all of it; after a read error one stretch is missing
\* at most, of the record that was being read. And a pinned domain whose ClientHello
\* starts the stream and fits the bounds is not terminated, unless reading it failed.
PeekExact ==
  /\ IF peek.err # "read" THEN IsPrefix(got, Wire) /\ (upEnd = "end" => got = Wire)
     ELSE \E i \in 0..Len(Wire) : \E j \in i..Len(Wire) : IsPrefix(got, CutStream(i, j))
  /\ route = "tls" /\ client.pinned /\ client.hello <= HelloUnits /\ client.hello <= MaxHandshake
       => peek.err = "read"

=============================================================================
