---------------------------- MODULE InitialCrypto ----------------------------
(***************************************************************************)
(* SNIExtractor: the CRYPTO frames of a QUIC client's first datagrams are    *)
(* collected and joined until the ClientHello is there.  The network may     *)
(* lose, repeat and reorder datagrams, and a client may repeat any stretch   *)
(* of its hello in new frames.                                               *)
(*                                                                         *)
(* A byte of the hello is its offset.  Decryption either works or not.       *)
(***************************************************************************)
EXTENDS Naturals, Sequences, SequencesExt

CONSTANTS HelloLen,   \* the length of the ClientHello
          Datagrams,  \* what may come: the frames of a datagram, or Undecryptable
          Undecryptable,
          FeedMax     \* datagrams until the extractor gives up

\* A CRYPTO frame; "skip" stands for PADDING and PING, "stop" for any other frame or one
\* that is cut off.
Crypto(off, len) == [kind |-> "crypto", off |-> off, len |-> len]
FrameSkip == [kind |-> "skip"]
FrameStop == [kind |-> "stop"]

\* The frames of a client: what they carry is a stretch of its hello.
Frame == {f \in {Crypto(off, len) : off, len \in 0..HelloLen} : f.off + f.len <= HelloLen}
         \cup {FrameSkip, FrameStop}

ASSUME InitialAssumption ==
  /\ HelloLen \in Nat \ {0} /\ FeedMax \in Nat \ {0}
  /\ \A datagram \in Datagrams \ {Undecryptable} : datagram \in Seq(Frame)

VARIABLES chunks,    \* e.chunks
          packets,   \* e.packets
          feedResult \* the last answer of Feed: SNI found, done

initialVars == <<chunks, packets, feedResult>>

Chunk == [off : Nat, data : Seq(Nat)]

InitialTypeOK ==
  /\ chunks \in Seq(Chunk) /\ packets \in 0..FeedMax
  /\ feedResult \in [sni : BOOLEAN, done : BOOLEAN]

InitialInit == chunks = <<>> /\ packets = 0 /\ feedResult = [sni |-> FALSE, done |-> FALSE]

\* cryptoFrames: the CRYPTO frames up to the first frame that it does not handle.
CryptoFrames(frames) ==
  LET chunk(f) == [off |-> f.off, data |-> [i \in 1..f.len |-> f.off + i - 1]]
      taken(k) == frames[k].kind = "crypto" /\ \A j \in 1..k : frames[j].kind # "stop"
      read[k \in 0..Len(frames)] ==
        IF k = 0 THEN <<>>
        ELSE IF taken(k) THEN Append(read[k - 1], chunk(frames[k])) ELSE read[k - 1]
  IN  read[Len(frames)]

\* the insertion sort by offset, which keeps the order of equal ones
InsertByOffset(sorted, c) ==
  LET p == SelectInSeq(sorted, LAMBDA d : d.off > c.off)
  IN  IF p = 0 THEN Append(sorted, c) ELSE InsertAt(sorted, p, c)
SortedChunks(cs) ==
  LET sorted[k \in 0..Len(cs)] ==
        IF k = 0 THEN <<>> ELSE InsertByOffset(sorted[k - 1], cs[k])
  IN  sorted[Len(cs)]

\* mutant: a chunk that begins before the end of what is there is left out
JoinStepNoOverlap(out, c) == IF c.off # Len(out) THEN out ELSE out \o c.data

\* One chunk of the loop in joinCryptoChunks. A gap stays one for the chunks behind it,
\* whose offsets are not smaller, so that the loop's break needs no flag.
JoinStep(out, c) ==
  LET next == Len(out)
      end == c.off + Len(c.data)
  IN  IF c.off > next \/ end <= next THEN out
      ELSE out \o SubSeq(c.data, next - c.off + 1, Len(c.data))

joinCryptoChunks(cs) ==
  LET sorted == SortedChunks(cs)
      out[k \in 0..Len(sorted)] == IF k = 0 THEN <<>> ELSE JoinStep(out[k - 1], sorted[k])
  IN  out[Len(sorted)]

\* ParseSNI finds the name in a complete hello only.
HelloComplete(joined) == Len(joined) >= HelloLen

\* Feed, one datagram; the relay does not call it again once it is done.
Feed(datagram) ==
  LET all == IF datagram = Undecryptable THEN chunks ELSE chunks \o CryptoFrames(datagram)
      found == datagram # Undecryptable /\ HelloComplete(joinCryptoChunks(all))
  IN  /\ ~feedResult.done
      /\ packets' = packets + 1
      /\ chunks' = all
      /\ feedResult' = [sni |-> found, done |-> found \/ packets + 1 >= FeedMax]

InitialNext == \E datagram \in Datagrams : Feed(datagram)

InitialSpec == InitialInit /\ [][InitialNext]_initialVars

-----------------------------------------------------------------------------
\* Whatever came, in which order, and however often, the join is exactly the stretch of
\* the hello from its first byte to the first that is missing; and the SNI is found with
\* the datagram that completes the hello, neither before nor later.
JoinExact ==
  LET covered == UNION {{chunks[k].data[i] : i \in DOMAIN chunks[k].data} : k \in DOMAIN chunks}
      first == CHOOSE n \in 0..HelloLen :
                 (n \notin covered \/ n = HelloLen) /\ \A m \in 0..n - 1 : m \in covered
  IN  /\ joinCryptoChunks(chunks) = [i \in 1..first |-> i - 1]
      /\ feedResult.sni <=> first = HelloLen

=============================================================================
