----------------------------- MODULE QuicRelay -----------------------------
(***************************************************************************)
(* The QUIC passthrough relay of internal/quic/quic.go: the table of flows *)
(* between the goroutine of Serve, which handles one datagram after the    *)
(* other, a pump per upstream socket, the reaper and Close.                *)
(*                                                                         *)
(* A step is what a goroutine does under PassthroughRelay.mu, or one       *)
(* system call.  A datagram is its number among those of its client.       *)
(* Whether the SNI can be read from the datagrams fed so far, whether the  *)
(* name resolves and when a read from the origin fails (its deadline, an   *)
(* ICMP error, a closed socket) is left open; time is whether a flow has   *)
(* been idle for longer than flowIdleTimeout.                              *)
(***************************************************************************)
EXTENDS Naturals, Sequences

CONSTANTS Client,       \* client addresses, the keys of the table
          Sock,         \* the upstream sockets the process ever opens
          None,         \* nil
          GiveUp,       \* 8: the datagrams after which SNIExtractor gives up
          MaxDatagrams  \* bound on the datagrams of a client

ASSUME GiveUpAssumption == GiveUp \in Nat \ {0}
ASSUME MaxDatagramsAssumption == MaxDatagrams \in Nat

VARIABLES flows,   \* p.flows
          serve,   \* the goroutine of Serve
          sock,    \* each upstream socket
          pump,    \* the goroutine that reads from it
          dialer,  \* the client it was opened for
          sent,    \* what has been written to it
          count,   \* the datagrams read from each client
          reaper,  \* whether the goroutine of reap runs
          closing, \* how far Close has come
          robbed   \* history: sockets whose route the pump of another one removed

vars == <<flows, serve, sock, pump, dialer, sent, count, reaper, closing, robbed>>

Datagrams == Seq(1 .. MaxDatagrams)

\* udpFlow: sniffing while up is None (packets is the sniffer's count), else routed.
Flow == [up : Sock \cup {None}, idle : BOOLEAN, packets : 0 .. GiveUp - 1,
         pending : Datagrams]

ASSUME NoneAssumption == None \notin Sock /\ None \notin Client /\ None \notin Flow

\* pc: waiting for a datagram, holding what the table had for its client, resolving,
\* and the steps of routeFlow after the dial.
Serving == [pc : {"read", "found", "resolve", "dialed", "installed", "replay", "returned"},
            client : Client \cup {None}, flow : Flow \cup {None}, up : Sock \cup {None},
            pending : Datagrams]

TypeOK ==
  /\ flows \in [Client -> Flow \cup {None}]
  /\ serve \in Serving
  /\ sock \in [Sock -> {"unused", "open", "closed"}]
  /\ pump \in [Sock -> {"none", "reading", "ending", "closing", "ended"}]
  /\ dialer \in [Sock -> Client \cup {None}]
  /\ sent \in [Sock -> Datagrams]
  /\ count \in [Client -> 0 .. MaxDatagrams]
  /\ reaper \in BOOLEAN
  /\ closing \in {"no", "signalled", "walked", "closed"}
  /\ robbed \subseteq Sock

Init ==
  /\ flows = [c \in Client |-> None]
  /\ serve = [pc |-> "read", client |-> None, flow |-> None, up |-> None, pending |-> <<>>]
  /\ sock = [s \in Sock |-> "unused"]
  /\ pump = [s \in Sock |-> "none"]
  /\ dialer = [s \in Sock |-> None]
  /\ sent = [s \in Sock |-> <<>>]
  /\ count = [c \in Client |-> 0]
  /\ reaper = TRUE
  /\ closing = "no"
  /\ robbed = {}

Sniffing(packets, pending) ==
  [up |-> None, idle |-> FALSE, packets |-> packets, pending |-> pending]
Routed(s) == [up |-> s, idle |-> FALSE, packets |-> 0, pending |-> <<>>]

\* The flow that client c has in the table is active now.
Touch(c) ==
  flows' = [flows EXCEPT ![c] = IF @ = None THEN None ELSE [@ EXCEPT !.idle = FALSE]]

\* A write to a closed socket fails and the error is dropped.
Write(s, d) == sent' = [sent EXCEPT ![s] = IF sock[s] = "open" THEN Append(@, d) ELSE @]

-----------------------------------------------------------------------------
(* Serve and handle.                                                       *)

\* A datagram of c arrives and its flow is looked up.
Receive(c) ==
  /\ serve.pc = "read" /\ closing # "closed" /\ count[c] < MaxDatagrams
  /\ count' = [count EXCEPT ![c] = @ + 1]
  /\ Touch(c)
  /\ serve' = [serve EXCEPT !.pc = "found", !.client = c, !.flow = flows[c]]
  /\ UNCHANGED <<sock, pump, dialer, sent, reaper, closing, robbed>>

Forward ==
  /\ serve.pc = "found" /\ serve.flow # None /\ serve.flow.up # None
  /\ Write(serve.flow.up, count[serve.client])
  /\ serve' = [serve EXCEPT !.pc = "read", !.flow = None]
  /\ UNCHANGED <<flows, sock, pump, dialer, count, reaper, closing, robbed>>

\* Feed's verdict when there is no SNI yet.
GivesUp(packets) == packets >= GiveUp

\* Mutant: only the datagram that created the flow is kept.
Buffer_FirstOnly(f, d) == IF f = None THEN <<d>> ELSE f.pending

Buffer(f, d) == IF f = None THEN <<d>> ELSE Append(f.pending, d)

\* The datagram goes to the sniffer, of a new flow or of the one found, which is no
\* longer in the table if the reaper or a pump has removed it since.
Sniff ==
  LET c       == serve.client
      known   == serve.flow # None
      packets == IF known THEN serve.flow.packets + 1 ELSE 1
      pending == Buffer(serve.flow, count[c])
      fed     == [Sniffing(packets, pending) EXCEPT !.idle = known /\ flows[c].idle]
  IN /\ serve.pc = "found" /\ (known => serve.flow.up = None)
     /\ \/ \* the SNI is known: out of the table, and on to routeFlow
           /\ flows' = [flows EXCEPT ![c] = None]
           /\ serve' = [serve EXCEPT !.pc = "resolve", !.flow = None, !.pending = pending]
        \/ \* the sniffer gives up
           /\ GivesUp(packets)
           /\ flows' = [flows EXCEPT ![c] = None]
           /\ serve' = [serve EXCEPT !.pc = "read", !.flow = None]
        \/ \* more datagrams are needed
           /\ ~GivesUp(packets)
           /\ flows' = [flows EXCEPT ![c] = IF known /\ @ = None THEN None ELSE fed]
           /\ serve' = [serve EXCEPT !.pc = "read", !.flow = None]
     /\ UNCHANGED <<sock, pump, dialer, sent, count, reaper, closing, robbed>>

\* routeFlow: the name does not resolve or the dial fails.
ResolveFails ==
  /\ serve.pc = "resolve"
  /\ serve' = [serve EXCEPT !.pc = "read", !.pending = <<>>]
  /\ UNCHANGED <<flows, sock, pump, dialer, sent, count, reaper, closing, robbed>>

Dial(s) ==
  /\ serve.pc = "resolve" /\ sock[s] = "unused"
  /\ sock' = [sock EXCEPT ![s] = "open"]
  /\ dialer' = [dialer EXCEPT ![s] = serve.client]
  /\ serve' = [serve EXCEPT !.pc = "dialed", !.up = s]
  /\ UNCHANGED <<flows, pump, sent, count, reaper, closing, robbed>>

Install ==
  /\ serve.pc = "dialed"
  /\ flows' = [flows EXCEPT ![serve.client] = Routed(serve.up)]
  /\ serve' = [serve EXCEPT !.pc = "installed"]
  /\ UNCHANGED <<sock, pump, dialer, sent, count, reaper, closing, robbed>>

StartPump ==
  /\ serve.pc = "installed"
  /\ pump' = [pump EXCEPT ![serve.up] = "reading"]
  /\ serve' = [serve EXCEPT !.pc = "replay"]
  /\ UNCHANGED <<flows, sock, dialer, sent, count, reaper, closing, robbed>>

\* One buffered datagram after the other, the pump running.
Replay ==
  /\ serve.pc = "replay"
  /\ \/ /\ serve.pending # <<>>
        /\ Write(serve.up, Head(serve.pending))
        /\ serve' = [serve EXCEPT !.pending = Tail(@)]
     \/ /\ serve.pending = <<>>
        /\ serve' = [serve EXCEPT !.pc = "read", !.up = None]
        /\ UNCHANGED sent
  /\ UNCHANGED <<flows, sock, pump, dialer, count, reaper, closing, robbed>>

\* ReadFromUDP fails, at the latest when the socket is closed.
ServeReturns ==
  /\ serve.pc = "read"
  /\ serve' = [serve EXCEPT !.pc = "returned"]
  /\ UNCHANGED <<flows, sock, pump, dialer, sent, count, reaper, closing, robbed>>

-----------------------------------------------------------------------------
(* Pumps.                                                                  *)

\* A datagram of the origin: whichever flow has the key is kept from the reaper.
PumpRelays(s) ==
  /\ pump[s] = "reading" /\ sock[s] = "open"
  /\ Touch(dialer[s])
  /\ UNCHANGED <<serve, sock, pump, dialer, sent, count, reaper, closing, robbed>>

\* Mutant: the goroutine returns without removing the flow.
PumpFails_Returns(s) ==
  /\ pump[s] = "reading"
  /\ pump' = [pump EXCEPT ![s] = "ended"]
  /\ sock' = [sock EXCEPT ![s] = "closed"]
  /\ UNCHANGED <<flows, serve, dialer, sent, count, reaper, closing, robbed>>

PumpFails(s) ==
  /\ pump[s] = "reading"
  /\ pump' = [pump EXCEPT ![s] = "ending"]
  /\ UNCHANGED <<flows, serve, sock, dialer, sent, count, reaper, closing, robbed>>

\* The key is removed whoever has it now.
PumpDeletes(s) ==
  LET c == dialer[s]
      f == flows[c]
  IN /\ pump[s] = "ending"
     /\ flows' = [flows EXCEPT ![c] = None]
     /\ pump' = [pump EXCEPT ![s] = "closing"]
     /\ robbed' = IF f = None THEN robbed
                  ELSE robbed \cup ({f.up} \ {s, None})
     /\ UNCHANGED <<serve, sock, dialer, sent, count, reaper, closing>>

PumpCloses(s) ==
  /\ pump[s] = "closing"
  /\ sock' = [sock EXCEPT ![s] = "closed"]
  /\ pump' = [pump EXCEPT ![s] = "ended"]
  /\ UNCHANGED <<flows, serve, dialer, sent, count, reaper, closing, robbed>>

-----------------------------------------------------------------------------
(* The reaper and Close.                                                   *)

GoesIdle(c) ==
  /\ flows[c] # None /\ ~flows[c].idle
  /\ flows' = [flows EXCEPT ![c].idle = TRUE]
  /\ UNCHANGED <<serve, sock, pump, dialer, sent, count, reaper, closing, robbed>>

Idle == {c \in Client : flows[c] # None /\ flows[c].idle}

\* Mutant: the flow is dropped and its socket left open.
Reap_LeavesOpen ==
  /\ reaper /\ Idle # {}
  /\ flows' = [c \in Client |-> IF c \in Idle THEN None ELSE flows[c]]
  /\ UNCHANGED <<serve, sock, pump, dialer, sent, count, reaper, closing, robbed>>

Reap ==
  /\ reaper /\ Idle # {}
  /\ flows' = [c \in Client |-> IF c \in Idle THEN None ELSE flows[c]]
  /\ sock' = [s \in Sock |-> IF \E c \in Idle : flows[c].up = s THEN "closed" ELSE sock[s]]
  /\ UNCHANGED <<serve, pump, dialer, sent, count, reaper, closing, robbed>>

ReaperStops ==
  /\ reaper /\ closing # "no"
  /\ reaper' = FALSE
  /\ UNCHANGED <<flows, serve, sock, pump, dialer, sent, count, closing, robbed>>

CloseDone ==
  /\ closing = "no"
  /\ closing' = "signalled"
  /\ UNCHANGED <<flows, serve, sock, pump, dialer, sent, count, reaper, robbed>>

\* The flows stay in the table.
CloseFlows ==
  /\ closing = "signalled"
  /\ sock' = [s \in Sock |-> IF \E c \in Client : flows[c] # None /\ flows[c].up = s
                             THEN "closed" ELSE sock[s]]
  /\ closing' = "walked"
  /\ UNCHANGED <<flows, serve, pump, dialer, sent, count, reaper, robbed>>

CloseConn ==
  /\ closing = "walked"
  /\ closing' = "closed"
  /\ UNCHANGED <<flows, serve, sock, pump, dialer, sent, count, reaper, robbed>>

-----------------------------------------------------------------------------
ServeStep ==
  \/ \E c \in Client : Receive(c)
  \/ Forward \/ Sniff \/ ResolveFails
  \/ \E s \in Sock : Dial(s)
  \/ Install \/ StartPump \/ Replay \/ ServeReturns

PumpStep == \E s \in Sock : PumpRelays(s) \/ PumpFails(s) \/ PumpDeletes(s) \/ PumpCloses(s)

CloseStep == CloseDone \/ CloseFlows \/ CloseConn

Next == ServeStep \/ PumpStep \/ CloseStep \/ Reap \/ ReaperStops \/ \E c \in Client : GoesIdle(c)

Spec == Init /\ [][Next]_vars

-----------------------------------------------------------------------------
(* Properties.                                                             *)

Route(c, s) == flows[c] # None /\ flows[c].up = s

\* No black hole: a route in the table has a pump that will still remove it, or that
\* Serve is about to start.  Each datagram of the client makes its flow active, so a
\* route to a dead socket without a pump would swallow them for good.
NoBlackHole ==
  \A c \in Client, s \in Sock :
    Route(c, s) => \/ pump[s] \in {"reading", "ending"}
                   \/ serve.pc = "installed" /\ serve.up = s

\* A socket that is open and read from is the route of its client, so that whatever
\* ends a flow, reaper, pump or Close, neither cuts a connection in use nor leaves its
\* socket behind.  The exception is the pump of an earlier socket of the client, which
\* removes the key although a newer flow has it.
RoutesKept ==
  \A s \in Sock : pump[s] = "reading" /\ sock[s] = "open" /\ s \notin robbed
                    => Route(dialer[s], s)

\* The origin gets the client's datagrams in order and without a gap, the ones that
\* were buffered for the SNI first, whatever removes the flow meanwhile.
InOrder ==
  \A s \in Sock : \A i \in 1 .. Len(sent[s]) - 1 : sent[s][i + 1] = sent[s][i] + 1

=============================================================================
