-------------------------- MODULE RelayReloadProofs --------------------------
(***************************************************************************)
(* Proofs about the QUIC relay (QuicRelay), for any number of clients,       *)
(* sockets and datagrams; about what edits of the configuration file that    *)
(* overlap leave in it (ConfigEditors), for any number of editors, sections  *)
(* and values, and that no request for a reload is lost (ConfigReload); and  *)
(* that MCRelayReload implements the specifications of the two.              *)
(***************************************************************************)
EXTENDS MCRelayReload, SequenceTheorems, TLAPS

-----------------------------------------------------------------------------
(* Types.                                                                  *)

\* While Serve handles a datagram it has a client, and a socket from the dial on.
ServeInv ==
  /\ serve.pc \in {"found", "resolve", "dialed", "installed", "replay"}
       => serve.client \in Client
  /\ serve.pc = "found" => count[serve.client] >= 1
  /\ serve.pc \in {"dialed", "installed", "replay"} => serve.up \in Sock
  /\ \A s \in Sock : sock[s] # "unused" => dialer[s] \in Client
  /\ \A s \in Sock : sock[s] = "unused" => pump[s] = "none"
  /\ serve.pc \in {"dialed", "installed", "replay"}
       => sock[serve.up] # "unused" /\ dialer[serve.up] = serve.client

\* The routes of the table lead to sockets of their client.  Serve has looked at the
\* table before it adds to it, and nobody else adds to it: the key it adds is free.
RouteInv ==
  /\ \A c \in Client, s \in Sock : Route(c, s) => sock[s] # "unused" /\ dialer[s] = c
  /\ serve.pc = "found" =>
       /\ serve.flow = None => flows[serve.client] = None
       /\ serve.flow # None /\ serve.flow.up = None /\ flows[serve.client] # None
            => flows[serve.client].up = None
  /\ serve.pc \in {"resolve", "dialed"} => flows[serve.client] = None
  /\ serve.pc \in {"dialed", "installed"} => pump[serve.up] = "none"
  /\ serve.pc = "installed" /\ sock[serve.up] = "open" /\ serve.up \notin robbed
       => Route(serve.client, serve.up)
  /\ NoBlackHole
  /\ RoutesKept

LEMMA TouchType ==
  ASSUME TypeOK, NEW c \in Client, Touch(c)
  PROVE  flows' \in [Client -> Flow \cup {None}]
BY ZenonT(60) DEF TypeOK, Touch, Flow

LEMMA WriteType ==
  ASSUME TypeOK, NEW s \in Sock, NEW d \in 1 .. MaxDatagrams, Write(s, d)
  PROVE  sent' \in [Sock -> Datagrams]
<1>1. Append(sent[s], d) \in Datagrams
  BY AppendProperties DEF TypeOK, Datagrams
<1>2. QED
  BY <1>1 DEF TypeOK, Write

LEMMA BufferType ==
  ASSUME NEW f \in Flow \cup {None}, NEW d \in 1 .. MaxDatagrams
  PROVE  Buffer(f, d) \in Datagrams
<1>1. CASE f = None
  BY <1>1 DEF Buffer, Datagrams
<1>2. CASE f \in Flow /\ f # None
  <2>1. f.pending \in Seq(1 .. MaxDatagrams)
    BY <1>2 DEF Flow, Datagrams
  <2>2. QED
    BY <1>2, <2>1, AppendProperties DEF Buffer, Datagrams
<1>3. QED
  BY <1>1, <1>2

LEMMA SniffType ==
  ASSUME TypeOK, ServeInv, Sniff
  PROVE  TypeOK' /\ ServeInv'
<1> DEFINE c       == serve.client
           known   == serve.flow # None
           packets == IF known THEN serve.flow.packets + 1 ELSE 1
           pending == Buffer(serve.flow, count[c])
           fed     == [Sniffing(packets, pending) EXCEPT !.idle = known /\ flows[c].idle]
<1>1. c \in Client /\ count[c] \in 1 .. MaxDatagrams /\ serve.flow \in Flow \cup {None}
  BY MaxDatagramsAssumption DEF Sniff, ServeInv, TypeOK, Serving
<1>2. pending \in Datagrams
  BY <1>1, BufferType
<1>3. packets \in Nat
  BY <1>1, GiveUpAssumption DEF Flow
<1>4. ASSUME ~GivesUp(packets), ~(known /\ flows[c] = None) PROVE fed \in Flow
  <2>1. packets \in 0 .. GiveUp - 1
    BY <1>3, <1>4, GiveUpAssumption DEF GivesUp
  <2>2. (known /\ flows[c].idle) \in BOOLEAN
    BY <1>1, <1>4 DEF TypeOK, Flow
  <2> HIDE DEF known, packets, pending
  <2>3. QED
    BY <1>2, <2>1, <2>2 DEF Flow, Sniffing
<1>5. flows' \in [Client -> Flow \cup {None}]
  <2>1. \/ flows' = [flows EXCEPT ![c] = None]
        \/ /\ ~GivesUp(packets)
           /\ flows' = [flows EXCEPT ![c] = IF known /\ @ = None THEN None ELSE fed]
    BY DEF Sniff
  <2> HIDE DEF fed, known, packets, pending
  <2>2. QED
    BY <1>1, <1>4, <2>1 DEF TypeOK
<1>6. \/ serve' = [serve EXCEPT !.pc = "resolve", !.flow = None, !.pending = pending]
      \/ serve' = [serve EXCEPT !.pc = "read", !.flow = None]
  BY DEF Sniff
<1> HIDE DEF pending, fed, packets
<1>7. serve' \in Serving
  BY <1>2, <1>6 DEF TypeOK, Serving
<1>8. TypeOK'
  BY <1>5, <1>7 DEF TypeOK, Sniff
<1>9. ServeInv'
  BY <1>1, <1>6 DEF ServeInv, Sniff, TypeOK, Serving
<1>10. QED
  BY <1>8, <1>9

LEMMA StepKeepsServe ==
  ASSUME TypeOK, ServeInv, RouteInv, [Next]_vars
  PROVE  TypeOK' /\ ServeInv'
<1>1. ASSUME NEW c \in Client, Receive(c) PROVE TypeOK' /\ ServeInv'
  <2>1. flows' \in [Client -> Flow \cup {None}]
    BY <1>1, TouchType DEF Receive
  <2>2. count' \in [Client -> 0 .. MaxDatagrams] /\ count'[c] >= 1
    BY <1>1, MaxDatagramsAssumption DEF Receive, TypeOK
  <2>3. serve' \in Serving /\ serve'.pc = "found" /\ serve'.client = c
    BY <1>1 DEF Receive, TypeOK, Serving
  <2>4. QED
    BY <1>1, <2>1, <2>2, <2>3 DEF Receive, TypeOK, ServeInv
<1>2. ASSUME Forward PROVE TypeOK' /\ ServeInv'
  <2>1. serve.flow.up \in Sock /\ count[serve.client] \in 1 .. MaxDatagrams
    BY <1>2, MaxDatagramsAssumption DEF Forward, TypeOK, Serving, Flow, ServeInv
  <2>2. sent' \in [Sock -> Datagrams]
    BY <1>2, <2>1, WriteType DEF Forward
  <2>3. serve' \in Serving /\ serve'.pc = "read"
    BY <1>2 DEF Forward, TypeOK, Serving
  <2>4. QED
    BY <1>2, <2>2, <2>3 DEF Forward, TypeOK, ServeInv
<1>3. ASSUME Sniff PROVE TypeOK' /\ ServeInv'
  BY <1>3, SniffType
<1>4. ASSUME ResolveFails PROVE TypeOK' /\ ServeInv'
  <2>1. serve' \in Serving /\ serve'.pc = "read"
    BY <1>4, EmptySeq DEF ResolveFails, TypeOK, Serving, Datagrams
  <2>2. QED
    BY <1>4, <2>1 DEF ResolveFails, TypeOK, ServeInv
<1>5. ASSUME NEW s \in Sock, Dial(s) PROVE TypeOK' /\ ServeInv'
  <2>1. serve' \in Serving /\ serve'.pc = "dialed" /\ serve'.up = s
        /\ serve'.client = serve.client /\ serve.client \in Client
    BY <1>5 DEF Dial, TypeOK, Serving, ServeInv
  <2>2. TypeOK'
    BY <1>5, <2>1 DEF Dial, TypeOK
  <2>3. ServeInv'
    BY <1>5, <2>1 DEF Dial, TypeOK, ServeInv
  <2>4. QED
    BY <2>2, <2>3
<1>6. ASSUME Install PROVE TypeOK' /\ ServeInv'
  <2>1. serve' \in Serving /\ serve'.pc = "installed" /\ serve'.up = serve.up
        /\ serve'.client = serve.client /\ serve.client \in Client /\ serve.up \in Sock
    BY <1>6 DEF Install, TypeOK, Serving, ServeInv
  <2>2. Routed(serve.up) \in Flow
    BY <2>1, GiveUpAssumption DEF Routed, Flow, Datagrams
  <2>3. TypeOK'
    BY <1>6, <2>1, <2>2 DEF Install, TypeOK
  <2>4. ServeInv'
    BY <1>6, <2>1 DEF Install, ServeInv
  <2>5. QED
    BY <2>3, <2>4
<1>7. ASSUME StartPump PROVE TypeOK' /\ ServeInv'
  <2>1. serve' \in Serving /\ serve'.pc = "replay" /\ serve'.up = serve.up
        /\ serve'.client = serve.client /\ serve.client \in Client /\ serve.up \in Sock
    BY <1>7 DEF StartPump, TypeOK, Serving, ServeInv
  <2>2. TypeOK'
    BY <1>7, <2>1 DEF StartPump, TypeOK
  <2>3. ServeInv'
    BY <1>7, <2>1 DEF StartPump, TypeOK, ServeInv
  <2>4. QED
    BY <2>2, <2>3
<1>8. ASSUME Replay PROVE TypeOK' /\ ServeInv'
  <2>1. serve.up \in Sock /\ serve.pending \in Seq(1 .. MaxDatagrams)
    BY <1>8 DEF Replay, TypeOK, Serving, Datagrams, ServeInv
  <2>2. CASE serve.pending # <<>>
    <3>1. /\ Head(serve.pending) \in 1 .. MaxDatagrams
          /\ Tail(serve.pending) \in Seq(1 .. MaxDatagrams)
      BY <2>1, <2>2, HeadTailProperties
    <3>2. sent' \in [Sock -> Datagrams]
      BY <1>8, <2>1, <2>2, <3>1, WriteType DEF Replay
    <3>3. /\ serve' \in Serving /\ serve'.pc = "replay" /\ serve'.up = serve.up
          /\ serve'.client = serve.client
      BY <1>8, <2>2, <3>1 DEF Replay, TypeOK, Serving, Datagrams
    <3>4. QED
      BY <1>8, <3>2, <3>3 DEF Replay, TypeOK, ServeInv
  <2>3. CASE serve.pending = <<>>
    BY <1>8, <2>3 DEF Replay, TypeOK, Serving, ServeInv
  <2>4. QED
    BY <2>2, <2>3
<1>9. ASSUME ServeReturns PROVE TypeOK' /\ ServeInv'
  BY <1>9 DEF ServeReturns, TypeOK, Serving, ServeInv
<1>10. ASSUME NEW s \in Sock, PumpRelays(s) PROVE TypeOK' /\ ServeInv'
  <2>1. dialer[s] \in Client
    BY <1>10 DEF PumpRelays, ServeInv
  <2>2. flows' \in [Client -> Flow \cup {None}]
    BY <1>10, <2>1, TouchType DEF PumpRelays
  <2>3. QED
    BY <1>10, <2>2 DEF PumpRelays, TypeOK, ServeInv
<1>11. ASSUME NEW s \in Sock, PumpFails(s) PROVE TypeOK' /\ ServeInv'
  BY <1>11 DEF PumpFails, TypeOK, ServeInv
<1>12. ASSUME NEW s \in Sock, PumpDeletes(s) PROVE TypeOK' /\ ServeInv'
  <2>1. robbed' \subseteq Sock
    <3>1. dialer[s] \in Client
      BY <1>12 DEF PumpDeletes, TypeOK, ServeInv
    <3>2. flows[dialer[s]] # None => flows[dialer[s]].up \in Sock \cup {None}
      BY <3>1 DEF TypeOK, Flow
    <3>3. CASE flows[dialer[s]] = None
      BY <1>12, <3>3 DEF PumpDeletes, TypeOK
    <3>4. CASE flows[dialer[s]] # None
      BY <1>12, <3>2, <3>4 DEF PumpDeletes, TypeOK
    <3>5. QED
      BY <3>3, <3>4
  <2>2. QED
    BY <1>12, <2>1 DEF PumpDeletes, TypeOK, ServeInv
<1>13. ASSUME NEW s \in Sock, PumpCloses(s) PROVE TypeOK' /\ ServeInv'
  <2>1. TypeOK'
    BY <1>13 DEF PumpCloses, TypeOK
  <2>2. sock[s] # "unused" /\ dialer[s] \in Client
    BY <1>13 DEF PumpCloses, ServeInv
  <2>3. \A t \in Sock : /\ sock'[t] # "unused" => dialer[t] \in Client
                        /\ sock'[t] = "unused" => pump'[t] = "none"
                        /\ sock[t] # "unused" => sock'[t] # "unused"
    BY <1>13, <2>2 DEF PumpCloses, TypeOK, ServeInv
  <2>4. QED
    BY <1>13, <2>1, <2>3 DEF PumpCloses, ServeInv
<1>14. ASSUME CloseStep PROVE TypeOK' /\ ServeInv'
  <2>1. CASE CloseDone
    BY <2>1 DEF CloseDone, TypeOK, ServeInv
  <2>2. CASE CloseFlows
    BY <2>2 DEF CloseFlows, TypeOK, ServeInv, RouteInv, Route
  <2>3. CASE CloseConn
    BY <2>3 DEF CloseConn, TypeOK, ServeInv
  <2>4. QED
    BY <1>14, <2>1, <2>2, <2>3 DEF CloseStep
<1>15. ASSUME Reap PROVE TypeOK' /\ ServeInv'
  BY <1>15 DEF Reap, Idle, TypeOK, ServeInv, RouteInv, Route
<1>16. ASSUME ReaperStops PROVE TypeOK' /\ ServeInv'
  BY <1>16 DEF ReaperStops, TypeOK, ServeInv
<1>17. ASSUME NEW c \in Client, GoesIdle(c) PROVE TypeOK' /\ ServeInv'
  <2>1. flows' \in [Client -> Flow \cup {None}]
    BY <1>17, ZenonT(60) DEF GoesIdle, TypeOK, Flow
  <2>2. QED
    BY <1>17, <2>1 DEF GoesIdle, TypeOK, ServeInv
<1>18. ASSUME UNCHANGED vars PROVE TypeOK' /\ ServeInv'
  BY <1>18 DEF vars, TypeOK, ServeInv
<1>19. QED
  BY <1>1, <1>2, <1>3, <1>4, <1>5, <1>6, <1>7, <1>8, <1>9, <1>10, <1>11, <1>12, <1>13,
     <1>14, <1>15, <1>16, <1>17, <1>18 DEF Next, ServeStep, PumpStep

-----------------------------------------------------------------------------
(* Routes.                                                                 *)

\* The step changes no route of the table.
SameRoutes ==
  \A d \in Client : /\ flows'[d] = None <=> flows[d] = None
                    /\ flows[d] # None => flows'[d].up = flows[d].up

LEMMA TouchKeepsRoutes ==
  ASSUME TypeOK, NEW c \in Client, Touch(c)
  PROVE  SameRoutes
<1>1. ASSUME NEW f \in Flow PROVE [f EXCEPT !.idle = FALSE] \in Flow
                                  /\ [f EXCEPT !.idle = FALSE].up = f.up
  BY DEF Flow
<1>2. QED
  BY <1>1, NoneAssumption DEF TypeOK, Touch, SameRoutes

\* A sniffer's step removes no route and adds none.
LEMMA SniffKeepsRoutes ==
  ASSUME TypeOK, ServeInv, RouteInv, Sniff
  PROVE  /\ serve.client \in Client
         /\ \A d \in Client : \A s \in Sock :
              (flows'[d] # None /\ flows'[d].up = s) <=> (flows[d] # None /\ flows[d].up = s)
         /\ serve'.pc = "resolve" => flows'[serve.client] = None
         /\ serve'.client = serve.client /\ serve'.pc \in {"resolve", "read"}
<1> DEFINE c       == serve.client
           known   == serve.flow # None
           packets == IF known THEN serve.flow.packets + 1 ELSE 1
           pending == Buffer(serve.flow, count[c])
           fed     == [Sniffing(packets, pending) EXCEPT !.idle = known /\ flows[c].idle]
<1>1. c \in Client
  BY DEF Sniff, ServeInv
<1>2. \A s \in Sock : ~(flows[c] # None /\ flows[c].up = s)
  BY <1>1, NoneAssumption DEF Sniff, RouteInv
<1>3. fed.up = None
  BY DEF Sniffing
<1>4. \/ /\ flows' = [flows EXCEPT ![c] = None]
         /\ serve' = [serve EXCEPT !.pc = "resolve", !.flow = None, !.pending = pending]
      \/ /\ flows' = [flows EXCEPT ![c] = None]
         /\ serve' = [serve EXCEPT !.pc = "read", !.flow = None]
      \/ /\ flows' = [flows EXCEPT ![c] = IF known /\ @ = None THEN None ELSE fed]
         /\ serve' = [serve EXCEPT !.pc = "read", !.flow = None]
  BY DEF Sniff
<1> HIDE DEF fed, known, packets, pending
<1>5. \A s \in Sock : ~(flows'[c] # None /\ flows'[c].up = s)
  BY <1>1, <1>3, <1>4, NoneAssumption DEF TypeOK
<1>6. \A d \in Client : d # c => flows'[d] = flows[d]
  BY <1>1, <1>4 DEF TypeOK
<1>7. /\ serve'.pc = "resolve" => flows'[c] = None
      /\ serve'.client = c /\ serve'.pc \in {"resolve", "read"}
  BY <1>1, <1>4 DEF TypeOK, Serving
<1>8. QED
  BY <1>1, <1>2, <1>5, <1>6, <1>7

LEMMA StepKeepsRoutes ==
  ASSUME TypeOK, ServeInv, RouteInv, [Next]_vars
  PROVE  RouteInv'
<1> USE DEF RouteInv, NoBlackHole, RoutesKept, Route
<1>1. ASSUME NEW c \in Client, Receive(c) PROVE RouteInv'
  <2>1. SameRoutes
    BY <1>1, TouchKeepsRoutes DEF Receive
  <2>2. serve'.pc = "found" /\ serve'.client = c /\ serve'.flow = flows[c]
    BY <1>1 DEF Receive, TypeOK, Serving
  <2>3. QED
    BY <1>1, <2>1, <2>2 DEF Receive, SameRoutes, ServeInv, TypeOK
<1>2. ASSUME Forward PROVE RouteInv'
  <2>1. serve'.pc = "read"
    BY <1>2 DEF Forward, TypeOK, Serving
  <2>2. QED
    BY <1>2, <2>1 DEF Forward
<1>3. ASSUME Sniff PROVE RouteInv'
  BY <1>3, SniffKeepsRoutes DEF Sniff, ServeInv
<1>4. ASSUME ResolveFails PROVE RouteInv'
  <2>1. serve'.pc = "read"
    BY <1>4 DEF ResolveFails, TypeOK, Serving
  <2>2. QED
    BY <1>4, <2>1 DEF ResolveFails
<1>5. ASSUME NEW s \in Sock, Dial(s) PROVE RouteInv'
  <2>1. /\ serve'.pc = "dialed" /\ serve'.up = s /\ serve'.client = serve.client
        /\ serve.client \in Client
    BY <1>5 DEF Dial, TypeOK, Serving, ServeInv
  <2>2. pump[s] = "none" /\ \A c \in Client : ~(flows[c] # None /\ flows[c].up = s)
    BY <1>5 DEF Dial, ServeInv
  <2>3. \A t \in Sock : t # s => sock'[t] = sock[t] /\ dialer'[t] = dialer[t]
    BY <1>5 DEF Dial, TypeOK
  <2>4. QED
    BY <1>5, <2>1, <2>2, <2>3 DEF Dial
<1>6. ASSUME Install PROVE RouteInv'
  <2>1. /\ serve'.pc = "installed" /\ serve'.up = serve.up /\ serve'.client = serve.client
        /\ serve.client \in Client /\ serve.up \in Sock
    BY <1>6 DEF Install, TypeOK, Serving, ServeInv
  <2>2. flows'[serve.client] # None /\ flows'[serve.client].up = serve.up
    <3>1. Routed(serve.up) \in Flow /\ Routed(serve.up).up = serve.up
      BY <2>1, GiveUpAssumption, EmptySeq DEF Routed, Flow, Datagrams
    <3>2. QED
      BY <1>6, <2>1, <3>1, NoneAssumption DEF Install, TypeOK
  <2>3. flows[serve.client] = None
    BY <1>6
       DEF Install
  <2>4. \A d \in Client : d # serve.client => flows'[d] = flows[d]
    BY <1>6, <2>1 DEF Install, TypeOK
  <2>5. QED
    BY <1>6, <2>1, <2>2, <2>3, <2>4 DEF Install, ServeInv
<1>7. ASSUME StartPump PROVE RouteInv'
  <2>1. /\ serve'.pc = "replay" /\ serve.up \in Sock
        /\ dialer[serve.up] = serve.client
    BY <1>7 DEF StartPump, TypeOK, Serving, ServeInv
  <2>2. pump'[serve.up] = "reading" /\ \A t \in Sock : t # serve.up => pump'[t] = pump[t]
    BY <1>7, <2>1 DEF StartPump, TypeOK
  <2>3. /\ UNCHANGED <<flows, sock, dialer, robbed>>
        /\ serve.pc = "installed"
    BY <1>7 DEF StartPump
  <2>4. NoBlackHole'
    BY <2>1, <2>2, <2>3
  <2>5. RoutesKept'
    <3>1. sock[serve.up] = "open" /\ serve.up \notin robbed => Route(serve.client, serve.up)
      BY <2>3
    <3>2. QED
      BY <2>1, <2>2, <2>3, <3>1
  <2>6. \A c \in Client, s \in Sock :
           Route(c, s)' => sock'[s] # "unused" /\ dialer'[s] = c
    BY <2>3
  <2> HIDE DEF NoBlackHole, RoutesKept, Route
  <2>7. /\ serve'.pc # "found" /\ serve'.pc \notin {"resolve", "dialed"}
        /\ serve'.pc \notin {"dialed", "installed"} /\ serve'.pc # "installed"
    BY <2>1
  <2>8. QED
    BY <2>4, <2>5, <2>6, <2>7, Zenon
<1>8. ASSUME Replay PROVE RouteInv'
  <2>1. serve'.pc \in {"replay", "read"}
    <3>1. serve.pc = "replay" /\ serve \in Serving
      BY <1>8 DEF Replay, TypeOK
    <3>2. DOMAIN serve = {"pc", "client", "flow", "up", "pending"}
      BY <3>1 DEF Serving
    <3>3. \/ \E p : serve' = [serve EXCEPT !.pending = p]
          \/ serve' = [serve EXCEPT !.pc = "read", !.up = None]
      BY <1>8 DEF Replay
    <3>4. ASSUME NEW p, serve' = [serve EXCEPT !.pending = p] PROVE serve'.pc = "replay"
      BY <3>1, <3>2, <3>4
    <3>5. ASSUME serve' = [serve EXCEPT !.pc = "read", !.up = None] PROVE serve'.pc = "read"
      BY <3>2, <3>5
    <3>6. QED
      BY <3>3, <3>4, <3>5
  <2>2. QED
    BY <1>8, <2>1 DEF Replay
<1>9. ASSUME ServeReturns PROVE RouteInv'
  <2>1. serve'.pc = "returned"
    BY <1>9 DEF ServeReturns, TypeOK, Serving
  <2>2. QED
    BY <1>9, <2>1 DEF ServeReturns
<1>10. ASSUME NEW s \in Sock, PumpRelays(s) PROVE RouteInv'
  <2>1. SameRoutes
    BY <1>10, TouchKeepsRoutes DEF PumpRelays, ServeInv
  <2>2. QED
    BY <1>10, <2>1 DEF PumpRelays, SameRoutes, ServeInv
<1>11. ASSUME NEW s \in Sock, PumpFails(s) PROVE RouteInv'
  BY <1>11 DEF PumpFails, ServeInv, TypeOK
<1>12. ASSUME NEW s \in Sock, PumpDeletes(s) PROVE RouteInv'
  <2> DEFINE c == dialer[s]
  <2>1. c \in Client
    BY <1>12 DEF PumpDeletes, ServeInv
  <2>2. flows'[c] = None /\ \A d \in Client : d # c => flows'[d] = flows[d]
    BY <1>12, <2>1 DEF PumpDeletes, TypeOK
  <2>3. pump'[s] = "closing" /\ \A t \in Sock : t # s => pump'[t] = pump[t]
    BY <1>12 DEF PumpDeletes, TypeOK
  <2>4. /\ robbed \subseteq robbed'
        /\ \A t \in Sock : t # s /\ flows[c] # None /\ flows[c].up = t => t \in robbed'
    <3>1. CASE flows[c] = None
      BY <1>12, <3>1 DEF PumpDeletes
    <3>2. CASE flows[c] # None
      BY <1>12, <3>2, NoneAssumption DEF PumpDeletes
    <3>3. QED
      BY <3>1, <3>2
  <2>5. UNCHANGED <<serve, sock, dialer>>
    BY <1>12 DEF PumpDeletes
  <2> HIDE DEF c
  <2>6. /\ \A d \in Client, t \in Sock : (flows'[d] # None /\ flows'[d].up = t)
                                           => (sock'[t] # "unused" /\ dialer'[t] = d)
        /\ NoBlackHole'
    BY <2>1, <2>2, <2>3, <2>5 DEF c
  <2>7. RoutesKept'
    <3> SUFFICES ASSUME NEW t \in Sock, pump'[t] = "reading", sock'[t] = "open",
                        t \notin robbed'
                 PROVE  flows'[dialer[t]] # None /\ flows'[dialer[t]].up = t
      BY <2>5
    <3>1. t # s /\ pump[t] = "reading" /\ sock[t] = "open" /\ t \notin robbed
      BY <2>3, <2>4, <2>5
    <3>2. dialer[t] \in Client /\ flows[dialer[t]] # None /\ flows[dialer[t]].up = t
      BY <3>1 DEF ServeInv
    <3>3. dialer[t] # c
      BY <2>4, <3>1, <3>2
    <3>4. QED
      BY <2>2, <3>2, <3>3
  <2>8. serve.pc = "installed" /\ sock[serve.up] = "open" /\ serve.up \notin robbed'
          => flows'[serve.client] # None /\ flows'[serve.client].up = serve.up
    <3>1. serve.pc = "installed" => serve.up # s
      BY <1>12 DEF PumpDeletes
    <3>2. QED
      BY <2>1, <2>2, <2>4, <3>1 DEF ServeInv
  <2>9. serve.pc \in {"dialed", "installed"} => pump'[serve.up] = "none"
    <3>1. serve.pc \in {"dialed", "installed"} => serve.up # s /\ serve.up \in Sock
      BY <1>12 DEF PumpDeletes, ServeInv
    <3>2. QED
      BY <2>3, <3>1
  <2>10. QED
    BY <2>1, <2>2, <2>5, <2>6, <2>7, <2>8, <2>9 DEF ServeInv
<1>13. ASSUME NEW s \in Sock, PumpCloses(s) PROVE RouteInv'
  <2>1. /\ sock'[s] = "closed" /\ pump'[s] = "ended"
        /\ \A t \in Sock : t # s => sock'[t] = sock[t] /\ pump'[t] = pump[t]
        /\ pump[s] = "closing"
    BY <1>13 DEF PumpCloses, TypeOK
  <2>2. UNCHANGED <<flows, serve, dialer, robbed>>
    BY <1>13 DEF PumpCloses
  <2>3. QED
    BY <2>1, <2>2 DEF ServeInv
<1>14. ASSUME CloseStep PROVE RouteInv'
  <2>1. CASE CloseDone
    BY <2>1 DEF CloseDone
  <2>2. CASE CloseFlows
    BY <2>2 DEF CloseFlows, ServeInv, TypeOK
  <2>3. CASE CloseConn
    BY <2>3 DEF CloseConn
  <2>4. QED
    BY <1>14, <2>1, <2>2, <2>3 DEF CloseStep
<1>15. ASSUME Reap PROVE RouteInv'
  <2>1. \A d \in Client : \/ flows'[d] = flows[d]
                          \/ /\ flows'[d] = None
                             /\ \A s \in Sock : flows[d].up = s => sock'[s] = "closed"
    BY <1>15 DEF Reap, Idle
  <2>2. \A s \in Sock : sock'[s] \in {sock[s], "closed"}
    BY <1>15 DEF Reap
  <2>3. UNCHANGED <<serve, pump, dialer, robbed>>
    BY <1>15 DEF Reap
  <2>4. QED
    BY <2>1, <2>2, <2>3 DEF ServeInv
<1>16. ASSUME ReaperStops PROVE RouteInv'
  BY <1>16 DEF ReaperStops
<1>17. ASSUME NEW c \in Client, GoesIdle(c) PROVE RouteInv'
  <2>1. SameRoutes
    <3>1. flows[c] \in Flow
      BY <1>17 DEF GoesIdle, TypeOK
    <3>2. flows'[c] = [flows[c] EXCEPT !.idle = TRUE]
          /\ \A d \in Client : d # c => flows'[d] = flows[d]
      BY <1>17 DEF GoesIdle, TypeOK
    <3>3. ASSUME NEW f \in Flow
          PROVE  [f EXCEPT !.idle = TRUE] \in Flow /\ [f EXCEPT !.idle = TRUE].up = f.up
      BY DEF Flow
    <3>4. flows'[c] \in Flow /\ flows'[c].up = flows[c].up
      BY <3>1, <3>2, <3>3
    <3>5. flows[c] # None /\ flows'[c] # None
      BY <3>1, <3>4, NoneAssumption
    <3> HIDE DEF RouteInv, NoBlackHole, RoutesKept, Route
    <3>6. QED
      BY <3>2, <3>4, <3>5 DEF SameRoutes
  <2>2. QED
    BY <1>17, <2>1 DEF GoesIdle, SameRoutes, ServeInv
<1>18. ASSUME UNCHANGED vars PROVE RouteInv'
  BY <1>18 DEF vars
<1>19. QED
  BY <1>1, <1>2, <1>3, <1>4, <1>5, <1>6, <1>7, <1>8, <1>9, <1>10, <1>11, <1>12, <1>13,
     <1>14, <1>15, <1>16, <1>17, <1>18 DEF Next, ServeStep, PumpStep

-----------------------------------------------------------------------------
(* The datagrams in order.                                                 *)

\* q counts up by one and ends at n.
Run(q, n) == q # <<>> /\ \A i \in 1 .. Len(q) : q[i] + (Len(q) - i) = n

\* The last datagram of c that has been dealt with: Serve still holds the newest one
\* while it is at "found".
Reached(c) == IF serve.pc = "found" /\ serve.client = c THEN count[c] - 1 ELSE count[c]

\* routeFlow has buffered datagrams for s that it has not written.
Replaying(s) == serve.pc \in {"dialed", "installed", "replay"} /\ serve.up = s

\* What is buffered and what has been written together end at the last datagram dealt
\* with, wherever the two are.
SniffersKeepUp ==
  \A c \in Client : flows[c] # None /\ flows[c].up = None => Run(flows[c].pending, Reached(c))

RoutesKeepUp ==
  \A c \in Client, s \in Sock :
    Route(c, s) /\ sock[s] = "open" /\ ~Replaying(s) => Run(sent[s], Reached(c))

FoundKeepsUp ==
  serve.pc = "found" /\ serve.flow # None =>
    /\ serve.flow.up = None => Run(serve.flow.pending, count[serve.client] - 1)
    /\ serve.flow.up # None =>
         /\ sock[serve.flow.up] # "unused" /\ dialer[serve.flow.up] = serve.client
         /\ flows[serve.client] # None => flows[serve.client].up = serve.flow.up
         /\ sock[serve.flow.up] = "open" => Run(sent[serve.flow.up], count[serve.client] - 1)

ReplayKeepsUp ==
  /\ serve.pc = "resolve" => Run(serve.pending, count[serve.client])
  /\ \A s \in Sock : Replaying(s) /\ sock[s] = "open"
                       => Run(sent[s] \o serve.pending, count[serve.client])

OrderInv ==
  /\ InOrder
  /\ \A s \in Sock : sock[s] = "unused" => sent[s] = <<>>
  /\ SniffersKeepUp /\ RoutesKeepUp /\ FoundKeepsUp /\ ReplayKeepsUp

\* Two numbers that reach the same end, the second one step later.
LEMMA NextUp ==
  ASSUME NEW a \in Nat, NEW b \in Nat, NEW l \in Nat, NEW i \in Nat, NEW n \in Nat,
         a + (l - i) = n, b + (l - (i + 1)) = n
  PROVE  b = a + 1
OBVIOUS

LEMMA RunOne ==
  ASSUME NEW n \in Nat PROVE Run(<<n>>, n)
BY DEF Run

LEMMA RunAppend ==
  ASSUME NEW q \in Seq(Nat), NEW n \in Nat \ {0}, Run(q, n - 1)
  PROVE  Run(Append(q, n), n)
<1> DEFINE r == Append(q, n)
<1>1. /\ r \in Seq(Nat) /\ Len(r) = Len(q) + 1 /\ Len(q) \in Nat /\ r[Len(q) + 1] = n
      /\ \A i \in 1 .. Len(q) : r[i] = q[i]
  BY AppendProperties, LenProperties
<1>2. \A i \in 1 .. Len(q) : q[i] \in Nat /\ q[i] + (Len(q) - i) = n - 1
  BY ElementOfSeq DEF Run
<1>3. r # <<>>
  BY <1>1, EmptySeq
<1> HIDE DEF r
<1>4. ASSUME NEW i \in 1 .. Len(r) PROVE r[i] + (Len(r) - i) = n
  <2>1. CASE i = Len(q) + 1
    BY <1>1, <2>1
  <2>2. CASE i \in 1 .. Len(q)
    <3>1. r[i] = q[i] /\ q[i] \in Nat /\ q[i] + (Len(q) - i) = n - 1
      BY <1>1, <1>2, <2>2
    <3>2. Len(r) = Len(q) + 1 /\ Len(q) \in Nat /\ i \in Nat
      BY <1>1, <2>2
    <3>3. q[i] + ((Len(q) + 1) - i) = n
      BY <3>1, <3>2, SMTT(30)
    <3>4. QED
      BY <3>1, <3>2, <3>3
  <2>3. QED
    BY <1>1, <2>1, <2>2
<1>5. Run(r, n)
  BY <1>3, <1>4 DEF Run
<1>6. QED
  BY <1>5 DEF r

\* The replay moves the boundary between what is written and what is buffered.
LEMMA MoveOne ==
  ASSUME NEW S, NEW q \in Seq(S), NEW p \in Seq(S), p # <<>>
  PROVE  Append(q, Head(p)) \o Tail(p) = q \o p
<1> DEFINE a == Append(q, Head(p))
           l == a \o Tail(p)
           r == q \o p
<1>1. /\ Head(p) \in S /\ Head(p) = p[1] /\ Tail(p) \in Seq(S) /\ Len(Tail(p)) = Len(p) - 1
      /\ \A i \in 1 .. Len(p) - 1 : Tail(p)[i] = p[i + 1]
      /\ Len(p) \in Nat /\ Len(p) >= 1 /\ Len(q) \in Nat
  BY HeadTailProperties, LenProperties, EmptySeq
<1>2. /\ a \in Seq(S) /\ Len(a) = Len(q) + 1 /\ a[Len(q) + 1] = p[1]
      /\ \A i \in 1 .. Len(q) : a[i] = q[i]
  BY <1>1, AppendProperties
<1> DEFINE t == Tail(p)
<1>3. /\ l \in Seq(S) /\ Len(l) = Len(a) + Len(t)
      /\ \A i \in 1 .. Len(a) + Len(t) :
           l[i] = IF i <= Len(a) THEN a[i] ELSE t[i - Len(a)]
  BY <1>1, <1>2, ConcatProperties
<1>4. /\ r \in Seq(S) /\ Len(r) = Len(q) + Len(p)
      /\ \A i \in 1 .. Len(q) + Len(p) :
           r[i] = IF i <= Len(q) THEN q[i] ELSE p[i - Len(q)]
  BY ConcatProperties
<1>5. Len(t) = Len(p) - 1 /\ \A i \in 1 .. Len(p) - 1 : t[i] = p[i + 1]
  BY <1>1
<1> HIDE DEF a, l, r, t
<1>6. ASSUME NEW i \in 1 .. Len(r) PROVE l[i] = r[i]
  <2>1. CASE i <= Len(q)
    <3>1. /\ i \in 1 .. Len(a) + Len(t) /\ i <= Len(a) /\ i \in 1 .. Len(q)
          /\ i \in 1 .. Len(q) + Len(p)
      BY <1>1, <1>2, <1>4, <1>5, <2>1
    <3>2. l[i] = a[i] /\ r[i] = q[i]
      BY <1>3, <1>4, <2>1, <3>1
    <3>3. QED
      BY <1>2, <3>1, <3>2
  <2>2. CASE i = Len(q) + 1
    <3>1. /\ i = Len(a) /\ i <= Len(a) /\ ~(i <= Len(q)) /\ i - Len(q) = 1
          /\ i \in 1 .. Len(a) + Len(t) /\ i \in 1 .. Len(q) + Len(p)
      BY <1>1, <1>2, <1>5, <2>2
    <3>2. l[i] = a[i] /\ r[i] = p[1]
      BY <1>3, <1>4, <3>1
    <3>3. QED
      BY <1>2, <2>2, <3>2
  <2>3. CASE i > Len(q) + 1
    <3>1. i - Len(a) \in 1 .. Len(p) - 1 /\ (i - Len(a)) + 1 = i - Len(q) /\ ~(i <= Len(a))
          /\ ~(i <= Len(q)) /\ i \in 1 .. Len(a) + Len(t)
      BY <1>1, <1>2, <1>4, <1>5, <2>3
    <3>2. l[i] = t[i - Len(a)] /\ r[i] = p[i - Len(q)]
      BY <1>3, <1>4, <3>1
    <3>3. QED
      BY <1>5, <3>1, <3>2
  <2>4. QED
    BY <1>1, <1>4, <2>1, <2>2, <2>3
<1>7. Len(l) = Len(r)
  BY <1>1, <1>2, <1>3, <1>4, <1>5
<1>8. l = r
  BY <1>3, <1>4, <1>6, <1>7, SeqEqual
<1>9. QED
  BY <1>8 DEF l, a, r, t

\* A beginning of a run counts up by one.
LEMMA RunPrefix ==
  ASSUME NEW q \in Seq(Nat), NEW p \in Seq(Nat), NEW n \in Nat, Run(q \o p, n)
  PROVE  \A i \in 1 .. Len(q) - 1 : q[i + 1] = q[i] + 1
<1> DEFINE r == q \o p
<1>1. /\ Len(r) = Len(q) + Len(p) /\ Len(q) \in Nat /\ Len(p) \in Nat
      /\ \A i \in 1 .. Len(q) : r[i] = q[i] /\ q[i] \in Nat
  BY ConcatProperties, LenProperties, ElementOfSeq
<1>2. \A i \in 1 .. Len(r) : r[i] + (Len(r) - i) = n
  BY DEF Run
<1> HIDE DEF r
<1>3. ASSUME NEW i \in 1 .. Len(q) - 1 PROVE q[i + 1] = q[i] + 1
  <2>1. /\ i \in 1 .. Len(q) /\ i + 1 \in 1 .. Len(q)
        /\ i \in 1 .. Len(r) /\ i + 1 \in 1 .. Len(r)
    BY <1>1
  <2>2. r[i] + (Len(r) - i) = n /\ r[i + 1] + (Len(r) - (i + 1)) = n
    BY <1>2, <2>1
  <2>3. /\ r[i] = q[i] /\ r[i + 1] = q[i + 1] /\ q[i] \in Nat /\ q[i + 1] \in Nat
        /\ Len(r) \in Nat /\ i \in Nat
    BY <1>1, <2>1
  <2>4. q[i] + (Len(r) - i) = n /\ q[i + 1] + (Len(r) - (i + 1)) = n
    BY <2>2, <2>3
  <2> DEFINE a == q[i]
             b == q[i + 1]
             l == Len(r)
  <2>5. a \in Nat /\ b \in Nat /\ l \in Nat /\ a + (l - i) = n /\ b + (l - (i + 1)) = n
    BY <2>3, <2>4
  <2> HIDE DEF a, b, l
  <2>6. b = a + 1
    BY <2>3, <2>5, NextUp
  <2>7. QED
    BY <2>6 DEF a, b
<1>4. QED
  BY <1>3

LEMMA RunCounts ==
  ASSUME NEW q \in Seq(Nat), NEW n \in Nat, Run(q, n)
  PROVE  \A i \in 1 .. Len(q) - 1 : q[i + 1] = q[i] + 1
<1>1. q \o <<>> = q
  BY ConcatEmptySeq
<1>2. <<>> \in Seq(Nat)
  BY EmptySeq
<1>3. QED
  BY <1>1, <1>2, RunPrefix

\* No flow is added and no socket is opened; what Serve holds and what is written stay.
NothingAdded ==
  /\ UNCHANGED <<serve, dialer, sent, count>>
  /\ \A d \in Client :
       flows'[d] # None => /\ flows[d] # None
                           /\ flows'[d].up = flows[d].up
                           /\ flows'[d].pending = flows[d].pending
  /\ \A s \in Sock : /\ sock'[s] = "open" => sock[s] = "open"
                     /\ sock'[s] = "unused" <=> sock[s] = "unused"

LEMMA NothingAddedKeepsOrder ==
  ASSUME TypeOK, ServeInv, OrderInv, NothingAdded
  PROVE  OrderInv'
<1>1. InOrder' /\ \A s \in Sock : sock'[s] = "unused" => sent'[s] = <<>>
  BY DEF NothingAdded, OrderInv, InOrder
<1>2. /\ \A c \in Client : Reached(c)' = Reached(c)
      /\ \A s \in Sock : Replaying(s)' <=> Replaying(s)
  BY DEF NothingAdded, Reached, Replaying
<1>3. SniffersKeepUp'
  BY <1>2 DEF NothingAdded, OrderInv, SniffersKeepUp
<1>4. RoutesKeepUp'
  BY <1>2 DEF NothingAdded, OrderInv, RoutesKeepUp, Route
<1>5. FoundKeepsUp'
  <2>1. serve.pc = "found" /\ serve.flow # None
          => serve.client \in Client /\ serve.flow.up \in Sock \cup {None}
    BY DEF ServeInv, TypeOK, Serving, Flow
  <2>2. QED
    BY <2>1 DEF NothingAdded, OrderInv, FoundKeepsUp
<1>6. ReplayKeepsUp'
  BY <1>2 DEF NothingAdded, OrderInv, ReplayKeepsUp
<1>7. QED
  BY <1>1, <1>3, <1>4, <1>5, <1>6 DEF OrderInv

\* Only the activity of a flow changes.
LEMMA TouchKeepsFlows ==
  ASSUME TypeOK, NEW c \in Client, Touch(c)
  PROVE  \A d \in Client :
           flows'[d] # None => /\ flows[d] # None
                               /\ flows'[d].up = flows[d].up
                               /\ flows'[d].pending = flows[d].pending
<1>1. ASSUME NEW f \in Flow
      PROVE  /\ [f EXCEPT !.idle = FALSE].up = f.up
             /\ [f EXCEPT !.idle = FALSE].pending = f.pending
  BY DEF Flow
<1>2. QED
  BY <1>1 DEF TypeOK, Touch

\* The steps of the pumps, the reaper and Close.
LEMMA OthersAreQuiet ==
  ASSUME TypeOK, ServeInv, RouteInv,
         \/ PumpStep \/ CloseStep \/ Reap \/ ReaperStops \/ \E c \in Client : GoesIdle(c)
         \/ UNCHANGED vars
  PROVE  NothingAdded
<1>1. ASSUME NEW s \in Sock, PumpRelays(s) PROVE NothingAdded
  BY <1>1, TouchKeepsFlows DEF PumpRelays, ServeInv, NothingAdded
<1>2. ASSUME NEW s \in Sock, PumpFails(s) PROVE NothingAdded
  BY <1>2 DEF PumpFails, NothingAdded
<1>3. ASSUME NEW s \in Sock, PumpDeletes(s) PROVE NothingAdded
  BY <1>3 DEF PumpDeletes, TypeOK, NothingAdded
<1>4. ASSUME NEW s \in Sock, PumpCloses(s) PROVE NothingAdded
  BY <1>4 DEF PumpCloses, TypeOK, ServeInv, NothingAdded
<1>5. ASSUME CloseStep PROVE NothingAdded
  BY <1>5 DEF CloseStep, CloseDone, CloseFlows, CloseConn, RouteInv, Route, NothingAdded
<1>6. ASSUME Reap PROVE NothingAdded
  BY <1>6 DEF Reap, Idle, RouteInv, Route, NothingAdded
<1>7. ASSUME ReaperStops PROVE NothingAdded
  BY <1>7 DEF ReaperStops, NothingAdded
<1>8. ASSUME NEW c \in Client, GoesIdle(c) PROVE NothingAdded
  <2>1. ASSUME NEW f \in Flow
        PROVE  /\ [f EXCEPT !.idle = TRUE].up = f.up
               /\ [f EXCEPT !.idle = TRUE].pending = f.pending
    BY DEF Flow
  <2>2. \A d \in Client :
           flows'[d] # None => /\ flows[d] # None
                               /\ flows'[d].up = flows[d].up
                               /\ flows'[d].pending = flows[d].pending
    BY <1>8, <2>1 DEF GoesIdle, TypeOK
  <2>3. QED
    BY <1>8, <2>2 DEF GoesIdle, NothingAdded
<1>9. ASSUME UNCHANGED vars PROVE NothingAdded
  BY <1>9 DEF vars, NothingAdded
<1>10. QED
  BY <1>1, <1>2, <1>3, <1>4, <1>5, <1>6, <1>7, <1>8, <1>9 DEF PumpStep

\* A datagram of c is read: it is the one that Reached does not count yet.
LEMMA ReceiveKeepsOrder ==
  ASSUME TypeOK, ServeInv, RouteInv, OrderInv, NEW c \in Client, Receive(c)
  PROVE  OrderInv'
<1>1. /\ serve.pc = "read" /\ serve'.pc = "found" /\ serve'.client = c /\ serve'.flow = flows[c]
      /\ count[c] \in Nat /\ count' = [count EXCEPT ![c] = count[c] + 1]
      /\ UNCHANGED <<sock, dialer, sent>>
  BY DEF Receive, TypeOK, Serving
<1>2. \A d \in Client :
        flows'[d] # None => /\ flows[d] # None
                            /\ flows'[d].up = flows[d].up
                            /\ flows'[d].pending = flows[d].pending
  BY TouchKeepsFlows DEF Receive
<1>3. \A d \in Client : Reached(d) = count[d] /\ Reached(d)' = count[d]
  BY <1>1 DEF Reached, TypeOK
<1>4. count'[c] - 1 = count[c]
  BY <1>1 DEF TypeOK
<1>5. \A s \in Sock : ~Replaying(s) /\ ~(Replaying(s)')
  BY <1>1 DEF Replaying
<1>6. InOrder' /\ \A s \in Sock : sock'[s] = "unused" => sent'[s] = <<>>
  BY <1>1 DEF OrderInv, InOrder
<1>7. SniffersKeepUp'
  BY <1>2, <1>3 DEF OrderInv, SniffersKeepUp
<1>8. RoutesKeepUp'
  BY <1>1, <1>2, <1>3, <1>5 DEF OrderInv, RoutesKeepUp, Route
<1>9. FoundKeepsUp'
  <2> SUFFICES ASSUME flows[c] # None
               PROVE  /\ flows[c].up = None => Run(flows[c].pending, count[c])
                      /\ flows[c].up # None =>
                           /\ sock[flows[c].up] # "unused" /\ dialer[flows[c].up] = c
                           /\ flows'[c] # None => flows'[c].up = flows[c].up
                           /\ sock[flows[c].up] = "open" => Run(sent[flows[c].up], count[c])
    BY <1>1, <1>4 DEF FoundKeepsUp
  <2>1. flows[c].up \in Sock \cup {None}
    BY DEF TypeOK, Flow
  <2>2. flows[c].up = None => Run(flows[c].pending, count[c])
    BY <1>3 DEF OrderInv, SniffersKeepUp
  <2>3. ASSUME flows[c].up # None
        PROVE  /\ sock[flows[c].up] # "unused" /\ dialer[flows[c].up] = c
               /\ sock[flows[c].up] = "open" => Run(sent[flows[c].up], count[c])
    BY <1>3, <1>5, <2>1, <2>3 DEF OrderInv, RoutesKeepUp, RouteInv, Route
  <2>4. QED
    BY <1>2, <2>2, <2>3
<1>10. ReplayKeepsUp'
  BY <1>1, <1>5 DEF ReplayKeepsUp
<1>11. QED
  BY <1>6, <1>7, <1>8, <1>9, <1>10 DEF OrderInv

LEMMA ForwardKeepsOrder ==
  ASSUME TypeOK, ServeInv, RouteInv, OrderInv, Forward
  PROVE  OrderInv'
<1> DEFINE c == serve.client
           u == serve.flow.up
<1>1. /\ serve.pc = "found" /\ serve.flow # None /\ u # None /\ u \in Sock /\ c \in Client
      /\ count[c] \in Nat \ {0} /\ count[c] \in Nat
      /\ UNCHANGED <<flows, sock, dialer, count>>
  BY MaxDatagramsAssumption DEF Forward, TypeOK, Serving, Flow, ServeInv
<1>2. serve'.pc = "read"
  BY DEF Forward, TypeOK, Serving
<1>3. /\ sock[u] # "unused" /\ dialer[u] = c
      /\ flows[c] # None => flows[c].up = u
      /\ sock[u] = "open" => Run(sent[u], count[c] - 1)
  BY <1>1 DEF OrderInv, FoundKeepsUp
<1>4. /\ \A d \in Client : Reached(d)' = count[d]
      /\ \A d \in Client : d # c => Reached(d) = count[d]
      /\ \A s \in Sock : ~Replaying(s) /\ ~(Replaying(s)')
  BY <1>1, <1>2 DEF Reached, Replaying
<1>5. /\ \A s \in Sock : s # u => sent'[s] = sent[s]
      /\ sock[u] # "open" => sent'[u] = sent[u]
      /\ sock[u] = "open" => sent'[u] = Append(sent[u], count[c])
  BY <1>1 DEF Forward, Write, TypeOK
<1> HIDE DEF c, u
<1>6. \A s \in Sock : sent[s] \in Seq(Nat)
  BY MaxDatagramsAssumption DEF TypeOK, Datagrams
<1>7. ASSUME sock[u] = "open"
      PROVE  /\ Run(sent'[u], count[c])
             /\ \A i \in 1 .. Len(sent'[u]) - 1 : sent'[u][i + 1] = sent'[u][i] + 1
  <2>1. Run(sent'[u], count[c])
    BY <1>1, <1>3, <1>5, <1>6, <1>7, RunAppend
  <2>2. sent'[u] \in Seq(Nat)
    <3>1. sent[u] \in Seq(Nat) /\ count[c] \in Nat
      BY <1>1, <1>6
    <3>2. Append(sent[u], count[c]) \in Seq(Nat)
      BY <3>1, AppendProperties
    <3>3. QED
      BY <1>5, <1>7, <3>2
  <2>3. QED
    BY <1>1, <2>1, <2>2, RunCounts
<1>8. InOrder'
  <2> SUFFICES ASSUME NEW s \in Sock
               PROVE  \A i \in 1 .. Len(sent'[s]) - 1 : sent'[s][i + 1] = sent'[s][i] + 1
    BY DEF InOrder
  <2>1. CASE sent'[s] = sent[s]
    BY <2>1 DEF OrderInv, InOrder
  <2>2. CASE s = u /\ sock[u] = "open"
    BY <1>7, <2>2
  <2>3. QED
    BY <1>5, <2>1, <2>2
<1>9. \A s \in Sock : sock'[s] = "unused" => sent'[s] = <<>>
  BY <1>1, <1>3, <1>5 DEF OrderInv
<1>10. SniffersKeepUp'
  BY <1>1, <1>3, <1>4 DEF OrderInv, SniffersKeepUp
<1>11. RoutesKeepUp'
  <2> SUFFICES ASSUME NEW d \in Client, NEW s \in Sock, Route(d, s), sock[s] = "open"
               PROVE  Run(sent'[s], count[d])
    BY <1>1, <1>4 DEF RoutesKeepUp, Route
  <2>1. dialer[s] = d
    BY DEF RouteInv
  <2>2. CASE s = u
    BY <1>3, <1>7, <2>1, <2>2
  <2>3. CASE s # u
    <3>1. d # c
      BY <1>3, <2>3 DEF Route
    <3>2. QED
      BY <1>4, <1>5, <2>3, <3>1 DEF OrderInv, RoutesKeepUp
  <2>4. QED
    BY <2>2, <2>3
<1>12. FoundKeepsUp'
  BY <1>2 DEF FoundKeepsUp
<1>13. ReplayKeepsUp'
  BY <1>2, <1>4 DEF ReplayKeepsUp
<1>14. QED
  BY <1>8, <1>9, <1>10, <1>11, <1>12, <1>13 DEF OrderInv

\* The datagram joins those the sniffer had, which end at the one before it.
LEMMA SniffKeepsOrder ==
  ASSUME TypeOK, ServeInv, RouteInv, OrderInv, Sniff
  PROVE  OrderInv'
<1> DEFINE c       == serve.client
           known   == serve.flow # None
           packets == IF known THEN serve.flow.packets + 1 ELSE 1
           pending == Buffer(serve.flow, count[c])
           fed     == [Sniffing(packets, pending) EXCEPT !.idle = known /\ flows[c].idle]
<1>1. /\ serve.pc = "found" /\ (serve.flow # None => serve.flow.up = None) /\ c \in Client
      /\ count[c] \in Nat \ {0} /\ count[c] \in Nat /\ serve.flow \in Flow \cup {None}
      /\ UNCHANGED <<sock, dialer, sent, count>>
  BY MaxDatagramsAssumption DEF Sniff, TypeOK, Serving, ServeInv
<1>2. Run(pending, count[c])
  <2>1. CASE serve.flow = None
    BY <1>1, <2>1, RunOne DEF Buffer
  <2>2. CASE serve.flow # None
    <3>1. Run(serve.flow.pending, count[c] - 1)
      BY <1>1, <2>2 DEF OrderInv, FoundKeepsUp
    <3>2. serve.flow.pending \in Seq(Nat)
      BY <1>1, <2>2, MaxDatagramsAssumption DEF Flow, Datagrams
    <3>3. pending = Append(serve.flow.pending, count[c])
      BY <2>2 DEF Buffer
    <3>4. QED
      BY <1>1, <3>1, <3>2, <3>3, RunAppend
  <2>3. QED
    BY <2>1, <2>2
<1>3. fed.pending = pending
  BY DEF Sniffing
<1>4. \/ /\ flows' = [flows EXCEPT ![c] = None]
         /\ serve' = [serve EXCEPT !.pc = "resolve", !.flow = None, !.pending = pending]
      \/ /\ flows' = [flows EXCEPT ![c] = None]
         /\ serve' = [serve EXCEPT !.pc = "read", !.flow = None]
      \/ /\ flows' = [flows EXCEPT ![c] = IF known /\ @ = None THEN None ELSE fed]
         /\ serve' = [serve EXCEPT !.pc = "read", !.flow = None]
  BY DEF Sniff
<1> HIDE DEF fed, known, packets, pending
<1>5. /\ serve'.pc \in {"resolve", "read"} /\ serve'.client = c
      /\ serve'.pc = "resolve" => serve'.pending = pending
  BY <1>4 DEF TypeOK, Serving
<1>6. /\ flows'[c] # None => flows'[c].pending = pending
      /\ \A d \in Client : d # c => flows'[d] = flows[d]
  BY <1>1, <1>3, <1>4 DEF TypeOK
<1>7. /\ \A d \in Client : Reached(d)' = count[d]
      /\ \A d \in Client : d # c => Reached(d) = count[d]
      /\ \A s \in Sock : ~Replaying(s) /\ ~(Replaying(s)')
  BY <1>1, <1>5 DEF Reached, Replaying
<1>8. \A d \in Client, s \in Sock :
        (flows'[d] # None /\ flows'[d].up = s) => Route(d, s) /\ d # c
  <2>1. \A d \in Client, s \in Sock : (flows'[d] # None /\ flows'[d].up = s) => Route(d, s)
    BY SniffKeepsRoutes DEF Route
  <2>2. \A s \in Sock : ~Route(c, s)
    BY <1>1, NoneAssumption DEF RouteInv, Route
  <2>3. QED
    BY <2>1, <2>2
<1> HIDE DEF c
<1>9. InOrder' /\ \A s \in Sock : sock'[s] = "unused" => sent'[s] = <<>>
  BY <1>1 DEF OrderInv, InOrder
<1>10. SniffersKeepUp'
  <2> SUFFICES ASSUME NEW d \in Client, flows'[d] # None, flows'[d].up = None
               PROVE  Run(flows'[d].pending, count[d])
    BY <1>1, <1>7 DEF SniffersKeepUp
  <2>1. CASE d = c
    BY <1>2, <1>6, <2>1
  <2>2. CASE d # c
    BY <1>6, <1>7, <2>2 DEF OrderInv, SniffersKeepUp
  <2>3. QED
    BY <2>1, <2>2
<1>11. RoutesKeepUp'
  <2> SUFFICES ASSUME NEW d \in Client, NEW s \in Sock,
                      flows'[d] # None /\ flows'[d].up = s, sock[s] = "open"
               PROVE  Run(sent[s], count[d])
    BY <1>1, <1>7 DEF RoutesKeepUp, Route
  <2>1. QED
    BY <1>7, <1>8 DEF OrderInv, RoutesKeepUp
<1>12. FoundKeepsUp'
  BY <1>5 DEF FoundKeepsUp
<1>13. ReplayKeepsUp'
  BY <1>1, <1>2, <1>5, <1>7 DEF ReplayKeepsUp
<1>14. QED
  BY <1>9, <1>10, <1>11, <1>12, <1>13 DEF OrderInv

LEMMA DialKeepsOrder ==
  ASSUME TypeOK, ServeInv, RouteInv, OrderInv, NEW s \in Sock, Dial(s)
  PROVE  OrderInv'
<1>1. /\ serve.pc = "resolve" /\ serve'.pc = "dialed" /\ serve'.up = s
      /\ serve'.client = serve.client /\ serve.client \in Client
      /\ serve'.pending = serve.pending
      /\ UNCHANGED <<flows, sent, count>>
  BY DEF Dial, TypeOK, Serving, ServeInv
<1>2. /\ sock[s] = "unused" /\ sent[s] = <<>> /\ sock'[s] = "open"
      /\ \A t \in Sock : t # s => sock'[t] = sock[t]
      /\ \A t \in Sock : Replaying(t)' <=> t = s
      /\ \A t \in Sock : ~Replaying(t)
      /\ \A d \in Client : Reached(d)' = Reached(d)
  BY <1>1 DEF Dial, OrderInv, TypeOK, Replaying, Reached
<1>3. InOrder' /\ \A t \in Sock : sock'[t] = "unused" => sent'[t] = <<>>
  BY <1>1, <1>2 DEF OrderInv, InOrder
<1>4. SniffersKeepUp'
  BY <1>1, <1>2 DEF OrderInv, SniffersKeepUp
<1>5. RoutesKeepUp'
  BY <1>1, <1>2 DEF OrderInv, RoutesKeepUp, Route
<1>6. FoundKeepsUp'
  BY <1>1 DEF FoundKeepsUp
<1>7. ReplayKeepsUp'
  <2>1. Run(serve.pending, count[serve.client])
    BY <1>1 DEF OrderInv, ReplayKeepsUp
  <2>2. sent[s] \o serve.pending = serve.pending
    <3>1. serve.pending \in Seq(1 .. MaxDatagrams)
      BY DEF TypeOK, Serving, Datagrams
    <3>2. QED
      BY <1>2, <3>1, ConcatEmptySeq
  <2>3. QED
    BY <1>1, <1>2, <2>1, <2>2 DEF ReplayKeepsUp
<1>8. QED
  BY <1>3, <1>4, <1>5, <1>6, <1>7 DEF OrderInv

LEMMA InstallKeepsOrder ==
  ASSUME TypeOK, ServeInv, RouteInv, OrderInv, Install
  PROVE  OrderInv'
<1> DEFINE c == serve.client
           u == serve.up
<1>1. /\ serve.pc = "dialed" /\ serve'.pc = "installed" /\ serve'.up = u /\ u \in Sock
      /\ serve'.client = c /\ c \in Client /\ serve'.pending = serve.pending
      /\ UNCHANGED <<sock, sent, count, dialer>>
  BY DEF Install, TypeOK, Serving, ServeInv
<1>2. /\ flows'[c].up = u
      /\ \A d \in Client : d # c => flows'[d] = flows[d]
  BY <1>1 DEF Install, TypeOK, Routed
<1>3. /\ \A t \in Sock : Replaying(t) <=> t = u
      /\ \A t \in Sock : Replaying(t)' <=> t = u
      /\ \A d \in Client : Reached(d)' = Reached(d)
  BY <1>1 DEF Replaying, Reached
<1> HIDE DEF u
<1>4. InOrder' /\ \A t \in Sock : sock'[t] = "unused" => sent'[t] = <<>>
  BY <1>1 DEF OrderInv, InOrder
<1>5. SniffersKeepUp'
  BY <1>1, <1>2, <1>3, NoneAssumption DEF OrderInv, SniffersKeepUp
<1>6. RoutesKeepUp'
  BY <1>1, <1>2, <1>3 DEF OrderInv, RoutesKeepUp, Route
<1>7. FoundKeepsUp'
  BY <1>1 DEF FoundKeepsUp
<1>8. ReplayKeepsUp'
  BY <1>1, <1>3 DEF OrderInv, ReplayKeepsUp
<1>9. QED
  BY <1>4, <1>5, <1>6, <1>7, <1>8 DEF OrderInv

\* A buffered datagram is written, or the last one has been.
LEMMA ReplayKeepsOrder ==
  ASSUME TypeOK, ServeInv, RouteInv, OrderInv, Replay
  PROVE  OrderInv'
<1> DEFINE c == serve.client
           u == serve.up
           p == serve.pending
<1>1. /\ serve.pc = "replay" /\ u \in Sock /\ c \in Client /\ dialer[u] = c
      /\ sock[u] # "unused" /\ count[c] \in Nat
      /\ UNCHANGED <<flows, sock, dialer, count>>
  BY DEF Replay, TypeOK, ServeInv
<1>2. /\ p \in Seq(Nat) /\ \A s \in Sock : sent[s] \in Seq(Nat)
      /\ p \in Seq(1 .. MaxDatagrams)
  BY MaxDatagramsAssumption DEF TypeOK, Serving, Datagrams
<1>3. /\ \A s \in Sock : Replaying(s) <=> s = u
      /\ sock[u] = "open" => Run(sent[u] \o p, count[c])
  BY <1>1 DEF Replaying, OrderInv, ReplayKeepsUp
<1>4. CASE p = <<>>
  <2>1. serve'.pc = "read" /\ UNCHANGED sent
    BY <1>4 DEF Replay, TypeOK, Serving
  <2>2. /\ \A s \in Sock : ~(Replaying(s)')
        /\ \A d \in Client : Reached(d)' = count[d] /\ Reached(d) = count[d]
    BY <1>1, <2>1 DEF Replaying, Reached
  <2>3. sock[u] = "open" => Run(sent[u], count[c])
    BY <1>1, <1>2, <1>3, <1>4, ConcatEmptySeq
  <2> HIDE DEF c, u, p
  <2>4. InOrder' /\ \A s \in Sock : sock'[s] = "unused" => sent'[s] = <<>>
    BY <1>1, <2>1 DEF OrderInv, InOrder
  <2>5. SniffersKeepUp'
    BY <1>1, <2>2 DEF OrderInv, SniffersKeepUp
  <2>6. RoutesKeepUp'
    <3> SUFFICES ASSUME NEW d \in Client, NEW s \in Sock, Route(d, s), sock[s] = "open"
                 PROVE  Run(sent[s], count[d])
      BY <1>1, <2>1, <2>2 DEF RoutesKeepUp, Route
    <3>1. dialer[s] = d
      BY DEF RouteInv
    <3>2. CASE s = u
      BY <1>1, <2>3, <3>1, <3>2
    <3>3. CASE s # u
      BY <1>3, <2>2, <3>3 DEF OrderInv, RoutesKeepUp
    <3>4. QED
      BY <3>2, <3>3
  <2>7. FoundKeepsUp'
    BY <2>1 DEF FoundKeepsUp
  <2>8. ReplayKeepsUp'
    BY <2>1, <2>2 DEF ReplayKeepsUp
  <2>9. QED
    BY <2>4, <2>5, <2>6, <2>7, <2>8 DEF OrderInv
<1>5. CASE p # <<>>
  <2>1. /\ serve'.pc = "replay" /\ serve'.up = u /\ serve'.client = c
        /\ serve'.pending = Tail(p)
    BY <1>5 DEF Replay, TypeOK, Serving
  <2>2. /\ \A s \in Sock : s # u => sent'[s] = sent[s]
        /\ sock[u] # "open" => sent'[u] = sent[u]
        /\ sock[u] = "open" => sent'[u] = Append(sent[u], Head(p))
    BY <1>1, <1>5 DEF Replay, Write, TypeOK
  <2>3. /\ \A s \in Sock : Replaying(s)' <=> s = u
        /\ \A d \in Client : Reached(d)' = Reached(d)
    BY <1>1, <2>1 DEF Replaying, Reached
  <2> HIDE DEF c, u, p
  <2>4. ASSUME sock[u] = "open" PROVE Run(sent'[u] \o Tail(p), count[c])
    <3>1. sent[u] \in Seq(Nat)
      BY <1>1, <1>2
    <3>2. Append(sent[u], Head(p)) \o Tail(p) = sent[u] \o p
      BY <1>2, <1>5, <3>1, MoveOne
    <3>3. QED
      BY <1>3, <2>2, <2>4, <3>2
  <2>5. ASSUME sock[u] = "open"
        PROVE  \A i \in 1 .. Len(sent'[u]) - 1 : sent'[u][i + 1] = sent'[u][i] + 1
    <3>1. Head(p) \in Nat /\ Tail(p) \in Seq(Nat)
      BY <1>2, <1>5, HeadTailProperties
    <3>2. sent[u] \in Seq(Nat)
      BY <1>1, <1>2
    <3>3. Append(sent[u], Head(p)) \in Seq(Nat)
      BY <3>1, <3>2, AppendProperties
    <3>4. Run(Append(sent[u], Head(p)) \o Tail(p), count[c])
      BY <2>2, <2>4, <2>5
    <3> DEFINE r == Append(sent[u], Head(p))
    <3>5. sent'[u] = r
      BY <2>2, <2>5
    <3> HIDE DEF r
    <3>6. \A i \in 1 .. Len(r) - 1 : r[i + 1] = r[i] + 1
      BY <1>1, <3>1, <3>3, <3>4, RunPrefix DEF r
    <3>7. QED
      BY <3>5, <3>6
  <2>6. InOrder'
    <3> SUFFICES ASSUME NEW s \in Sock
                 PROVE  \A i \in 1 .. Len(sent'[s]) - 1 : sent'[s][i + 1] = sent'[s][i] + 1
      BY DEF InOrder
    <3>1. CASE sent'[s] = sent[s]
      BY <3>1 DEF OrderInv, InOrder
    <3>2. CASE s = u /\ sock[u] = "open"
      BY <2>5, <3>2
    <3>3. QED
      BY <2>2, <3>1, <3>2
  <2>7. \A s \in Sock : sock'[s] = "unused" => sent'[s] = <<>>
    BY <1>1, <2>2 DEF OrderInv
  <2>8. SniffersKeepUp'
    BY <1>1, <2>3 DEF OrderInv, SniffersKeepUp
  <2>9. RoutesKeepUp'
    BY <1>1, <1>3, <2>2, <2>3 DEF OrderInv, RoutesKeepUp, Route
  <2>10. FoundKeepsUp'
    BY <2>1 DEF FoundKeepsUp
  <2>11. ReplayKeepsUp'
    BY <1>1, <2>1, <2>3, <2>4 DEF ReplayKeepsUp
  <2>12. QED
    BY <2>6, <2>7, <2>8, <2>9, <2>10, <2>11 DEF OrderInv
<1>6. QED
  BY <1>4, <1>5

\* The other steps of Serve leave flows, sockets and datagrams as they are.
LEMMA ServeKeepsOrder ==
  ASSUME TypeOK, ServeInv, RouteInv, OrderInv, ResolveFails \/ StartPump \/ ServeReturns
  PROVE  OrderInv'
<1>1. UNCHANGED <<flows, sock, dialer, sent, count>>
  BY DEF ResolveFails, StartPump, ServeReturns
<1>2. InOrder' /\ \A s \in Sock : sock'[s] = "unused" => sent'[s] = <<>>
  BY <1>1 DEF OrderInv, InOrder
<1>3. \/ serve'.pc \in {"read", "returned"} /\ serve.pc \in {"read", "resolve"}
      \/ /\ serve'.pc = "replay" /\ serve.pc = "installed" /\ serve'.up = serve.up
         /\ serve'.client = serve.client /\ serve'.pending = serve.pending
  BY DEF ResolveFails, StartPump, ServeReturns, TypeOK, Serving
<1>4. /\ \A c \in Client : Reached(c)' = Reached(c)
      /\ \A s \in Sock : Replaying(s)' <=> Replaying(s)
  BY <1>1, <1>3 DEF Reached, Replaying
<1>5. SniffersKeepUp' /\ RoutesKeepUp'
  BY <1>1, <1>4 DEF OrderInv, SniffersKeepUp, RoutesKeepUp, Route
<1>6. FoundKeepsUp'
  BY <1>3 DEF FoundKeepsUp
<1>7. ReplayKeepsUp'
  BY <1>1, <1>3, <1>4 DEF OrderInv, ReplayKeepsUp, Replaying
<1>8. QED
  BY <1>2, <1>5, <1>6, <1>7 DEF OrderInv

-----------------------------------------------------------------------------
(* The theorems.                                                           *)

\* The strengthening holds in every reachable state.
LEMMA Invariance == Spec => [](TypeOK /\ ServeInv /\ RouteInv)
<1>1. Init => TypeOK /\ ServeInv /\ RouteInv
  <2> SUFFICES ASSUME Init PROVE TypeOK /\ ServeInv /\ RouteInv
    OBVIOUS
  <2>1. TypeOK
    BY GiveUpAssumption, MaxDatagramsAssumption, EmptySeq DEF Init, TypeOK, Serving, Datagrams
  <2>2. ServeInv
    BY DEF Init, ServeInv
  <2>3. RouteInv
    BY DEF Init, RouteInv, NoBlackHole, RoutesKept, Route
  <2>4. QED
    BY <2>1, <2>2, <2>3
<1>2. TypeOK /\ ServeInv /\ RouteInv /\ [Next]_vars => (TypeOK /\ ServeInv /\ RouteInv)'
  BY StepKeepsServe, StepKeepsRoutes
<1>3. QED
  BY <1>1, <1>2, PTL DEF Spec

\* Every reachable state is well typed: in particular no sniffer stays in the table
\* after GiveUp datagrams.
THEOREM TypeCorrect == Spec => []TypeOK
BY Invariance, PTL

\* No route in the table is ever without a pump that will remove it.
THEOREM NoBlackHoleCorrect == Spec => []NoBlackHole
<1>1. RouteInv => NoBlackHole
  BY DEF RouteInv
<1>2. QED
  BY <1>1, Invariance, PTL

\* A socket in use is the route of its client, unless the pump of an earlier one took
\* the key away.
THEOREM RoutesKeptCorrect == Spec => []RoutesKept
<1>1. RouteInv => RoutesKept
  BY DEF RouteInv
<1>2. QED
  BY <1>1, Invariance, PTL

\* A socket never misses a datagram of its client and gets none out of turn.
THEOREM DatagramsInOrder == Spec => []InOrder
<1>1. Init => OrderInv
  BY DEF Init, OrderInv, InOrder, SniffersKeepUp, RoutesKeepUp, FoundKeepsUp, ReplayKeepsUp,
         Replaying, Route
<1>2. TypeOK /\ ServeInv /\ RouteInv /\ OrderInv /\ [Next]_vars => OrderInv'
  <2> SUFFICES ASSUME TypeOK, ServeInv, RouteInv, OrderInv, [Next]_vars
               PROVE  OrderInv'
    OBVIOUS
  <2>1. CASE ServeStep
    BY <2>1, ReceiveKeepsOrder, ForwardKeepsOrder, SniffKeepsOrder, DialKeepsOrder,
       InstallKeepsOrder, ReplayKeepsOrder, ServeKeepsOrder DEF ServeStep
  <2>2. CASE ~ServeStep
    BY <2>2, OthersAreQuiet, NothingAddedKeepsOrder DEF Next
  <2>3. QED
    BY <2>1, <2>2
<1>3. OrderInv => InOrder
  BY DEF OrderInv
<1>4. QED
  BY <1>1, <1>2, <1>3, Invariance, PTL DEF Spec
-----------------------------------------------------------------------------
(* The editors of the configuration file: types.                            *)

Trying == {"load", "opencheck", "writecheck", "loadcheck", "truncate", "write"}

\* The requests by what they are doing.
LEMMA EditKinds ==
  ASSUME NEW r \in EditRec
  PROVE  /\ r.pc \in Trying => r \in [pc : Trying, change : Change, text : Text]
         /\ r.pc = "remove" => r \in [pc : {"remove"}, change : Change, text : Text,
                                   loads : BOOLEAN]
         /\ r.pc \in Trying \cup {"remove", "idle"}
         /\ r.pc = "idle" <=> r = NoEdit
         /\ r # NoEdit => r.change \in Change /\ r.text \in Text
BY DEF EditRec, NoEdit, Trying

LEMMA EditedType ==
  ASSUME NEW text \in Text, NEW change \in Change
  PROVE  /\ Edited(text, change) \in Text
         /\ \/ Edited(text, change) = Torn
            \/ \A s \in DOMAIN change : Edited(text, change)[s] = change[s]
<1>1. CASE DOMAIN change = Section
  <2>1. change \in Whole
    <3>1. ASSUME NEW s \in Patched, change \in [{s} -> Value] PROVE FALSE
      BY <1>1, <3>1, EditorsAssumption
    <3>2. QED
      BY <3>1 DEF Change
  <2>2. QED
    BY <1>1, <2>1 DEF Edited, Text
<1>2. CASE DOMAIN change # Section
  <2>1. PICK s \in Patched : change \in [{s} -> Value]
    BY <1>2 DEF Change, Whole
  <2>2. CASE text = Torn
    BY <1>2, <2>2 DEF Edited, Text
  <2>3. CASE text # Torn
    <3>1. text \in Whole /\ s \in Section /\ DOMAIN change = {s} /\ change[s] \in Value
      BY <2>1, <2>3, EditorsAssumption DEF Text
    <3>2. Edited(text, change) = [x \in Section |-> IF x \in {s} THEN change[x] ELSE text[x]]
      BY <1>2, <2>3, <3>1 DEF Edited
    <3>3. QED
      BY <3>1, <3>2 DEF Whole, Text
  <2>4. QED
    BY <2>2, <2>3
<1>3. QED
  BY <1>1, <1>2

LEMMA EmptyType == Empty \in Whole /\ Empty \in Text
BY DEF Empty, Whole, Text

\* What a request does next, by its step.
LEMMA EditorMoves ==
  ASSUME EditorsTypeOK, NEW e \in Editor, EditorStep(e)
  PROVE  \E r \in EditRec : edit' = [edit EXCEPT ![e] = r]
<1>1. edit[e] \in EditRec
  BY DEF EditorsTypeOK
<1>2. file \in Text
  BY DEF EditorsTypeOK
<1> USE DEF Proceeds
<1>3. ASSUME NEW s \in Patched, NEW v \in Value, PatchBegins(e, s, v)
      PROVE  \E r \in EditRec : edit' = [edit EXCEPT ![e] = r]
  <2>1. [x \in {s} |-> v] \in Change
    BY DEF Change
  <2>2. [pc |-> "load", change |-> [x \in {s} |-> v], text |-> file] \in EditRec
    BY <1>2, <2>1 DEF EditRec
  <2>3. QED
    BY <1>3, <2>2 DEF PatchBegins
<1>4. CASE LoadFile(e)
  <2>1. edit[e] \in [pc : Trying, change : Change, text : Text]
    BY <1>1, <1>4, EditKinds DEF LoadFile, Trying
  <2>2. Edited(edit[e].text, edit[e].change) \in Text
    BY <2>1, EditedType
  <2>3. [edit[e] EXCEPT !.pc = "opencheck", !.text = Edited(@, edit[e].change)] \in EditRec
    BY <2>1, <2>2 DEF EditRec, Trying
  <2>4. QED
    BY <1>4, <2>3 DEF LoadFile, EditRec
<1>5. CASE OpenCheck(e) \/ WriteCheck(e) \/ Truncate(e)
  <2>1. edit[e] \in [pc : Trying, change : Change, text : Text]
    BY <1>1, <1>5, EditKinds DEF OpenCheck, WriteCheck, Truncate, Trying
  <2>2. \A p \in Trying : [edit[e] EXCEPT !.pc = p] \in EditRec
    BY <2>1 DEF EditRec, Trying
  <2>3. QED
    BY <1>5, <2>2 DEF OpenCheck, WriteCheck, Truncate, Trying
<1>6. CASE LoadCheck(e)
  <2>1. edit[e] \in [pc : Trying, change : Change, text : Text]
    BY <1>1, <1>6, EditKinds DEF LoadCheck, Trying
  <2>2. \A b \in BOOLEAN : [pc |-> "remove", change |-> edit[e].change, text |-> edit[e].text,
                            loads |-> b] \in EditRec
    BY <2>1 DEF EditRec
  <2>3. (~check.there \/ check.text # Torn) \in BOOLEAN
    OBVIOUS
  <2>4. QED
    BY <1>6, <2>2, <2>3 DEF LoadCheck
<1>7. CASE RemoveCheck(e)
  <2>1. edit[e].change \in Change /\ edit[e].text \in Text
    BY <1>1, <1>7, EditKinds DEF RemoveCheck
  <2>2. [pc |-> "truncate", change |-> edit[e].change, text |-> edit[e].text] \in EditRec
    BY <2>1 DEF EditRec
  <2>3. QED
    BY <1>7, <2>2 DEF RemoveCheck, EditRec
<1>8. CASE PutBegins(e)
  <2>1. PICK text \in Whole :
          edit' = [edit EXCEPT ![e] = [pc |-> "truncate", change |-> text, text |-> text]]
    BY <1>8 DEF PutBegins
  <2>2. [pc |-> "truncate", change |-> text, text |-> text] \in EditRec
    BY DEF EditRec, Change, Text
  <2>3. QED
    BY <2>1, <2>2
<1>9. CASE WriteFile(e) \/ WriteFails(e)
  BY <1>9 DEF WriteFile, WriteFails, EditRec
<1>10. QED
  BY <1>3, <1>4, <1>5, <1>6, <1>7, <1>8, <1>9 DEF EditorStep

LEMMA BeginsType ==
  ASSUME EditorsTypeOK, Begins
  PROVE  /\ want' \in Text /\ lastAck' \in Change \cup {NoChange}
         /\ overlap' \in BOOLEAN /\ failed' \in BOOLEAN
BY DEF EditorsTypeOK, Begins, Quiet

LEMMA EditorsNextType ==
  ASSUME EditorsTypeOK, EditorsNext
  PROVE  EditorsTypeOK'
<1>1. file \in Text /\ edit \in [Editor -> EditRec] /\ Torn \in Text
  BY DEF EditorsTypeOK, Text
<1>2. CASE EditorsCrash
  BY <1>2 DEF EditorsCrash, EditorsTypeOK, EditRec
<1>3. ASSUME NEW e \in Editor, EditorStep(e) PROVE EditorsTypeOK'
  <2>1. edit' \in [Editor -> EditRec]
    BY <1>1, <1>3, EditorMoves
  <2>2. edit[e] # NoEdit => edit[e].change \in Change /\ edit[e].text \in Text
    BY <1>1, EditKinds
  <2>3. ASSUME Begins, UNCHANGED <<file, check, checkOpen>> PROVE EditorsTypeOK'
    BY <2>1, <2>3, BeginsType DEF EditorsTypeOK
  <2>4. ASSUME UNCHANGED <<file, check, checkOpen, ghostVars>> PROVE EditorsTypeOK'
    BY <2>1, <2>4 DEF EditorsTypeOK, ghostVars
  <2>5. ASSUME NEW text \in Text, NEW old, NEW new \in Over(old, text) PROVE new \in Text
    BY <1>1 DEF Over
  <2>6. ASSUME NEW s \in Patched, NEW v \in Value, PatchBegins(e, s, v) PROVE EditorsTypeOK'
    BY <2>3, <2>6 DEF PatchBegins
  <2>7. CASE PutBegins(e)
    BY <2>3, <2>7 DEF PutBegins
  <2>8. CASE LoadFile(e) \/ LoadCheck(e)
    BY <2>4, <2>8 DEF LoadFile, LoadCheck
  <2>9. CASE OpenCheck(e)
    BY <2>1, <2>9, EmptyType DEF OpenCheck, EditorsTypeOK, ghostVars
  <2>10. CASE WriteCheck(e)
    <3>1. edit[e].text \in Text
      BY <2>2, <2>10 DEF WriteCheck, NoEdit
    <3>2. check' \in [there : BOOLEAN, text : Text]
      <4>1. CASE check.there /\ e \in checkOpen
        <5>1. PICK text \in Over(check.text, edit[e].text) : check' = [check EXCEPT !.text = text]
          BY <2>10, <4>1 DEF WriteCheck
        <5>2. text \in Text
          BY <2>5, <3>1
        <5>3. QED
          BY <5>1, <5>2 DEF EditorsTypeOK
      <4>2. CASE ~(check.there /\ e \in checkOpen)
        BY <2>10, <4>2 DEF WriteCheck, EditorsTypeOK
      <4>3. QED
        BY <4>1, <4>2
    <3>3. checkOpen' \in SUBSET Editor /\ UNCHANGED <<file, ghostVars>>
      BY <2>10 DEF WriteCheck, EditorsTypeOK
    <3>4. QED
      BY <2>1, <3>2, <3>3 DEF EditorsTypeOK, ghostVars
  <2>11. CASE RemoveCheck(e)
    BY <2>1, <2>11, EmptyType DEF RemoveCheck, EditorsTypeOK, ghostVars
  <2>12. CASE Truncate(e)
    BY <2>1, <2>12, EmptyType DEF Truncate, EditorsTypeOK, ghostVars
  <2>13. CASE WriteFile(e)
    <3>1. edit[e].change \in Change /\ edit[e].text \in Text
      BY <2>2, <2>13 DEF WriteFile, NoEdit
    <3>2. file' \in Text
      BY <2>5, <2>13, <3>1 DEF WriteFile
    <3>3. want' \in Text
      BY <2>13, <3>1, EditedType DEF WriteFile, EditorsTypeOK
    <3>4. QED
      BY <2>1, <2>13, <3>1, <3>2, <3>3 DEF WriteFile, EditorsTypeOK
  <2>14. CASE WriteFails(e)
    BY <2>1, <2>14 DEF WriteFails, EditorsTypeOK
  <2>15. QED
    BY <1>3, <2>6, <2>7, <2>8, <2>9, <2>10, <2>11, <2>12, <2>13, <2>14 DEF EditorStep
<1>4. QED
  BY <1>2, <1>3 DEF EditorsNext

LEMMA EditorsInitType == EditorsInit => EditorsTypeOK
<1> SUFFICES ASSUME EditorsInit PROVE EditorsTypeOK
  OBVIOUS
<1>1. file \in Text /\ want \in Text
  BY DEF EditorsInit, Text
<1>2. check \in [there : BOOLEAN, text : Text] /\ checkOpen \in SUBSET Editor
  BY EmptyType DEF EditorsInit
<1>3. edit \in [Editor -> EditRec]
  <2>1. NoEdit \in EditRec
    BY DEF EditRec
  <2>2. QED
    BY <2>1 DEF EditorsInit
<1>4. QED
  BY <1>1, <1>2, <1>3 DEF EditorsInit, EditorsTypeOK

LEMMA EditorsStepType ==
  ASSUME EditorsTypeOK, [EditorsNext]_editorsVars
  PROVE  EditorsTypeOK'
<1>1. CASE UNCHANGED editorsVars
  BY <1>1 DEF editorsVars, fileVars, ghostVars, EditorsTypeOK
<1>2. QED
  BY <1>1, EditorsNextType

\* Whatever the editors do at the same time, the file and path.check hold a text that
\* one of them wrote, nothing, or the torn text that two writes leave.
THEOREM EditorsTypes == EditorsSpec => []EditorsTypeOK
BY EditorsInitType, EditorsStepType, PTL DEF EditorsSpec

-----------------------------------------------------------------------------
(* What the file has after the edits.                                       *)

\* A text has what an edit sets.
Has(text, change) == \A s \in DOMAIN change : text[s] = change[s]

\* The text of an edit is made of what was read, or brought by a PUT.
Made == {"opencheck", "writecheck", "loadcheck", "remove", "truncate", "write"}
MadeInv ==
  \A e \in Editor : edit[e].pc \in Made => edit[e].text = Torn \/ Has(edit[e].text, edit[e].change)

NoWrite == \A e \in Editor : edit[e].pc # "write"

\* Unless one is writing, the file has what the last one has written.
LastInv == ~failed /\ NoWrite => file = Torn \/ Has(file, lastAck)

\* An edit that overlaps no other is the only one, and what it writes is what the file
\* had, with its change.
AloneInv ==
  ~overlap =>
    /\ \A d, e \in Editor : edit[d] # NoEdit /\ edit[e] # NoEdit => d = e
    /\ ~failed /\ NoWrite => file = want
    /\ ~failed => \A e \in Editor :
         /\ edit[e].pc = "load" => edit[e].text = want
         /\ edit[e].pc \in Made => edit[e].text = Edited(want, edit[e].change)
         /\ edit[e].pc = "write" => file = Empty

KeptInv == EditorsTypeOK /\ MadeInv /\ LastInv /\ AloneInv

LEMMA NotIdle == NoEdit.pc = "idle" /\ "idle" \notin Made /\ "load" \notin Made
BY DEF NoEdit, Made

\* A step that leaves file and ghosts alone, by what its request has afterwards.
LEMMA TryingKeeps ==
  ASSUME KeptInv, EditorsTypeOK', NEW e \in Editor, NEW r \in EditRec,
         edit' = [edit EXCEPT ![e] = r], UNCHANGED <<file, want, lastAck, overlap, failed>>,
         edit[e] # NoEdit, edit[e].pc # "write", r.pc # "write", r.pc # "load",
         \/ r = NoEdit
         \/ /\ r.text = Torn \/ Has(r.text, r.change)
            /\ ~overlap /\ ~failed => r.text = Edited(want, r.change)
  PROVE  KeptInv'
<1>1. /\ edit'[e] = r /\ \A d \in Editor : d # e => edit'[d] = edit[d]
      /\ edit \in [Editor -> EditRec]
  BY DEF KeptInv, EditorsTypeOK
<1>2. MadeInv'
  BY <1>1, NotIdle DEF KeptInv, MadeInv, Has
<1>3. NoWrite' => NoWrite
  BY <1>1 DEF NoWrite
<1>4. LastInv'
  BY <1>3 DEF KeptInv, LastInv, Has
<1>5. AloneInv'
  <2> SUFFICES ASSUME ~overlap PROVE AloneInv'
    BY DEF AloneInv
  <2>1. \A d, g \in Editor : edit[d] # NoEdit /\ edit[g] # NoEdit => d = g
    BY DEF KeptInv, AloneInv
  <2>2. \A d, g \in Editor : edit'[d] # NoEdit /\ edit'[g] # NoEdit => d = g
    BY <1>1, <2>1
  <2>3. ~failed /\ NoWrite' => file = want
    BY <1>3 DEF KeptInv, AloneInv
  <2>4. ASSUME ~failed, NEW d \in Editor
        PROVE  /\ edit'[d].pc = "load" => edit'[d].text = want
               /\ edit'[d].pc \in Made => edit'[d].text = Edited(want, edit'[d].change)
               /\ edit'[d].pc = "write" => file = Empty
    <3>1. CASE d = e
      BY <1>1, <2>4, <3>1, NotIdle
    <3>2. CASE d # e
      BY <1>1, <2>4, <3>2 DEF KeptInv, AloneInv
    <3>3. QED
      BY <3>1, <3>2
  <2>5. QED
    BY <2>2, <2>3, <2>4 DEF AloneInv, Edited
<1>6. QED
  BY <1>2, <1>4, <1>5 DEF KeptInv

\* An edit begins, with a text that was just read or brought.
LEMMA BeginKeeps ==
  ASSUME KeptInv, EditorsTypeOK', NEW e \in Editor, NEW r \in EditRec,
         edit[e] = NoEdit, edit' = [edit EXCEPT ![e] = r], Begins, UNCHANGED file,
         \/ r.pc = "load" /\ r.text = file
         \/ r.pc = "truncate" /\ r.text = r.change /\ DOMAIN r.change = Section
  PROVE  KeptInv'
<1>1. /\ edit'[e] = r /\ \A d \in Editor : d # e => edit'[d] = edit[d]
      /\ edit \in [Editor -> EditRec]
  BY DEF KeptInv, EditorsTypeOK
<1>2. MadeInv'
  BY <1>1, NotIdle DEF KeptInv, MadeInv, Has
<1>3. LastInv'
  <2>1. CASE Quiet
    <3>1. lastAck' = NoChange
      BY <2>1 DEF Begins
    <3>2. Has(file', lastAck')
      BY <3>1 DEF Has, NoChange
    <3>3. QED
      BY <3>2 DEF LastInv, Has
  <2>2. CASE ~Quiet
    <3>1. UNCHANGED <<want, lastAck, failed>>
      BY <2>2 DEF Begins
    <3>2. NoWrite' => NoWrite
      BY <1>1, NotIdle DEF NoWrite
    <3>3. QED
      BY <3>1, <3>2 DEF KeptInv, LastInv, Has
  <2>3. QED
    BY <2>1, <2>2
<1>4. AloneInv'
  <2> SUFFICES ASSUME Quiet PROVE AloneInv'
    BY DEF AloneInv, Begins
  <2>1. want' = file' /\ \A d \in Editor : d # e => edit'[d] = NoEdit
    BY <1>1 DEF Quiet, Begins
  <2>2. \A d, g \in Editor : edit'[d] # NoEdit /\ edit'[g] # NoEdit => d = g
    BY <2>1
  <2>3. ASSUME NEW d \in Editor
        PROVE  /\ edit'[d].pc = "load" => edit'[d].text = want'
               /\ edit'[d].pc \in Made => edit'[d].text = Edited(want', edit'[d].change)
               /\ edit'[d].pc # "write"
    <3>1. CASE d = e
      BY <1>1, <2>1, <3>1, NotIdle DEF Edited
    <3>2. CASE d # e
      BY <2>1, <3>2, NotIdle
    <3>3. QED
      BY <3>1, <3>2
  <2>4. QED
    BY <2>1, <2>2, <2>3 DEF AloneInv, Edited
<1>5. QED
  BY <1>2, <1>3, <1>4 DEF KeptInv

LEMMA TruncateKeeps ==
  ASSUME KeptInv, EditorsTypeOK', NEW e \in Editor, Truncate(e)
  PROVE  KeptInv'
<1>1. edit \in [Editor -> EditRec] /\ edit[e] \in [pc : Trying, change : Change, text : Text]
  BY EditKinds DEF KeptInv, EditorsTypeOK, Truncate, Trying
<1>2. /\ edit'[e].pc = "write" /\ edit'[e].text = edit[e].text /\ edit'[e].change = edit[e].change
      /\ edit'[e] # NoEdit /\ edit[e] # NoEdit /\ edit[e].pc \in Made
      /\ \A d \in Editor : d # e => edit'[d] = edit[d]
  BY <1>1 DEF Truncate, Proceeds, NoEdit, Made
<1>3. UNCHANGED <<want, lastAck, overlap, failed>> /\ file' = Empty
  BY DEF Truncate, ghostVars
<1>4. MadeInv'
  BY <1>2 DEF KeptInv, MadeInv, Has
<1>5. ~NoWrite'
  BY <1>2 DEF NoWrite
<1>6. LastInv'
  BY <1>5 DEF LastInv
<1>7. AloneInv'
  <2> SUFFICES ASSUME ~overlap PROVE AloneInv'
    BY <1>3 DEF AloneInv
  <2>1. \A d, g \in Editor : edit'[d] # NoEdit /\ edit'[g] # NoEdit => d = g
    BY <1>2 DEF KeptInv, AloneInv
  <2>2. ASSUME ~failed, NEW d \in Editor
        PROVE  /\ edit'[d].pc = "load" => edit'[d].text = want
               /\ edit'[d].pc \in Made => edit'[d].text = Edited(want, edit'[d].change)
    <3>1. CASE d = e
      BY <1>2, <2>2, <3>1 DEF KeptInv, AloneInv
    <3>2. CASE d # e
      BY <1>2, <2>2, <3>2 DEF KeptInv, AloneInv
    <3>3. QED
      BY <3>1, <3>2
  <2>3. QED
    BY <1>3, <1>5, <2>1, <2>2 DEF AloneInv, Edited
<1>8. QED
  BY <1>4, <1>6, <1>7 DEF KeptInv

LEMMA WriteKeeps ==
  ASSUME KeptInv, EditorsTypeOK', NEW e \in Editor, WriteFile(e)
  PROVE  KeptInv'
<1>1. /\ edit \in [Editor -> EditRec] /\ edit[e].pc = "write" /\ edit[e] # NoEdit
      /\ edit[e].pc \in Made
  BY DEF KeptInv, EditorsTypeOK, WriteFile, NoEdit, Made
<1>2. edit'[e] = NoEdit /\ \A d \in Editor : d # e => edit'[d] = edit[d]
  BY <1>1 DEF WriteFile, Proceeds
<1>3. /\ file' = edit[e].text \/ file' = Torn
      /\ file = Empty => file' = edit[e].text
      /\ want' = Edited(want, edit[e].change) /\ lastAck' = edit[e].change
      /\ UNCHANGED <<overlap, failed>>
  BY DEF WriteFile, Over
<1>4. MadeInv'
  BY <1>2, NotIdle DEF KeptInv, MadeInv, Has
<1>5. edit[e].text = Torn \/ Has(edit[e].text, edit[e].change)
  BY <1>1 DEF KeptInv, MadeInv
<1>6. file' = Torn \/ Has(file', lastAck')
  BY <1>3, <1>5
<1>7. LastInv'
  BY <1>6 DEF LastInv, Has, Torn
<1>8. AloneInv'
  <2> SUFFICES ASSUME ~overlap PROVE AloneInv'
    BY <1>3 DEF AloneInv
  <2>1. \A d \in Editor : edit'[d] = NoEdit
    BY <1>1, <1>2 DEF KeptInv, AloneInv
  <2>2. ~failed => file' = want'
    BY <1>1, <1>3 DEF KeptInv, AloneInv
  <2>3. \A d \in Editor : edit'[d].pc \notin Made /\ edit'[d].pc # "load" /\ edit'[d].pc # "write"
    BY <2>1, NotIdle DEF Made
  <2>4. QED
    BY <1>3, <2>1, <2>2, <2>3 DEF AloneInv
<1>9. QED
  BY <1>4, <1>7, <1>8 DEF KeptInv

LEMMA FailKeeps ==
  ASSUME KeptInv, EditorsTypeOK', NEW e \in Editor, WriteFails(e)
  PROVE  KeptInv'
<1>1. edit \in [Editor -> EditRec] /\ edit[e] # NoEdit
  BY DEF KeptInv, EditorsTypeOK, WriteFails, NoEdit
<1>2. edit'[e] = NoEdit /\ \A d \in Editor : d # e => edit'[d] = edit[d]
  BY <1>1 DEF WriteFails, Proceeds
<1>3. failed' = TRUE /\ UNCHANGED overlap
  BY DEF WriteFails
<1>4. MadeInv'
  BY <1>2, NotIdle DEF KeptInv, MadeInv, Has
<1>5. LastInv'
  BY <1>3 DEF LastInv
<1>6. AloneInv'
  BY <1>2, <1>3 DEF KeptInv, AloneInv
<1>7. QED
  BY <1>4, <1>5, <1>6 DEF KeptInv

LEMMA CrashKeeps ==
  ASSUME KeptInv, EditorsTypeOK', EditorsCrash
  PROVE  KeptInv'
<1>1. (\A e \in Editor : edit'[e] = NoEdit) /\ UNCHANGED <<file, want, lastAck, overlap>>
  BY DEF EditorsCrash
<1>2. \A e \in Editor : edit'[e].pc \notin Made /\ edit'[e].pc # "load" /\ edit'[e].pc # "write"
  BY <1>1, NotIdle DEF Made
<1>3. ~failed' => ~failed /\ NoWrite
  BY DEF EditorsCrash, NoWrite
<1>4. MadeInv'
  BY <1>2 DEF MadeInv
<1>5. LastInv'
  BY <1>1, <1>3 DEF KeptInv, LastInv, Has, Torn
<1>6. AloneInv'
  BY <1>1, <1>2, <1>3 DEF KeptInv, AloneInv
<1>7. QED
  BY <1>4, <1>5, <1>6 DEF KeptInv

LEMMA EditorKeeps ==
  ASSUME KeptInv, EditorsTypeOK', NEW e \in Editor, EditorStep(e)
  PROVE  KeptInv'
<1>1. edit \in [Editor -> EditRec] /\ edit[e] \in EditRec /\ file \in Text
  BY DEF KeptInv, EditorsTypeOK
<1>2. /\ ~overlap /\ ~failed /\ edit[e].pc = "load" => edit[e].text = want
      /\ ~overlap /\ ~failed /\ edit[e].pc \in Made => edit[e].text = Edited(want, edit[e].change)
      /\ edit[e].pc \in Made => edit[e].text = Torn \/ Has(edit[e].text, edit[e].change)
  BY DEF KeptInv, AloneInv, MadeInv
<1> USE DEF Proceeds
<1>3. ASSUME NEW s \in Patched, NEW v \in Value, PatchBegins(e, s, v) PROVE KeptInv'
  <2> DEFINE r == [pc |-> "load", change |-> [x \in {s} |-> v], text |-> file]
  <2>1. r \in EditRec /\ r.pc = "load" /\ r.text = file
    <3>1. [x \in {s} |-> v] \in Change
      BY DEF Change
    <3>2. QED
      BY <1>1, <3>1 DEF EditRec
  <2>2. edit[e] = NoEdit /\ edit' = [edit EXCEPT ![e] = r] /\ Begins /\ UNCHANGED file
    BY <1>3 DEF PatchBegins
  <2> HIDE DEF r
  <2>3. QED
    BY <2>1, <2>2, BeginKeeps
<1>4. CASE PutBegins(e)
  <2>1. PICK text \in Whole :
          edit' = [edit EXCEPT ![e] = [pc |-> "truncate", change |-> text, text |-> text]]
    BY <1>4 DEF PutBegins
  <2> DEFINE r == [pc |-> "truncate", change |-> text, text |-> text]
  <2>2. r \in EditRec /\ r.pc = "truncate" /\ r.text = r.change /\ DOMAIN r.change = Section
    BY DEF EditRec, Change, Text, Whole
  <2>3. edit[e] = NoEdit /\ edit' = [edit EXCEPT ![e] = r] /\ Begins /\ UNCHANGED file
    BY <1>4, <2>1 DEF PutBegins
  <2> HIDE DEF r
  <2>4. QED
    BY <2>2, <2>3, BeginKeeps
<1>5. CASE LoadFile(e)
  <2> DEFINE r == IF file = Torn THEN NoEdit
                  ELSE [edit[e] EXCEPT !.pc = "opencheck", !.text = Edited(@, edit[e].change)]
  <2>1. edit[e] \in [pc : Trying, change : Change, text : Text] /\ edit[e].pc = "load"
    BY <1>1, <1>5, EditKinds DEF LoadFile, Trying
  <2>2. /\ Edited(edit[e].text, edit[e].change) \in Text
        /\ \/ Edited(edit[e].text, edit[e].change) = Torn
           \/ Has(Edited(edit[e].text, edit[e].change), edit[e].change)
    BY <2>1, EditedType DEF Has
  <2>3. r = NoEdit \/ /\ r.pc = "opencheck" /\ r.change = edit[e].change
                      /\ r.text = Edited(edit[e].text, edit[e].change)
    BY <2>1
  <2>4. r \in EditRec
    BY <2>1, <2>2 DEF EditRec, Trying
  <2>5. edit' = [edit EXCEPT ![e] = r] /\ UNCHANGED <<file, want, lastAck, overlap, failed>>
    BY <1>5 DEF LoadFile, ghostVars
  <2>6. edit[e] # NoEdit /\ edit[e].pc # "write" /\ r.pc # "write" /\ r.pc # "load"
    BY <2>1, <2>3 DEF NoEdit
  <2> HIDE DEF r
  <2>7. r = NoEdit \/ /\ r.text = Torn \/ Has(r.text, r.change)
                      /\ ~overlap /\ ~failed => r.text = Edited(want, r.change)
    BY <1>2, <2>1, <2>2, <2>3
  <2>8. QED
    BY <2>4, <2>5, <2>6, <2>7, TryingKeeps
<1>6. CASE OpenCheck(e) \/ WriteCheck(e) \/ LoadCheck(e) \/ RemoveCheck(e)
  <2>1. PICK r \in EditRec : edit' = [edit EXCEPT ![e] = r]
    BY EditorMoves DEF KeptInv
  <2>2. edit'[e] = r
    BY <1>1, <2>1
  <2>3. edit[e].pc \in Made /\ edit[e].pc # "write" /\ edit[e] # NoEdit
    BY <1>6 DEF OpenCheck, WriteCheck, LoadCheck, RemoveCheck, Made, NoEdit
  <2>4. r = NoEdit \/ /\ r.pc \in {"writecheck", "loadcheck", "remove", "truncate"}
                      /\ r.text = edit[e].text /\ r.change = edit[e].change
    <3>1. CASE OpenCheck(e) \/ WriteCheck(e)
      <4>1. edit[e] \in [pc : Trying, change : Change, text : Text]
        BY <1>1, <3>1, EditKinds DEF OpenCheck, WriteCheck, Trying
      <4>2. QED
        BY <1>1, <2>2, <3>1, <4>1 DEF OpenCheck, WriteCheck
    <3>2. CASE LoadCheck(e)
      BY <1>1, <2>2, <3>2 DEF LoadCheck
    <3>3. CASE RemoveCheck(e)
      BY <1>1, <2>2, <3>3 DEF RemoveCheck
    <3>4. QED
      BY <1>6, <3>1, <3>2, <3>3
  <2>5. UNCHANGED <<file, want, lastAck, overlap, failed>>
    BY <1>6 DEF OpenCheck, WriteCheck, LoadCheck, RemoveCheck, ghostVars
  <2>6. r = NoEdit \/ /\ r.text = Torn \/ Has(r.text, r.change)
                      /\ ~overlap /\ ~failed => r.text = Edited(want, r.change)
    BY <1>2, <2>3, <2>4
  <2>7. r.pc # "write" /\ r.pc # "load"
    BY <2>4, NotIdle
  <2>8. QED
    BY <2>1, <2>3, <2>5, <2>6, <2>7, TryingKeeps
<1>7. QED
  BY <1>3, <1>4, <1>5, <1>6, TruncateKeeps, WriteKeeps, FailKeeps DEF EditorStep

LEMMA KeptNext ==
  ASSUME KeptInv, [EditorsNext]_editorsVars
  PROVE  KeptInv'
<1>1. EditorsTypeOK'
  BY EditorsStepType DEF KeptInv
<1>2. CASE UNCHANGED editorsVars
  <2>1. UNCHANGED <<file, edit, want, lastAck, overlap, failed>>
    BY <1>2 DEF editorsVars, fileVars, ghostVars
  <2>2. QED
    BY <1>1, <2>1 DEF KeptInv, MadeInv, LastInv, AloneInv, NoWrite, Has, Edited
<1>3. QED
  BY <1>1, <1>2, EditorKeeps, CrashKeeps DEF EditorsNext

LEMMA KeptInit == EditorsInit => KeptInv
<1> SUFFICES ASSUME EditorsInit PROVE KeptInv
  OBVIOUS
<1>1. \A e \in Editor : edit[e] = NoEdit
  BY DEF EditorsInit
<1>2. \A e \in Editor : edit[e].pc \notin Made /\ edit[e].pc # "load" /\ edit[e].pc # "write"
  BY <1>1, NotIdle DEF Made
<1>3. Has(file, lastAck) /\ file = want
  BY DEF EditorsInit, Has, NoChange
<1>4. QED
  BY <1>1, <1>2, <1>3, EditorsInitType DEF KeptInv, MadeInv, LastInv, AloneInv

\* However the editors overlap, share path.check, fail or die, the file has what the last
\* acknowledged edit set, unless two writes have torn it; and an edit that overlapped no
\* other has lost nothing of what was there.
THEOREM EditsAreKept == EditorsSpec => []EditsKept
<1>1. KeptInv => EditsKept
  <2> SUFFICES ASSUME KeptInv, Quiet, ~failed
               PROVE  /\ file = Torn \/ Has(file, lastAck)
                      /\ ~overlap => file = want
    BY DEF EditsKept, Has
  <2>1. NoWrite
    BY NotIdle DEF Quiet, NoWrite
  <2>2. QED
    BY <2>1 DEF KeptInv, LastInv, AloneInv
<1>2. QED
  BY <1>1, KeptInit, KeptNext, PTL DEF EditorsSpec

-----------------------------------------------------------------------------
(* What is in force.                                                        *)

\* A reload that has read the file since its last change and since it was last asked for
\* has read what the file has.
AppliedInv ==
  /\ ReloadTypeOK /\ ReloadApplied
  /\ ~changed /\ hup = 0 /\ reload # NoReload => reload.text = file

LEMMA AppliedInit == ReloadInit => AppliedInv
<1> SUFFICES ASSUME ReloadInit PROVE AppliedInv
  OBVIOUS
<1>1. EditorsTypeOK /\ inForce = file /\ file \in Whole
  BY EditorsInitType DEF ReloadInit, EditorsInit
<1>2. hup = 0 /\ reload = NoReload /\ changed = FALSE
  BY DEF ReloadInit
<1>3. ReloadTypeOK
  <2>1. hup \in 0..1
    BY <1>2
  <2>2. changed \in BOOLEAN
    BY <1>2
  <2>3. reload \in {NoReload} /\ inForce \in Whole
    BY <1>1, <1>2
  <2>4. QED
    BY <1>1, <2>1, <2>2, <2>3 DEF ReloadTypeOK
<1>4. QED
  BY <1>1, <1>2, <1>3 DEF AppliedInv, ReloadApplied

LEMMA AppliedNext ==
  ASSUME AppliedInv, [ReloadNext]_reloadVars
  PROVE  AppliedInv'
<1>1. /\ EditorsTypeOK /\ hup \in 0..1 /\ inForce \in Whole /\ changed \in BOOLEAN
      /\ reload = NoReload \/ reload \in [pc : {"store"}, text : Whole]
      /\ file = Torn \/ file \in Whole
  BY DEF AppliedInv, ReloadTypeOK, EditorsTypeOK, Text
<1>2. EditorsTypeOK'
  <2>1. [EditorsNext]_editorsVars
    BY DEF ReloadNext, reloadVars, Edit, AskReload, ReloadReads, ReloadStores, Restart, EditorsNext
  <2>2. QED
    BY <1>1, <2>1, EditorsStepType
<1>3. UNCHANGED editorsVars => UNCHANGED file
  BY DEF editorsVars, fileVars
<1>4. NoReload \notin [pc : {"store"}, text : Whole]
  BY DEF NoReload
<1>5. CASE UNCHANGED reloadVars
  BY <1>2, <1>3, <1>5 DEF reloadVars, AppliedInv, ReloadTypeOK, ReloadApplied
<1>6. CASE Edit
  <2>1. UNCHANGED <<hup, reload, inForce>> /\ changed' \in BOOLEAN
        /\ (~changed' => ~changed /\ UNCHANGED file)
    BY <1>6 DEF Edit
  <2>2. QED
    BY <1>1, <1>2, <2>1 DEF AppliedInv, ReloadTypeOK, ReloadApplied
<1>7. CASE AskReload
  <2>1. hup' = 1 /\ changed' = FALSE /\ UNCHANGED <<reload, inForce>>
    BY <1>7 DEF AskReload
  <2>2. ReloadTypeOK'
    <3>1. hup' \in 0..1
      BY <2>1
    <3>2. changed' \in BOOLEAN
      BY <2>1
    <3>3. QED
      BY <1>1, <1>2, <2>1, <3>1, <3>2 DEF ReloadTypeOK
  <2>3. QED
    BY <2>1, <2>2 DEF AppliedInv, ReloadApplied
<1>8. CASE ReloadReads
  <2>1. UNCHANGED <<file, inForce, changed>> /\ hup' = 0
    BY <1>3, <1>8 DEF ReloadReads
  <2>2. CASE file = Torn
    BY <1>1, <1>2, <1>8, <2>1, <2>2 DEF ReloadReads, AppliedInv, ReloadTypeOK, ReloadApplied
  <2>3. CASE file # Torn
    <3>1. reload' = [pc |-> "store", text |-> file] /\ file \in Whole
      BY <1>1, <1>8, <2>3 DEF ReloadReads
    <3>2. reload' \in [pc : {"store"}, text : Whole] /\ reload'.text = file /\ reload' # NoReload
      BY <3>1 DEF NoReload
    <3>3. QED
      BY <1>1, <1>2, <2>1, <3>2 DEF AppliedInv, ReloadTypeOK, ReloadApplied
  <2>4. QED
    BY <2>2, <2>3
<1>9. CASE ReloadStores
  BY <1>1, <1>2, <1>3, <1>9 DEF ReloadStores, AppliedInv, ReloadTypeOK, ReloadApplied
<1>10. CASE Restart
  <2>1. UNCHANGED <<file, changed>> /\ hup' = 0 /\ reload' = NoReload /\ inForce' = file
        /\ file \in Whole
    BY <1>1, <1>10 DEF Restart, EditorsCrash
  <2>2. QED
    BY <1>1, <1>2, <2>1 DEF AppliedInv, ReloadTypeOK, ReloadApplied
<1>11. QED
  BY <1>5, <1>6, <1>7, <1>8, <1>9, <1>10 DEF ReloadNext

\* What is in force and what a reload holds is always a text that loads, whatever the
\* editors leave in the file.
THEOREM ReloadTypes == ReloadSpec => []ReloadTypeOK
<1>1. AppliedInv => ReloadTypeOK
  BY DEF AppliedInv
<1>2. QED
  BY <1>1, AppliedInit, AppliedNext, PTL DEF ReloadSpec

\* No request for a reload is lost, although signals that come during a reload are merged
\* into one: the one in the channel is taken after all of them were sent.
THEOREM ReloadIsApplied == ReloadSpec => []ReloadApplied
<1>1. AppliedInv => ReloadApplied
  BY DEF AppliedInv
<1>2. QED
  BY <1>1, AppliedInit, AppliedNext, PTL DEF ReloadSpec

-----------------------------------------------------------------------------
(* The relay and the reload in one composition.                             *)

\* A step of the whole is a step of one of the two, which leaves the other alone.
LEMMA OneMoves ==
  ASSUME [MCNext]_<<part, vars, reloadVars>>
  PROVE  [Next]_vars /\ [ReloadNext]_reloadVars
BY DEF MCNext

\* The composition implements both specifications, so that what is proved of one alone
\* holds of it beside the other.
THEOREM BothImplemented == MCSpec => Spec /\ ReloadSpec
<1>1. MCInit => Init /\ ReloadInit
  BY DEF MCInit
<1>2. QED
  BY <1>1, OneMoves, PTL DEF MCSpec, Spec, ReloadSpec

\* In the composition every variable of the two always has the values that its module
\* declares for it: in force, for one, is always a text that loads.
THEOREM RelayReloadTypes == MCSpec => []RelayReloadTypeOK
<1>1. TypeOK /\ ReloadTypeOK => RelayReloadTypeOK
  BY DEF RelayReloadTypeOK
<1>2. QED
  BY <1>1, BothImplemented, TypeCorrect, ReloadTypes, PTL
=============================================================================
