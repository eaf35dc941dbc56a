--------------------------- MODULE RoutingListener ---------------------------
(***************************************************************************)
(* The :443 listener of internal/server/server.go (routingListener) and    *)
(* the http.Server that serves it.  A background acceptor hands every raw  *)
(* connection to its own goroutine, which peeks at the SNI and splices the *)
(* connection to its origin or offers it to Accept; Accept is called in a  *)
(* loop by http.Server.ServeTLS.                                           *)
(***************************************************************************)
EXTENDS Naturals

CONSTANT Conn  \* connections

\* What Accept of the inner listener can fail with: an error net/http takes for
\* temporary (out of file descriptors), any other, or the listener being closed.
AcceptError == {"temporary", "permanent", "closed"}

VARIABLES inner,    \* the inner listener: "open" or "closed"
          done,     \* l.done is closed
          acceptor, \* acceptLoop: "accepting", "exited" or the error it reports
          errs,     \* l.errs, a channel of capacity 1: an error or "none"
          serve,    \* ServeTLS: "accept", "failing", or how it returned
          shutting, \* http.Server.inShutdown
          conn      \* what became of each connection

lvars == <<inner, done, acceptor, errs, serve, shutting, conn>>

ListenerTypeOK ==
  /\ inner \in {"open", "closed"}
  /\ done \in BOOLEAN /\ shutting \in BOOLEAN
  /\ acceptor \in {"accepting", "exited"} \cup AcceptError
  /\ errs \in {"none"} \cup AcceptError
  /\ serve \in {"accept", "failing", "failed", "closed"}
  /\ conn \in [Conn -> {"none", "peek", "ready", "delivered", "spliced", "closed"}]

ListenerInit ==
  /\ inner = "open" /\ done = FALSE /\ shutting = FALSE
  /\ acceptor = "accepting" /\ errs = "none" /\ serve = "accept"
  /\ conn = [c \in Conn |-> "none"]

-----------------------------------------------------------------------------
(* acceptLoop.                                                             *)

AcceptConn(c) ==
  /\ acceptor = "accepting" /\ inner = "open" /\ conn[c] = "none"
  /\ conn' = [conn EXCEPT ![c] = "peek"]
  /\ UNCHANGED <<inner, done, acceptor, errs, serve, shutting>>

AcceptFails(e) ==
  /\ acceptor = "accepting" /\ inner = "open" /\ e # "closed"
  /\ acceptor' = e
  /\ UNCHANGED <<inner, done, errs, serve, shutting, conn>>

AcceptSeesClose ==
  /\ acceptor = "accepting" /\ inner = "closed"
  /\ acceptor' = "closed"
  /\ UNCHANGED <<inner, done, errs, serve, shutting, conn>>

\* select { case l.errs <- err: case <-l.done: }; return
ReportError ==
  /\ acceptor \in AcceptError
  /\ acceptor' = "exited"
  /\ \/ errs = "none" /\ errs' = acceptor
     \/ done /\ UNCHANGED errs
  /\ UNCHANGED <<inner, done, serve, shutting, conn>>

-----------------------------------------------------------------------------
(* route: one goroutine per connection.  The peek has a deadline, so it     *)
(* ends; a passthrough domain is spliced, all else is offered to Accept.    *)

Peek(c) ==
  /\ conn[c] = "peek"
  /\ conn' = [conn EXCEPT ![c] = "spliced"] \/ conn' = [conn EXCEPT ![c] = "ready"]
  /\ UNCHANGED <<inner, done, acceptor, errs, serve, shutting>>

\* l.conns is unbuffered: the send meets ServeTLS waiting in Accept.
Deliver(c) ==
  /\ conn[c] = "ready" /\ serve = "accept"
  /\ conn' = [conn EXCEPT ![c] = "delivered"]
  /\ UNCHANGED <<inner, done, acceptor, errs, serve, shutting>>

\* Mutant: the send to l.conns does not watch l.done.
CloseReady_Missing(c) == FALSE /\ conn[c] = "ready" /\ UNCHANGED lvars

CloseReady(c) ==
  /\ conn[c] = "ready" /\ done
  /\ conn' = [conn EXCEPT ![c] = "closed"]
  /\ UNCHANGED <<inner, done, acceptor, errs, serve, shutting>>

Route(c) == Peek(c) \/ Deliver(c) \/ CloseReady(c)

-----------------------------------------------------------------------------
(* http.Server, as far as the listener sees it.                            *)

\* Accept returns an error: ErrServerClosed in shutdown, retried when temporary,
\* else ServeTLS closes the listener and returns it.
ServeError ==
  /\ serve = "accept" /\ errs # "none"
  /\ errs' = "none"
  /\ serve' = IF shutting THEN "closed"
              ELSE IF errs = "temporary" THEN "accept" ELSE "failing"
  /\ UNCHANGED <<inner, done, acceptor, shutting, conn>>

\* routingListener.Close: first l.done, then the inner listener.  Called by
\* Shutdown or by the returning ServeTLS; http.Server closes a listener once.
CloseSignal ==
  /\ shutting \/ serve = "failing"
  /\ ~done
  /\ done' = TRUE
  /\ UNCHANGED <<inner, acceptor, errs, serve, shutting, conn>>

CloseInner ==
  /\ done /\ inner = "open"
  /\ inner' = "closed"
  /\ UNCHANGED <<done, acceptor, errs, serve, shutting, conn>>

ServeReturns ==
  /\ serve = "failing" /\ inner = "closed"
  /\ serve' = "failed"
  /\ UNCHANGED <<inner, done, acceptor, errs, shutting, conn>>

BeginShutdown ==
  /\ ~shutting
  /\ shutting' = TRUE
  /\ UNCHANGED <<inner, done, acceptor, errs, serve, conn>>

-----------------------------------------------------------------------------
ListenerStep ==
  \/ \E c \in Conn : AcceptConn(c) \/ Route(c)
  \/ \E e \in AcceptError : AcceptFails(e)
  \/ AcceptSeesClose \/ ReportError
  \/ ServeError \/ ServeReturns
  \/ CloseSignal \/ CloseInner

-----------------------------------------------------------------------------
(* Properties.                                                             *)

\* The listener has a step ahead that is nobody's choice: it is being closed, the
\* acceptor has an error to see or to report, or ServeTLS one to take or to return.
ListenerMoves ==
  \/ (shutting \/ serve = "failing") /\ (~done \/ inner = "open")
  \/ acceptor = "accepting" /\ inner = "closed"
  \/ acceptor \in AcceptError /\ (errs = "none" \/ done)
  \/ serve = "accept" /\ errs # "none"
  \/ serve = "failing" /\ inner = "closed"

\* A goroutine that offers its connection is not forgotten: either Accept still comes,
\* or the listener is closed, or whoever made ServeTLS leave its loop is about to close
\* it; and the acceptor, which leaves one error, finds the channel for it empty.
OffersHaveEnd ==
  /\ \A c \in Conn : conn[c] = "ready" => serve = "accept" \/ done \/ ListenerMoves
  /\ acceptor \in AcceptError => errs = "none"

\* No connection is left hanging: one that was accepted is eventually served,
\* spliced or closed, also when the listener is closed, or fails, while its
\* goroutine is still peeking or waits for an Accept that never comes.
ConnsResolved ==
  \A c \in Conn :
    conn[c] \in {"peek", "ready"} ~> conn[c] \in {"delivered", "spliced", "closed"}

=============================================================================
