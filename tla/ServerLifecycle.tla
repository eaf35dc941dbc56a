--------------------------- MODULE ServerLifecycle ---------------------------
(***************************************************************************)
(* Server.Run of internal/server/server.go: the goroutines it starts and   *)
(* waits for, the channel on which they report, the select loop and the    *)
(* drain.  The :443 server and its listener are those of RoutingListener.   *)
(*                                                                         *)
(* Startup has succeeded: a bind that fails makes Run return, and with it   *)
(* the process, before the loop is reached.  A reload (SIGHUP) leaves all   *)
(* of this state alone.  What Run returns and what it tells the health      *)
(* endpoint and systemd are left out.                                       *)
(***************************************************************************)
EXTENDS RoutingListener, Sequences

CONSTANTS Plain,        \* the plain-HTTP servers that are configured
          HasTLS,       \* an intermediate CA is loaded, so :443 is served
          HasQUIC,      \* protocols.quic
          HasScheduler  \* agh_managed_rewrites.scheduler.enabled

ASSUME SwitchAssumption ==
  /\ HasTLS \in BOOLEAN /\ HasQUIC \in BOOLEAN /\ HasScheduler \in BOOLEAN
  /\ HasQUIC => HasTLS
  /\ Plain \subseteq {"http", "admin"}

\* The goroutines counted by the WaitGroup.
Task == Plain \cup {"obs"}
              \cup (IF HasTLS THEN {"tls"} ELSE {})
              \cup (IF HasQUIC THEN {"quic"} ELSE {})
              \cup (IF HasScheduler THEN {"scheduler"} ELSE {})

FatalCap == 4

VARIABLES main,    \* Run: "select", steps of drain, "returned"
          ctxDone, \* SIGTERM or SIGINT was received
          task,    \* each goroutine: "running", "nil"/"err" (sending it), "done"
          fatal,   \* the channel, a sequence of "nil" and "err"
          stopped  \* the servers that were told to shut down

svars == <<main, ctxDone, task, fatal, stopped>>
vars  == <<svars, lvars>>

TypeOK ==
  /\ ListenerTypeOK
  /\ main \in {"select", "quic", "shutdown", "wait", "returned"}
  /\ ctxDone \in BOOLEAN
  /\ task \in [Task -> {"running", "nil", "err", "done"}]
  /\ fatal \in Seq({"nil", "err"}) /\ Len(fatal) <= FatalCap
  /\ stopped \subseteq Task

Init ==
  /\ ListenerInit
  /\ main = "select"
  /\ ctxDone = FALSE
  /\ task = [t \in Task |-> "running"]
  /\ fatal = <<>>
  /\ stopped = {}

-----------------------------------------------------------------------------
(* The goroutines.                                                         *)

Becomes(t, status) == task' = [task EXCEPT ![t] = status]

\* A listener fails while it serves: :80, the admin UI or health/metrics.
ListenerFails(t) ==
  /\ t \in (Plain \cup {"obs"}) \ stopped
  /\ task[t] = "running"
  /\ Becomes(t, "err")
  /\ UNCHANGED <<main, ctxDone, fatal, stopped, lvars>>

\* Mutant: ErrServerClosed is passed on as it is.
PlainCloses_Reports(t) ==
  /\ t \in Plain \cap stopped
  /\ task[t] = "running"
  /\ Becomes(t, "ErrServerClosed")
  /\ UNCHANGED <<main, ctxDone, fatal, stopped, lvars>>

\* http.Server.Serve returns ErrServerClosed, which is not reported.
PlainCloses(t) ==
  /\ t \in Plain \cap stopped
  /\ task[t] = "running"
  /\ Becomes(t, "done")
  /\ UNCHANGED <<main, ctxDone, fatal, stopped, lvars>>

\* obs.Start returns on the context only: nil, or the 5 s deadline exceeded.
ObsStops ==
  /\ ctxDone /\ task["obs"] = "running"
  /\ Becomes("obs", "nil") \/ Becomes("obs", "err")
  /\ UNCHANGED <<main, ctxDone, fatal, stopped, lvars>>

SchedulerStops ==
  /\ HasScheduler
  /\ ctxDone /\ task["scheduler"] = "running"
  /\ Becomes("scheduler", "done")
  /\ UNCHANGED <<main, ctxDone, fatal, stopped, lvars>>

\* ServeTLS has returned: ErrServerClosed is dropped, another error reported.
TLSReturns ==
  /\ HasTLS
  /\ task["tls"] = "running" /\ serve \in {"closed", "failed"}
  /\ Becomes("tls", IF serve = "closed" THEN "done" ELSE "err")
  /\ UNCHANGED <<main, ctxDone, fatal, stopped, lvars>>

\* fatal <- err, which waits for room in the channel.
SendFatal(t) ==
  /\ task[t] \in {"nil", "err"}
  /\ Len(fatal) < FatalCap
  /\ fatal' = Append(fatal, task[t])
  /\ Becomes(t, "done")
  /\ UNCHANGED <<main, ctxDone, stopped, lvars>>

\* The QUIC server's Serve returns an error when it fails and when it is closed;
\* it is reported without waiting for room.
QUICReturns ==
  /\ HasQUIC /\ task["quic"] = "running"
  /\ fatal' = IF Len(fatal) < FatalCap THEN Append(fatal, "err") ELSE fatal
  /\ Becomes("quic", "done")
  /\ UNCHANGED <<main, ctxDone, stopped, lvars>>

-----------------------------------------------------------------------------
(* Run: the select loop and drain.                                         *)

Signal ==
  /\ ~ctxDone
  /\ ctxDone' = TRUE
  /\ UNCHANGED <<main, task, fatal, stopped, lvars>>

SelectContext ==
  /\ main = "select" /\ ctxDone
  /\ main' = "quic"
  /\ UNCHANGED <<ctxDone, task, fatal, stopped, lvars>>

SelectFatal ==
  /\ main = "select" /\ fatal # <<>>
  /\ fatal' = Tail(fatal)
  /\ main' = IF Head(fatal) = "err" THEN "quic" ELSE "select"
  /\ UNCHANGED <<ctxDone, task, stopped, lvars>>

\* Mutant: the QUIC server is not closed.
DrainQUIC_Skipped ==
  /\ main = "quic"
  /\ main' = "shutdown"
  /\ UNCHANGED <<ctxDone, task, fatal, stopped, lvars>>

\* quicCloser, when QUIC was started.
DrainQUIC ==
  /\ main = "quic"
  /\ main' = "shutdown"
  /\ stopped' = stopped \cup (Task \cap {"quic"})
  /\ UNCHANGED <<ctxDone, task, fatal, lvars>>

\* Mutant: the admin server is not among those to be shut down.
Servers_NoAdmin == <<"http", "tls">>

\* In the order in which they are started, those that are configured.
Servers == <<"http", "tls", "admin">>

\* The places in that order whose servers were not yet told.
Running == {k \in DOMAIN Servers : Servers[k] \in Task \ stopped}

\* The Shutdown of the :443 server has closed the listener; waiting for connections
\* ends with the 15 s deadline at the latest.
ShutdownReturned == "tls" \in stopped => inner = "closed"

\* srv.Shutdown of one server after the other.
DrainServer ==
  /\ main = "shutdown" /\ ShutdownReturned
  /\ \E k \in Running :
       /\ \A j \in Running : k <= j
       /\ stopped' = stopped \cup {Servers[k]}
       /\ IF Servers[k] = "tls" THEN BeginShutdown ELSE UNCHANGED lvars
  /\ UNCHANGED <<main, ctxDone, task, fatal>>

DrainWait ==
  /\ main = "shutdown" /\ Running = {} /\ ShutdownReturned
  /\ main' = "wait"
  /\ UNCHANGED <<ctxDone, task, fatal, stopped, lvars>>

\* wg.Wait, then Run returns.
Return ==
  /\ main = "wait" /\ \A t \in Task : task[t] = "done"
  /\ main' = "returned"
  /\ UNCHANGED <<ctxDone, task, fatal, stopped, lvars>>

-----------------------------------------------------------------------------
TLSListener == HasTLS /\ ListenerStep /\ UNCHANGED svars

MainStep == SelectContext \/ SelectFatal \/ DrainQUIC
              \/ DrainServer \/ DrainWait \/ Return

Next ==
  \/ Signal \/ MainStep
  \/ \E t \in Task : ListenerFails(t) \/ PlainCloses(t) \/ SendFatal(t)
  \/ ObsStops \/ SchedulerStops \/ TLSReturns \/ QUICReturns
  \/ TLSListener

\* Goroutines that can run do run: Go's scheduler is fair, and each wait in them
\* is bounded by a deadline.  Signals, clients and listener errors are not owed.
Fairness ==
  /\ WF_vars(MainStep)
  /\ \A t \in Task : WF_vars(PlainCloses(t)) /\ WF_vars(SendFatal(t))
  /\ WF_vars(ObsStops) /\ WF_vars(SchedulerStops) /\ WF_vars(TLSReturns)
  /\ WF_vars(QUICReturns /\ "quic" \in stopped)
  /\ \A c \in Conn : WF_vars(HasTLS /\ Route(c) /\ UNCHANGED svars)
  /\ WF_vars(HasTLS /\ AcceptSeesClose /\ UNCHANGED svars)
  /\ WF_vars(HasTLS /\ ReportError /\ UNCHANGED svars)
  /\ WF_vars(HasTLS /\ (ServeError \/ ServeReturns) /\ UNCHANGED svars)
  /\ WF_vars(HasTLS /\ (CloseSignal \/ CloseInner) /\ UNCHANGED svars)

Spec == Init /\ [][Next]_vars /\ Fairness

-----------------------------------------------------------------------------
(* Properties.                                                             *)

\* Graceful shutdown ends: after SIGTERM, Run drains and returns, whichever
\* listeners fail before or during the drain.
ShutdownCompletes == ctxDone ~> main = "returned"

\* ServeTLS waits in Accept, and the acceptor has gone without leaving an error.
AcceptStranded == serve = "accept" /\ acceptor = "exited" /\ errs = "none"

\* Nobody reads the reports any more, and there is no room for another.
ReportsFull == main \in {"shutdown", "wait"} /\ Len(fatal) = FatalCap

\* There are two ways only for the drain not to end: an Accept that the acceptor
\* left without its error, and a report channel that is full when the drain begins.
DrainEnds == ctxDone ~> main = "returned" \/ AcceptStranded \/ ReportsFull

\* A goroutine has a step ahead that nothing holds up: it was told to end, or it has a
\* report to send and there is room.
TaskMoves(t) ==
  \/ t \in (Plain \cup {"quic"}) \cap stopped /\ task[t] = "running"
  \/ t \in {"obs", "scheduler"} /\ ctxDone /\ task[t] = "running"
  \/ t = "tls" /\ task[t] = "running" /\ serve \in {"closed", "failed"}
  \/ task[t] \in {"nil", "err"} /\ Len(fatal) < FatalCap

\* The drain is never a deadlock: until Run has returned, it or one of those it waits
\* for has a step ahead, in the two cases of DrainEnds excepted. It waits for nobody
\* that it has not told to end, and for no listener that is not being closed.
DrainGoesOn ==
  ctxDone /\ main # "returned" =>
    \/ main \in {"select", "quic"} \/ (main = "shutdown" /\ ShutdownReturned)
    \/ main = "wait" /\ \A t \in Task : task[t] = "done"
    \/ \E t \in Task : TaskMoves(t)
    \/ HasTLS /\ ListenerMoves
    \/ AcceptStranded \/ ReportsFull

\* The channel has room for a report of each goroutine that waits to send one: it is
\* found full only when the QUIC server, which does not wait, has taken a place.
ReportsFit ==
  \A t \in Task : task[t] \in {"nil", "err"} /\ Len(fatal) = FatalCap =>
    HasQUIC /\ task["quic"] = "done"

\* Nobody in the life of Run waits for what cannot come: not the goroutines to report, nor
\* the drain for them, nor whoever offers a connection to Accept.
NeverStuck == ReportsFit /\ DrainGoesOn /\ OffersHaveEnd

=============================================================================
