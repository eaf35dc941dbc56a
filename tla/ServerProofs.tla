----------------------------- MODULE ServerProofs -----------------------------
(***************************************************************************)
(* Proofs about the life of Server.Run (ServerLifecycle) and of its :443     *)
(* listener (RoutingListener), for any connections and whichever servers are *)
(* configured: the goroutines find room for their reports, and neither the   *)
(* drain nor whoever offers a connection is ever in a deadlock.              *)
(***************************************************************************)
EXTENDS ServerLifecycle, TLAPS

-----------------------------------------------------------------------------
(* The life of Server.Run: types.                                           *)

\* The :443 listener keeps its types with each of its steps.
LEMMA ListenerStepType ==
  ASSUME ListenerTypeOK, ListenerStep
  PROVE  ListenerTypeOK'
<1> USE DEF ListenerTypeOK, AcceptError
<1>1. ASSUME NEW c \in Conn, AcceptConn(c) PROVE ListenerTypeOK'
  BY <1>1 DEF AcceptConn
<1>2. ASSUME NEW c \in Conn, Route(c) PROVE ListenerTypeOK'
  BY <1>2 DEF Route, Peek, Deliver, CloseReady
<1>3. ASSUME NEW e \in AcceptError, AcceptFails(e) PROVE ListenerTypeOK'
  BY <1>3 DEF AcceptFails
<1>4. CASE AcceptSeesClose \/ ReportError
  BY <1>4 DEF AcceptSeesClose, ReportError
<1>5. CASE ServeError \/ ServeReturns
  BY <1>5 DEF ServeError, ServeReturns
<1>6. CASE CloseSignal \/ CloseInner
  BY <1>6 DEF CloseSignal, CloseInner
<1>7. QED
  BY <1>1, <1>2, <1>3, <1>4, <1>5, <1>6 DEF ListenerStep

\* Only the goroutines that report an error wait to send it.
Reporter == Plain \cup {"obs", "tls"}

\* What of fatal and task the reports rest on.
ReportTyped ==
  /\ TypeOK
  /\ \A t \in Task : task[t] \in {"nil", "err"} => t \in Reporter

LEMMA LifecycleInitType == Init => ReportTyped
<1>1. <<>> \in Seq({"nil", "err"}) /\ Len(<<>>) <= FatalCap
  BY DEF FatalCap
<1>2. QED
  BY <1>1 DEF Init, ReportTyped, TypeOK, ListenerInit, ListenerTypeOK

\* A goroutine takes a new status.
LEMMA BecomesType ==
  ASSUME ReportTyped, NEW t \in Task, NEW status \in {"running", "nil", "err", "done"},
         status \in {"nil", "err"} => t \in Reporter, Becomes(t, status),
         UNCHANGED <<main, ctxDone, fatal, stopped, lvars>>
  PROVE  ReportTyped'
<1>1. UNCHANGED <<inner, done, acceptor, errs, serve, shutting, conn>>
  BY DEF lvars
<1>2. ListenerTypeOK'
  BY <1>1 DEF ReportTyped, TypeOK, ListenerTypeOK
<1>3. task' \in [Task -> {"running", "nil", "err", "done"}]
  BY DEF ReportTyped, TypeOK, Becomes
<1>4. \A u \in Task : task'[u] \in {"nil", "err"} => u \in Reporter
  BY DEF ReportTyped, TypeOK, Becomes
<1>5. QED
  BY <1>2, <1>3, <1>4 DEF ReportTyped, TypeOK

\* A step of Run, which leaves the goroutines alone.
LEMMA MainType ==
  ASSUME ReportTyped, MainStep
  PROVE  ReportTyped'
<1> USE DEF ReportTyped, TypeOK, ListenerTypeOK, lvars
<1>1. CASE SelectContext
  BY <1>1 DEF SelectContext
<1>2. CASE SelectFatal
  <2>1. fatal \in Seq({"nil", "err"}) /\ fatal # <<>> /\ Len(fatal) <= FatalCap
    BY <1>2 DEF SelectFatal
  <2>2. Tail(fatal) \in Seq({"nil", "err"}) /\ Len(Tail(fatal)) = Len(fatal) - 1
    BY <2>1
  <2>3. fatal' \in Seq({"nil", "err"}) /\ Len(fatal') <= FatalCap
    BY <1>2, <2>1, <2>2 DEF SelectFatal, FatalCap
  <2>4. QED
    BY <1>2, <2>3 DEF SelectFatal
<1>3. CASE DrainQUIC
  BY <1>3 DEF DrainQUIC
<1>4. CASE DrainServer
  <2>1. PICK k \in Running : /\ stopped' = stopped \cup {Servers[k]}
                             /\ IF Servers[k] = "tls" THEN BeginShutdown ELSE UNCHANGED lvars
    BY <1>4 DEF DrainServer
  <2>2. Servers[k] \in Task
    BY DEF Running
  <2>3. ListenerTypeOK'
    BY <2>1 DEF BeginShutdown
  <2>4. QED
    BY <1>4, <2>1, <2>2, <2>3 DEF DrainServer
<1>5. CASE DrainWait
  BY <1>5 DEF DrainWait
<1>6. CASE Return
  BY <1>6 DEF Return
<1>7. QED
  BY <1>1, <1>2, <1>3, <1>4, <1>5, <1>6 DEF MainStep

LEMMA LifecycleNextType ==
  ASSUME ReportTyped, [Next]_vars
  PROVE  ReportTyped'
<1>1. "obs" \in Task /\ Plain \subseteq Task
  BY DEF Task
<1>2. CASE UNCHANGED vars
  BY <1>2 DEF ReportTyped, TypeOK, ListenerTypeOK, vars, svars, lvars
<1>3. CASE Signal
  BY <1>3 DEF Signal, ReportTyped, TypeOK, ListenerTypeOK, lvars
<1>4. ASSUME NEW t \in Task, ListenerFails(t) PROVE ReportTyped'
  BY <1>4, BecomesType DEF ListenerFails, Reporter
<1>5. ASSUME NEW t \in Task, PlainCloses(t) PROVE ReportTyped'
  BY <1>5, BecomesType DEF PlainCloses
<1>6. ASSUME NEW t \in Task, SendFatal(t) PROVE ReportTyped'
  <2>1. fatal \in Seq({"nil", "err"}) /\ Len(fatal) < FatalCap /\ task[t] \in {"nil", "err"}
    BY <1>6 DEF SendFatal, ReportTyped, TypeOK
  <2>2. fatal' \in Seq({"nil", "err"}) /\ Len(fatal') = Len(fatal) + 1
    BY <1>6, <2>1 DEF SendFatal
  <2>3. Len(fatal') <= FatalCap
    BY <2>1, <2>2 DEF FatalCap
  <2>4. task' \in [Task -> {"running", "nil", "err", "done"}]
    BY <1>6 DEF SendFatal, Becomes, ReportTyped, TypeOK
  <2>5. \A u \in Task : task'[u] \in {"nil", "err"} => u \in Reporter
    BY <1>6 DEF SendFatal, Becomes, ReportTyped, TypeOK
  <2>6. QED
    BY <1>6, <2>2, <2>3, <2>4, <2>5
    DEF SendFatal, ReportTyped, TypeOK, ListenerTypeOK, lvars
<1>7. CASE ObsStops
  BY <1>1, <1>7, BecomesType DEF ObsStops, Reporter
<1>8. CASE SchedulerStops
  BY <1>8, BecomesType DEF SchedulerStops, Task
<1>9. CASE TLSReturns
  BY <1>9, BecomesType DEF TLSReturns, Task, Reporter
<1>10. CASE QUICReturns
  <2>1. "quic" \in Task
    BY <1>10 DEF QUICReturns, Task
  <2>2. fatal \in Seq({"nil", "err"}) /\ Len(fatal) <= FatalCap
    BY DEF ReportTyped, TypeOK
  <2>3. fatal' \in Seq({"nil", "err"}) /\ Len(fatal') <= FatalCap
    BY <1>10, <2>2 DEF QUICReturns, FatalCap
  <2>4. QED
    BY <1>10, <2>1, <2>3 DEF QUICReturns, Becomes, ReportTyped, TypeOK, ListenerTypeOK, lvars
<1>11. CASE TLSListener
  BY <1>11, ListenerStepType DEF TLSListener, ReportTyped, TypeOK, svars
<1>12. QED
  BY <1>2, <1>3, <1>4, <1>5, <1>6, <1>7, <1>8, <1>9, <1>10, <1>11, MainType DEF Next

\* The state of the listener, of the goroutines and of the channel is always one that
\* Run is written for: the channel never holds more than its four reports.
THEOREM LifecycleTypes == Spec => []TypeOK
<1>1. ReportTyped => TypeOK
  BY DEF ReportTyped
<1>2. QED
  BY <1>1, LifecycleInitType, LifecycleNextType, PTL DEF Spec

-----------------------------------------------------------------------------
(* There is room for the reports of those who wait to send one: whatever is *)
(* in the channel, its sender is done, and there are four besides QUIC.     *)

\* The goroutines that have sent a report at most once each and are done.
Finished(status, t) == IF t \in Task /\ status[t] = "done" THEN 1 ELSE 0

\* How many of those that may report are done.
FinishedCount(status) ==
  Finished(status, "http") + Finished(status, "admin") + Finished(status, "obs")
    + Finished(status, "tls") + Finished(status, "quic")

FitInv == ReportTyped /\ Len(fatal) <= FinishedCount(task)

LEMMA SumGrows ==
  ASSUME NEW a \in Nat, NEW b \in Nat, NEW c \in Nat, NEW d \in Nat, NEW e \in Nat,
         NEW v \in Nat, NEW w \in Nat, NEW x \in Nat, NEW y \in Nat, NEW z \in Nat
  PROVE  /\ a + b + c + d + e \in Nat
         /\ a <= v /\ b <= w /\ c <= x /\ d <= y /\ e <= z
              => a + b + c + d + e <= v + w + x + y + z
         /\ v = a + 1 => v + b + c + d + e = a + b + c + d + e + 1
         /\ w = b + 1 => a + w + c + d + e = a + b + c + d + e + 1
         /\ x = c + 1 => a + b + x + d + e = a + b + c + d + e + 1
         /\ y = d + 1 => a + b + c + y + e = a + b + c + d + e + 1
         /\ z = e + 1 => a + b + c + d + z = a + b + c + d + e + 1
OBVIOUS

\* A goroutine that is done stays done, so that the count never falls; and it grows
\* with a goroutine that comes to its end.
LEMMA CountMoves ==
  ASSUME NEW old, NEW new, NEW t,
         \A u : u # t => Finished(new, u) = Finished(old, u),
         Finished(old, t) <= Finished(new, t)
  PROVE  /\ FinishedCount(old) <= FinishedCount(new)
         /\ Finished(new, t) = Finished(old, t) + 1
                /\ t \in {"http", "admin", "obs", "tls", "quic"} =>
              FinishedCount(new) = FinishedCount(old) + 1
<1>1. ASSUME NEW u
      PROVE  Finished(old, u) \in Nat /\ Finished(new, u) \in Nat
  BY DEF Finished
<1>2. /\ Finished(old, "http") \in Nat /\ Finished(old, "admin") \in Nat
      /\ Finished(old, "obs") \in Nat /\ Finished(old, "tls") \in Nat
      /\ Finished(old, "quic") \in Nat
  BY <1>1
<1>3. CASE t = "http"
  <2>1. /\ Finished(new, "admin") = Finished(old, "admin")
        /\ Finished(new, "obs") = Finished(old, "obs")
        /\ Finished(new, "tls") = Finished(old, "tls")
        /\ Finished(new, "quic") = Finished(old, "quic")
    BY <1>3
  <2>2. QED
    BY <1>1, <1>2, <1>3, <2>1, SumGrows DEF FinishedCount
<1>4. CASE t = "admin"
  <2>1. /\ Finished(new, "http") = Finished(old, "http")
        /\ Finished(new, "obs") = Finished(old, "obs")
        /\ Finished(new, "tls") = Finished(old, "tls")
        /\ Finished(new, "quic") = Finished(old, "quic")
    BY <1>4
  <2>2. QED
    BY <1>1, <1>2, <1>4, <2>1, SumGrows DEF FinishedCount
<1>5. CASE t = "obs"
  <2>1. /\ Finished(new, "http") = Finished(old, "http")
        /\ Finished(new, "admin") = Finished(old, "admin")
        /\ Finished(new, "tls") = Finished(old, "tls")
        /\ Finished(new, "quic") = Finished(old, "quic")
    BY <1>5
  <2>2. QED
    BY <1>1, <1>2, <1>5, <2>1, SumGrows DEF FinishedCount
<1>6. CASE t = "tls"
  <2>1. /\ Finished(new, "http") = Finished(old, "http")
        /\ Finished(new, "admin") = Finished(old, "admin")
        /\ Finished(new, "obs") = Finished(old, "obs")
        /\ Finished(new, "quic") = Finished(old, "quic")
    BY <1>6
  <2>2. QED
    BY <1>1, <1>2, <1>6, <2>1, SumGrows DEF FinishedCount
<1>7. CASE t = "quic"
  <2>1. /\ Finished(new, "http") = Finished(old, "http")
        /\ Finished(new, "admin") = Finished(old, "admin")
        /\ Finished(new, "obs") = Finished(old, "obs")
        /\ Finished(new, "tls") = Finished(old, "tls")
    BY <1>7
  <2>2. QED
    BY <1>1, <1>2, <1>7, <2>1, SumGrows DEF FinishedCount
<1>8. CASE t \notin {"http", "admin", "obs", "tls", "quic"}
  <2>1. /\ Finished(new, "http") = Finished(old, "http")
        /\ Finished(new, "admin") = Finished(old, "admin")
        /\ Finished(new, "obs") = Finished(old, "obs")
        /\ Finished(new, "tls") = Finished(old, "tls")
        /\ Finished(new, "quic") = Finished(old, "quic")
    BY <1>8
  <2>2. QED
    BY <1>2, <1>8, <2>1, SumGrows DEF FinishedCount
<1>9. QED
  BY <1>3, <1>4, <1>5, <1>6, <1>7, <1>8

LEMMA CountRange ==
  ASSUME NEW status
  PROVE  FinishedCount(status) \in Nat
<1>1. ASSUME NEW u PROVE Finished(status, u) \in {0, 1}
  BY DEF Finished
<1>2. /\ Finished(status, "http") \in {0, 1} /\ Finished(status, "admin") \in {0, 1}
      /\ Finished(status, "obs") \in {0, 1} /\ Finished(status, "tls") \in {0, 1}
      /\ Finished(status, "quic") \in {0, 1}
  BY <1>1
<1>3. QED
  BY <1>2 DEF FinishedCount

LEMMA FitSame ==
  ASSUME FitInv, ReportTyped', UNCHANGED task, Len(fatal') <= Len(fatal)
  PROVE  FitInv'
<1>1. Len(fatal) \in Nat /\ Len(fatal') \in Nat
  BY DEF FitInv, ReportTyped, TypeOK
<1>2. FinishedCount(task) \in Nat /\ FinishedCount(task') = FinishedCount(task)
  BY CountRange DEF FinishedCount, Finished
<1>3. QED
  BY <1>1, <1>2 DEF FitInv

LEMMA FitBecomes ==
  ASSUME FitInv, ReportTyped', NEW t \in Task, NEW status \in {"running", "nil", "err", "done"},
         task[t] # "done", Becomes(t, status),
         \/ Len(fatal') <= Len(fatal)
         \/ /\ status = "done" /\ t \in {"http", "admin", "obs", "tls", "quic"}
            /\ Len(fatal') = Len(fatal) + 1
  PROVE  FitInv'
<1>1. Len(fatal) \in Nat /\ Len(fatal') \in Nat
  BY DEF FitInv, ReportTyped, TypeOK
<1>2. task \in [Task -> {"running", "nil", "err", "done"}]
  BY DEF FitInv, ReportTyped, TypeOK
<1>3. task' = [task EXCEPT ![t] = status]
  BY DEF Becomes
<1>4. /\ FinishedCount(task) <= FinishedCount(task')
      /\ status = "done" /\ t \in {"http", "admin", "obs", "tls", "quic"} =>
           FinishedCount(task') = FinishedCount(task) + 1
  <2>1. \A u : u # t => Finished(task', u) = Finished(task, u)
    BY <1>2, <1>3 DEF Finished
  <2>2. /\ Finished(task, t) = 0
        /\ Finished(task', t) = IF status = "done" THEN 1 ELSE 0
    BY <1>2, <1>3 DEF Finished
  <2>3. QED
    BY <2>1, <2>2, CountMoves
<1>5. FinishedCount(task) \in Nat /\ FinishedCount(task') \in Nat
  BY CountRange
<1>6. Len(fatal') <= FinishedCount(task')
  BY <1>1, <1>4, <1>5 DEF FitInv
<1>7. QED
  BY <1>6 DEF FitInv

LEMMA FitNext ==
  ASSUME FitInv, [Next]_vars
  PROVE  FitInv'
<1>1. ReportTyped'
  BY LifecycleNextType DEF FitInv
<1>2. Len(fatal) \in Nat /\ fatal \in Seq({"nil", "err"})
  BY DEF FitInv, ReportTyped, TypeOK
<1>3. UNCHANGED fatal => Len(fatal') <= Len(fatal)
  BY <1>2
<1>4. CASE UNCHANGED <<task, fatal>>
  BY <1>1, <1>3, <1>4, FitSame
<1>5. CASE UNCHANGED vars \/ Signal \/ TLSListener
  BY <1>4, <1>5 DEF vars, svars, Signal, TLSListener
<1>6. CASE MainStep
  <2>1. UNCHANGED task
    BY <1>6 DEF MainStep, SelectContext, SelectFatal, DrainQUIC, DrainServer, DrainWait, Return
  <2>2. CASE SelectFatal
    <3>1. fatal # <<>> /\ fatal' = Tail(fatal)
      BY <2>2 DEF SelectFatal
    <3>2. Len(fatal') <= Len(fatal)
      BY <1>2, <3>1
    <3>3. QED
      BY <1>1, <2>1, <3>2, FitSame
  <2>3. CASE ~SelectFatal
    BY <1>4, <1>6, <2>3
    DEF MainStep, SelectContext, DrainQUIC, DrainServer, DrainWait, Return
  <2>4. QED
    BY <2>2, <2>3
<1>7. ASSUME NEW t \in Task, ListenerFails(t) \/ PlainCloses(t) PROVE FitInv'
  <2>1. PICK status \in {"err", "done"} : Becomes(t, status)
    BY <1>7 DEF ListenerFails, PlainCloses
  <2>2. UNCHANGED fatal /\ task[t] # "done"
    BY <1>7 DEF ListenerFails, PlainCloses
  <2>3. QED
    BY <1>1, <1>3, <2>1, <2>2, FitBecomes
<1>8. ASSUME NEW t \in Task, SendFatal(t) PROVE FitInv'
  <2>1. t \in {"http", "admin", "obs", "tls", "quic"}
    BY <1>8, SwitchAssumption DEF SendFatal, FitInv, ReportTyped, Reporter
  <2>2. Len(fatal') = Len(fatal) + 1
    BY <1>2, <1>8 DEF SendFatal
  <2>3. QED
    BY <1>1, <1>8, <2>1, <2>2, FitBecomes DEF SendFatal
<1>9. CASE ObsStops
  <2>1. "obs" \in Task
    BY DEF Task
  <2>2. PICK status \in {"nil", "err"} : Becomes("obs", status)
    BY <1>9 DEF ObsStops
  <2>3. QED
    BY <1>1, <1>3, <1>9, <2>1, <2>2, FitBecomes DEF ObsStops
<1>10. CASE SchedulerStops
  <2>1. "scheduler" \in Task
    BY <1>10 DEF SchedulerStops, Task
  <2>2. QED
    BY <1>1, <1>3, <1>10, <2>1, FitBecomes DEF SchedulerStops
<1>11. CASE TLSReturns
  <2>1. "tls" \in Task
    BY <1>11 DEF TLSReturns, Task
  <2>2. PICK status \in {"done", "err"} : Becomes("tls", status)
    BY <1>11 DEF TLSReturns
  <2>3. QED
    BY <1>1, <1>3, <1>11, <2>1, <2>2, FitBecomes DEF TLSReturns
<1>12. CASE QUICReturns
  <2>1. "quic" \in Task
    BY <1>12 DEF QUICReturns, Task
  <2>2. Len(fatal') = Len(fatal) + 1 \/ Len(fatal') <= Len(fatal)
    BY <1>2, <1>12 DEF QUICReturns
  <2>3. QED
    BY <1>1, <1>12, <2>1, <2>2, FitBecomes DEF QUICReturns
<1>13. QED
  BY <1>5, <1>6, <1>7, <1>8, <1>9, <1>10, <1>11, <1>12 DEF Next

\* A listener's goroutine that has an error to report finds room for it, so that it ends
\* and the drain does not wait for it: of the four that may wait, one is not done, so
\* the others have sent three; only the QUIC server's report, which does not wait, can
\* take the last place.
THEOREM ReportsAlwaysFit == Spec => []ReportsFit
<1>1. Init => FitInv
  <2>1. Init => Len(fatal) = 0
    BY DEF Init
  <2>2. \A u : Finished(task, u) \in {0, 1}
    BY DEF Finished
  <2>3. FinishedCount(task) >= 0
    BY <2>2 DEF FinishedCount
  <2>4. QED
    BY <2>1, <2>3, LifecycleInitType DEF FitInv
<1>2. FitInv => ReportsFit
  <2> SUFFICES ASSUME FitInv, NEW t \in Task, task[t] \in {"nil", "err"},
                      Len(fatal) = FatalCap, ~(HasQUIC /\ task["quic"] = "done")
               PROVE  FALSE
    BY DEF ReportsFit
  <2>1. t \in {"http", "admin", "obs", "tls"}
    BY SwitchAssumption DEF FitInv, ReportTyped, Reporter
  <2>2. Finished(task, "quic") = 0
    <3>1. "quic" \in Task => HasQUIC
      BY SwitchAssumption DEF Task
    <3>2. QED
      BY <3>1 DEF Finished
  <2>3. Finished(task, t) = 0
    BY DEF Finished
  <2>4. \A u : Finished(task, u) \in {0, 1}
    BY DEF Finished
  <2>5. FinishedCount(task) <= 3
    BY <2>1, <2>2, <2>3, <2>4 DEF FinishedCount
  <2>6. FinishedCount(task) \in Nat
    BY CountRange
  <2>7. QED
    BY <2>5, <2>6 DEF FitInv, FatalCap
<1>3. FitInv /\ [Next]_vars => FitInv'
  BY FitNext
<1>4. QED
  BY <1>1, <1>2, <1>3, PTL DEF Spec

-----------------------------------------------------------------------------
(* The drain is no deadlock.                                                *)

\* Who was told to end when Run waits, and how the listener is closed.
ToldToEnd ==
  /\ "tls" \in stopped => shutting
  /\ main \in {"shutdown", "wait", "returned"} => Task \cap {"quic"} \subseteq stopped
  /\ main \in {"wait", "returned"} =>
       /\ Task \ {"obs", "scheduler"} \subseteq stopped
       /\ HasTLS => inner = "closed"

\* The acceptor leaves its one error last; ServeTLS returns from a closed listener only,
\* unless it is being shut down.
ListenerInOrder ==
  /\ inner = "closed" => done
  /\ acceptor # "exited" => errs = "none"
  /\ serve = "failed" => done
  /\ serve = "closed" => shutting

DrainInv == ReportTyped /\ ToldToEnd /\ ListenerInOrder

LEMMA DrainInitInv == Init => DrainInv
BY LifecycleInitType DEF Init, ListenerInit, DrainInv, ToldToEnd, ListenerInOrder

LEMMA ListenerStepOrder ==
  ASSUME ListenerTypeOK, ListenerInOrder, ListenerStep
  PROVE  ListenerInOrder' /\ (inner = "closed" => inner' = "closed") /\ (shutting => shutting')
<1> USE DEF ListenerTypeOK, ListenerInOrder, AcceptError
<1> DEFINE Goal == ListenerInOrder' /\ (inner = "closed" => inner' = "closed")
                     /\ (shutting => shutting')
<1>1. ASSUME NEW c \in Conn, AcceptConn(c) PROVE Goal
  BY <1>1 DEF AcceptConn
<1>2. ASSUME NEW c \in Conn, Route(c) PROVE Goal
  BY <1>2 DEF Route, Peek, Deliver, CloseReady
<1>3. ASSUME NEW e \in AcceptError, AcceptFails(e) PROVE Goal
  BY <1>3 DEF AcceptFails
<1>4. CASE AcceptSeesClose \/ ReportError
  BY <1>4 DEF AcceptSeesClose, ReportError
<1>5. CASE ServeError
  <2>1. acceptor = "exited"
    BY <1>5 DEF ServeError
  <2>2. QED
    BY <1>5, <2>1 DEF ServeError
<1>6. CASE ServeReturns
  BY <1>6 DEF ServeReturns
<1>7. CASE CloseSignal \/ CloseInner
  BY <1>7 DEF CloseSignal, CloseInner
<1>8. QED
  BY <1>1, <1>2, <1>3, <1>4, <1>5, <1>6, <1>7 DEF ListenerStep

LEMMA DrainServerTells ==
  ASSUME DrainInv, DrainServer
  PROVE  ToldToEnd' /\ ListenerInOrder'
<1>1. PICK k \in Running : /\ stopped' = stopped \cup {Servers[k]}
                           /\ IF Servers[k] = "tls" THEN BeginShutdown ELSE UNCHANGED lvars
  BY DEF DrainServer
<1>2. main = "shutdown" /\ main' = main
  BY DEF DrainServer
<1>3. UNCHANGED <<inner, done, acceptor, errs, serve>> /\ (shutting => shutting')
  BY <1>1 DEF BeginShutdown, lvars
<1>4. Servers[k] = "tls" => shutting'
  BY <1>1 DEF BeginShutdown
<1>5. QED
  BY <1>1, <1>2, <1>3, <1>4 DEF DrainInv, ToldToEnd, ListenerInOrder

\* When no server is left to be told, all that Run waits for are told, but for those
\* that the signal ends.
LEMMA AllTold ==
  ASSUME Running = {}, Task \cap {"quic"} \subseteq stopped
  PROVE  Task \ {"obs", "scheduler"} \subseteq stopped
<1>1. /\ DOMAIN Servers = 1..3
      /\ Servers[1] = "http" /\ Servers[2] = "tls" /\ Servers[3] = "admin"
  BY DEF Servers
<1>2. {"http", "tls", "admin"} \cap Task \subseteq stopped
  BY <1>1 DEF Running
<1>3. Task \subseteq {"http", "admin", "obs", "tls", "quic", "scheduler"}
  BY SwitchAssumption DEF Task
<1>4. QED
  BY <1>2, <1>3

LEMMA DrainNextInv ==
  ASSUME DrainInv, [Next]_vars
  PROVE  DrainInv'
<1> USE DEF DrainInv
<1>1. ReportTyped'
  BY LifecycleNextType
<1>2. CASE UNCHANGED <<main, stopped, lvars>>
  BY <1>1, <1>2 DEF ToldToEnd, ListenerInOrder, lvars
<1>3. CASE \/ UNCHANGED vars \/ Signal
           \/ \E t \in Task : ListenerFails(t) \/ PlainCloses(t) \/ SendFatal(t)
           \/ ObsStops \/ SchedulerStops \/ TLSReturns \/ QUICReturns
  BY <1>2, <1>3 DEF vars, svars, Signal, ListenerFails, PlainCloses, SendFatal, ObsStops,
                    SchedulerStops, TLSReturns, QUICReturns
<1>4. CASE TLSListener
  <2>1. ListenerTypeOK /\ ListenerInOrder /\ ListenerStep /\ UNCHANGED <<main, stopped>>
    BY <1>4 DEF TLSListener, svars, ReportTyped, TypeOK
  <2>2. QED
    BY <1>1, <2>1, ListenerStepOrder DEF ToldToEnd
<1>5. CASE SelectContext \/ SelectFatal \/ Return
  <2>1. UNCHANGED <<stopped, lvars>>
    BY <1>5 DEF SelectContext, SelectFatal, Return
  <2>2. \/ main' \in {"select", "quic"}
        \/ main = "wait" /\ main' = "returned"
    BY <1>5 DEF SelectContext, SelectFatal, Return
  <2>3. QED
    BY <1>1, <2>1, <2>2 DEF ToldToEnd, ListenerInOrder, lvars
<1>6. CASE DrainQUIC
  BY <1>1, <1>6 DEF DrainQUIC, ToldToEnd, ListenerInOrder, lvars
<1>7. CASE DrainServer
  BY <1>1, <1>7, DrainServerTells
<1>8. CASE DrainWait
  <2>1. Task \ {"obs", "scheduler"} \subseteq stopped
    BY <1>8, AllTold DEF DrainWait, ToldToEnd
  <2>2. HasTLS => inner = "closed"
    <3>1. HasTLS => "tls" \in Task
      BY DEF Task
    <3>2. QED
      BY <1>8, <2>1, <3>1 DEF DrainWait, ShutdownReturned
  <2>3. QED
    BY <1>1, <1>8, <2>1, <2>2 DEF DrainWait, ToldToEnd, ListenerInOrder, lvars
<1>9. QED
  BY <1>3, <1>4, <1>5, <1>6, <1>7, <1>8 DEF Next, MainStep

\* While Run waits for its goroutines, one that is not done has a step ahead, or its
\* listener has.
LEMMA WaitGoesOn ==
  ASSUME DrainInv, ctxDone, main = "wait", ~ReportsFull, ~AcceptStranded,
         NEW t \in Task, task[t] # "done"
  PROVE  TaskMoves(t) \/ (HasTLS /\ ListenerMoves)
<1>1. Task \subseteq {"http", "admin", "obs", "tls", "quic", "scheduler"}
  BY SwitchAssumption DEF Task
<1>2. task[t] \in {"running", "nil", "err"}
  BY DEF DrainInv, ReportTyped, TypeOK
<1>3. CASE task[t] \in {"nil", "err"}
  <2>1. Len(fatal) < FatalCap
    <3>1. Len(fatal) \in Nat /\ Len(fatal) <= FatalCap
      BY DEF DrainInv, ReportTyped, TypeOK
    <3>2. Len(fatal) # FatalCap
      BY DEF ReportsFull
    <3>3. \A n \in Nat : n <= FatalCap /\ n # FatalCap => n < FatalCap
      BY DEF FatalCap
    <3>4. QED
      BY <3>1, <3>2, <3>3
  <2>2. QED
    BY <1>3, <2>1 DEF TaskMoves
<1>4. CASE task[t] = "running" /\ t # "tls"
  <2>1. t \in Plain \cup {"quic", "obs", "scheduler"}
    BY <1>1, <1>4 DEF Task
  <2>2. t \in {"obs", "scheduler"} \/ t \in stopped
    BY DEF DrainInv, ToldToEnd
  <2>3. QED
    BY <1>4, <2>1, <2>2 DEF TaskMoves
<1>5. CASE task[t] = "running" /\ t = "tls"
  <2>1. HasTLS
    BY <1>5, SwitchAssumption DEF Task
  <2>2. inner = "closed" /\ done
    BY <2>1 DEF DrainInv, ToldToEnd, ListenerInOrder
  <2>3. serve \in {"accept", "failing", "failed", "closed"}
        /\ acceptor \in {"accepting", "exited"} \cup AcceptError
    BY DEF DrainInv, ReportTyped, TypeOK, ListenerTypeOK
  <2>4. serve \in {"accept", "failing"} => ListenerMoves
    BY <2>2, <2>3 DEF ListenerMoves, AcceptStranded
  <2>5. serve \in {"closed", "failed"} => TaskMoves(t)
    BY <1>5 DEF TaskMoves
  <2>6. QED
    BY <2>1, <2>3, <2>4, <2>5
<1>6. QED
  BY <1>2, <1>3, <1>4, <1>5

\* After a signal Run is never in a deadlock, whichever listeners fail and whatever the
\* acceptor was doing: some step is owed until it returns, but for a report channel that
\* is full when the drain begins and an Accept without its error.
THEOREM DrainAlwaysGoesOn == Spec => []DrainGoesOn
<1>1. DrainInv => DrainGoesOn
  <2> SUFFICES ASSUME DrainInv, ctxDone, main # "returned", ~ReportsFull, ~AcceptStranded,
                      main \notin {"select", "quic"}, ~(main = "shutdown" /\ ShutdownReturned)
               PROVE  \/ main = "wait" /\ \A t \in Task : task[t] = "done"
                      \/ \E t \in Task : TaskMoves(t)
                      \/ HasTLS /\ ListenerMoves
    BY DEF DrainGoesOn
  <2>1. main \in {"shutdown", "wait"}
    BY DEF DrainInv, ReportTyped, TypeOK
  <2>2. CASE main = "shutdown"
    <3>1. "tls" \in stopped /\ inner = "open"
      BY <2>2 DEF ShutdownReturned, DrainInv, ReportTyped, TypeOK, ListenerTypeOK
    <3>2. HasTLS
      BY <3>1, SwitchAssumption DEF DrainInv, ReportTyped, TypeOK, Task
    <3>3. QED
      BY <3>1, <3>2 DEF ListenerMoves, DrainInv, ToldToEnd
  <2>3. CASE main = "wait"
    BY <2>3, WaitGoesOn
  <2>4. QED
    BY <2>1, <2>2, <2>3
<1>2. QED
  BY <1>1, DrainInitInv, DrainNextInv, PTL DEF Spec

\* Whoever offers a connection when ServeTLS has made its last Accept finds the listener
\* closed or about to be, and the acceptor finds room for its error.
THEOREM OffersAlwaysEnd == Spec => []OffersHaveEnd
<1>1. DrainInv => OffersHaveEnd
  <2> SUFFICES ASSUME DrainInv PROVE OffersHaveEnd
    OBVIOUS
  <2>1. acceptor \in AcceptError => errs = "none"
    BY DEF DrainInv, ListenerInOrder, AcceptError
  <2>2. serve \in {"accept", "failing", "failed", "closed"}
    BY DEF DrainInv, ReportTyped, TypeOK, ListenerTypeOK
  <2>3. serve # "accept" => done \/ ListenerMoves
    BY <2>2 DEF DrainInv, ListenerInOrder, ListenerMoves
  <2>4. QED
    BY <2>1, <2>3 DEF OffersHaveEnd
<1>2. QED
  BY <1>1, DrainInitInv, DrainNextInv, PTL DEF Spec

\* However Run ends, nobody in it waits for what cannot come.
THEOREM NobodyIsStuck == Spec => []NeverStuck
<1>1. ReportsFit /\ DrainGoesOn /\ OffersHaveEnd => NeverStuck
  BY DEF NeverStuck
<1>2. QED
  BY <1>1, ReportsAlwaysFit, DrainAlwaysGoesOn, OffersAlwaysEnd, PTL
=============================================================================
