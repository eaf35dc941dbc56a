----------------------------- MODULE Intercept -----------------------------
(***************************************************************************)
(* The request path of internal/server/server.go: handleIntercept (load    *)
(* the catalog, decide, gate on the mode, ask the breaker, serve, report   *)
(* to the breaker), the splice of passthrough domains before TLS           *)
(* termination, the administrator's temporary rules, and reload, which     *)
(* replaces what the requests in flight are reading, one field at a time.  *)
(*                                                                         *)
(* Abstracted: a request is its domain (path, method and rule metadata are *)
(* the choice of a decision); a request the rate limiter turns away, which *)
(* changes nothing else, does not arrive; a catalog is the set of its      *)
(* names; CORS preflights, which stub.Serve answers without its catalog,    *)
(* are left out.  The lookup of the temporary rule and of the rule are one  *)
(* step.                                                                    *)
(***************************************************************************)
EXTENDS CircuitBreaker, FiniteSets

CONSTANTS Req,          \* goroutines that serve requests
          Name,         \* catalog entry names
          Safe,         \* safeDefaultStub
          NoName,       \* an empty catalog name
          File,         \* configurations an administrator may put on disk
          TempAction,   \* actions an administrator may name in a temporary rule
          TLS,          \* :443 is served, so connections are routed by SNI
          ClientAborts  \* clients may go away during a forward

Action == {"stub", "forward-asis", "forward-scrubbed", "forward-mimic",
           "passthrough", "unknown"}
Mode   == {"full", "stub-only"}
Origin == {"temp", "rule", "default", "verified", "unknown-profile", "gate"}
\* by: who decided; not a field of the code's Decision, which names the rule.
Decision == [action : Action, catalog : Name \cup {NoName}, by : Origin]
Match    == {dec \in Decision : dec.by \in {"rule", "default"}}
Directive == {dec \in Decision : dec.by = "unknown-profile"}

\* rules[d]: what Match may return for the paths of domain d; splice: the domains
\* a passthrough rule covers whatever the path; unknown: the directives of the
\* active unknown profile.
Config == [mode : Mode, catalog : SUBSET Name, rules : [Domain -> (SUBSET Match) \ {{}}],
           splice : SUBSET Domain, unknown : SUBSET Directive]

ASSUME FileAssumption == File \subseteq Config
ASSUME SwitchAssumption == TLS \in BOOLEAN /\ ClientAborts \in BOOLEAN
ASSUME TempAssumption == TempAction \subseteq Action
ASSUME NameAssumption == Safe \in Name /\ NoName \notin Name
ASSUME ReqAssumption == IsFiniteSet(Req)

VARIABLES live,   \* s.cat, s.engine's ruleset, s.cfg.Mode, s.cfg.UnknownProfile
          temps,  \* engine.temps: the actions of unexpired rules
          reload, \* reload in progress: its next store and what it loaded
          req,    \* each request
          streak  \* history: failures of the origin in a row in this window

vars == <<failures, openUntil, live, temps, reload, req, streak>>

NoDecision == [action |-> "stub", catalog |-> NoName, by |-> "default"]
Answer == Name \cup {NoName, "204", "origin", "decoy", "cut"}
Phase  == {"idle", "decide", "gate", "dispatch", "origin", "spliced", "done"}

\* History: quiet, stub-only mode has been in force since the request arrived;
\* steady, it has met no reload between the stores of the catalog and the rules.
Request == [pc : Phase, dom : Domain, cat : SUBSET Name, dec : Decision,
            answer : Answer, quiet : BOOLEAN, steady : BOOLEAN]

NoRequest(d) == [pc |-> "idle", dom |-> d, cat |-> {}, dec |-> NoDecision,
                 answer |-> NoName, quiet |-> FALSE, steady |-> TRUE]

NoReload == [next |-> "none"]
ReloadState == {NoReload} \cup [next : {"catalog", "rules", "mode", "unknown"}, file : File]

TypeOK ==
  /\ BreakerTypeOK
  /\ live \in Config
  /\ temps \in [Domain -> SUBSET Action]
  /\ reload \in ReloadState
  /\ req \in [Req -> Request]
  /\ streak \in [Domain -> 0 .. Threshold]

\* CatalogRefs against the catalog, as Run and reload check it.
validateRefs(f) ==
  \A d \in Domain : \A dec \in f.rules[d] :
    dec.action = "stub" /\ dec.catalog # NoName => dec.catalog \in f.catalog

Init ==
  /\ BreakerInit
  /\ live \in {f \in File : validateRefs(f)}
  /\ temps = [d \in Domain |-> {}]
  /\ reload = NoReload
  /\ req \in [Req -> {NoRequest(d) : d \in Domain}]
  /\ streak = [d \in Domain |-> 0]

-----------------------------------------------------------------------------
(* Requests.                                                               *)

ContactsUpstream == {"forward-asis", "forward-scrubbed", "forward-mimic"}

\* stub.Serve: the entry, or an empty 204 when the catalog has none of that name.
Stub(cat, name) == IF name \in cat THEN name ELSE "204"

Free(r) == req[r].pc \in {"idle", "done"}

\* The handler returns; what it held is gone.
Done(r, answer) ==
  req' = [req EXCEPT ![r] = [@ EXCEPT !.pc = "done", !.answer = answer, !.cat = {},
                                      !.quiet = FALSE]]

\* A decrypted request: its handler loads the catalog it will serve from.
Arrive(r, d) ==
  /\ Free(r)
  /\ req' = [req EXCEPT ![r] = [pc |-> "decide", dom |-> d, cat |-> live.catalog,
                                dec |-> NoDecision, answer |-> NoName,
                                quiet |-> live.mode = "stub-only",
                                steady |-> reload.next # "rules"]]
  /\ UNCHANGED <<bvars, live, temps, reload, streak>>

\* route and doPassthrough: a connection whose SNI a passthrough rule covers.
Splice(r, d) ==
  /\ TLS /\ Free(r) /\ d \in live.splice
  /\ req' = [req EXCEPT ![r] = [pc |-> "spliced", dom |-> d, cat |-> {},
                                dec |-> NoDecision, answer |-> "origin",
                                quiet |-> live.mode = "stub-only",
                                steady |-> reload.next # "rules"]]
  /\ UNCHANGED <<bvars, live, temps, reload, streak>>

SpliceEnds(r) ==
  /\ req[r].pc = "spliced"
  /\ Done(r, "origin")
  /\ UNCHANGED <<bvars, live, temps, reload, streak>>

TempDecision(a) == [action |-> a, catalog |-> NoName, by |-> "temp"]

\* verifiedJSStubDecision for reviewed script metadata that expects entry n.
VerifiedDecision(cat, n) ==
  [action |-> "stub", catalog |-> IF n \in cat THEN n ELSE Safe, by |-> "verified"]

\* A live temporary rule wins; what no rule matched may get a reviewed stub or
\* the directive of the unknown profile instead of the default.
Decisions(d, cat) ==
  LET matches  == live.rules[d]
      fallback == {VerifiedDecision(cat, n) : n \in Name} \cup live.unknown
  IN IF temps[d] # {} THEN {TempDecision(a) : a \in temps[d]}
     ELSE matches \cup (IF \E m \in matches : m.by = "default" THEN fallback ELSE {})

Decide(r, dec) ==
  /\ req[r].pc = "decide"
  /\ dec \in Decisions(req[r].dom, req[r].cat)
  /\ req' = [req EXCEPT ![r].pc = "gate", ![r].dec = dec]
  /\ UNCHANGED <<bvars, live, temps, reload, streak>>

\* Mutant: only the actions the breaker knows are gated.
stubOnlyGate_SparesPassthrough(mode, dec) ==
  IF mode # "stub-only" \/ dec.action \notin ContactsUpstream THEN dec
  ELSE [action  |-> "stub",
        catalog |-> IF dec.catalog = NoName THEN Safe ELSE dec.catalog,
        by      |-> "gate"]

stubOnlyGate(mode, dec) ==
  IF mode # "stub-only" \/ dec.action = "stub" THEN dec
  ELSE [action  |-> "stub",
        catalog |-> IF dec.catalog = NoName THEN Safe ELSE dec.catalog,
        by      |-> "gate"]

Gate(r) ==
  /\ req[r].pc = "gate"
  /\ req' = [req EXCEPT ![r].pc = "dispatch", ![r].dec = stubOnlyGate(live.mode, req[r].dec)]
  /\ UNCHANGED <<bvars, live, temps, reload, streak>>

\* The stub action, and any action the switch does not know.
ServeStub(r) ==
  /\ req[r].pc = "dispatch" /\ req[r].dec.action \in {"stub", "unknown"}
  /\ Done(r, Stub(req[r].cat, IF req[r].dec.action = "stub" THEN req[r].dec.catalog ELSE Safe))
  /\ UNCHANGED <<bvars, live, temps, reload, streak>>

Admit(r) ==
  LET d == req[r].dom
      reopened == openUntil[d] = "past"
  IN /\ req[r].pc = "dispatch" /\ req[r].dec.action \in ContactsUpstream
     /\ Allow(d)
     /\ req' = [req EXCEPT ![r].pc = "origin"]
     /\ streak' = IF reopened THEN [streak EXCEPT ![d] = 0] ELSE streak
     /\ UNCHANGED <<live, temps, reload>>

ServeBlocked(r) ==
  /\ req[r].pc = "dispatch" /\ req[r].dec.action \in ContactsUpstream
  /\ Deny(req[r].dom)
  /\ Done(r, Stub(req[r].cat, Safe))
  /\ UNCHANGED <<live, temps, reload, streak>>

\* A path-scoped passthrough rule: forwarded as it is, without the breaker.
PassThrough(r) ==
  /\ req[r].pc = "dispatch" /\ req[r].dec.action = "passthrough"
  /\ req' = [req EXCEPT ![r].pc = "origin"]
  /\ UNCHANGED <<bvars, live, temps, reload, streak>>

\* What the origin did, for the history: a client that left and a decoy served
\* from its cached shape say nothing about it.
Tally(d, seen) ==
  streak' = CASE seen = "ok"     -> [streak EXCEPT ![d] = 0]
              [] seen = "failed" -> [streak EXCEPT ![d] = IF @ = Threshold THEN @ ELSE @ + 1]
              [] OTHER           -> streak

\* Only the three actions the breaker knows are reported to it.
Report(r, failed) ==
  IF req[r].dec.action \notin ContactsUpstream THEN UNCHANGED bvars
  ELSE IF failed THEN RecordFailure(req[r].dom) ELSE RecordSuccess(req[r].dom)

Forwarding(r) == req[r].pc = "origin" /\ req[r].dec.action # "forward-mimic"

ForwardOK(r) ==
  /\ Forwarding(r)
  /\ Done(r, "origin") /\ Report(r, FALSE) /\ Tally(req[r].dom, "ok")
  /\ UNCHANGED <<live, temps, reload>>

\* forwardFailSafe: the proxy's error handler, called when the origin fails and
\* when the client's context is cancelled; it serves from the current catalog.
ForwardFails(r, seen) ==
  /\ Forwarding(r)
  /\ seen \in {"failed"} \cup (IF ClientAborts THEN {"aborted"} ELSE {})
  /\ Done(r, Stub(live.catalog, Safe)) /\ Report(r, TRUE) /\ Tally(req[r].dom, seen)
  /\ UNCHANGED <<live, temps, reload>>

\* The body breaks off: httputil.ReverseProxy panics, and nothing is reported.
ForwardCut(r) ==
  /\ Forwarding(r)
  /\ Done(r, "cut")
  /\ UNCHANGED <<bvars, live, temps, reload, streak>>

\* mimic.Serve probes the origin (or knows its shape) and serves a decoy whether or
\* not the probe succeeded; too large a shape, or video, falls back to the stub.
ServeMimic(r, seen, answer) ==
  /\ req[r].pc = "origin" /\ req[r].dec.action = "forward-mimic"
  /\ seen \in {"ok", "failed", "cached"}
  /\ answer \in {"decoy", Stub(req[r].cat, Safe)}
  /\ Done(r, answer) /\ Report(r, FALSE) /\ Tally(req[r].dom, seen)
  /\ UNCHANGED <<live, temps, reload>>

-----------------------------------------------------------------------------
(* The administrator: temporary rules and reload.                          *)

\* handleTempAllow passes any action name on; a rule replaces the one before.
AddTempRule(d, a) ==
  /\ temps' = [temps EXCEPT ![d] = {a}]
  /\ UNCHANGED <<bvars, live, reload, req, streak>>

TempExpires(d) ==
  /\ temps[d] # {}
  /\ temps' = [temps EXCEPT ![d] = {}]
  /\ UNCHANGED <<bvars, live, reload, req, streak>>

\* Mutant: the references are not validated.
ReloadBegin_Unchecked(f) ==
  /\ reload.next = "none"
  /\ reload' = [next |-> "catalog", file |-> f]
  /\ UNCHANGED <<bvars, live, temps, req, streak>>

\* SIGHUP: load and validate; a configuration that does not validate is dropped.
ReloadBegin(f) ==
  /\ reload.next = "none"
  /\ reload' = IF validateRefs(f) THEN [next |-> "catalog", file |-> f] ELSE reload
  /\ UNCHANGED <<bvars, live, temps, req, streak>>

Swap(step, following) ==
  /\ reload.next = step
  /\ reload' = IF following = "none" THEN NoReload ELSE [reload EXCEPT !.next = following]
  /\ UNCHANGED <<bvars, temps, streak>>

Unsettle == req' = [r \in Req |-> [req[r] EXCEPT !.steady = FALSE]]

SwapCatalog ==
  /\ Swap("catalog", "rules")
  /\ live' = [live EXCEPT !.catalog = reload.file.catalog]
  /\ Unsettle

SwapRules ==
  /\ Swap("rules", "mode")
  /\ live' = [live EXCEPT !.rules = reload.file.rules, !.splice = reload.file.splice]
  /\ Unsettle

\* A plain assignment of a string that requests read without a lock: a torn read
\* differs from "stub-only", so it acts like the other value of the two.
SwapMode ==
  /\ Swap("mode", "unknown")
  /\ live' = [live EXCEPT !.mode = reload.file.mode]
  /\ req' = [r \in Req |-> [req[r] EXCEPT !.quiet = @ /\ reload.file.mode = "stub-only"]]

SwapUnknown ==
  /\ Swap("unknown", "none")
  /\ live' = [live EXCEPT !.unknown = reload.file.unknown]
  /\ UNCHANGED req

Cooldown(d) ==
  /\ CooldownElapses(d)
  /\ UNCHANGED <<live, temps, reload, req, streak>>

-----------------------------------------------------------------------------
Next ==
  \/ \E r \in Req :
       \/ \E d \in Domain : Arrive(r, d) \/ Splice(r, d)
       \/ SpliceEnds(r)
       \/ \E dec \in Decisions(req[r].dom, req[r].cat) : Decide(r, dec)
       \/ Gate(r) \/ ServeStub(r) \/ Admit(r) \/ ServeBlocked(r) \/ PassThrough(r)
       \/ ForwardOK(r) \/ ForwardCut(r)
       \/ \E seen \in {"failed", "aborted"} : ForwardFails(r, seen)
       \/ \E seen \in {"ok", "failed", "cached"}, answer \in Answer : ServeMimic(r, seen, answer)
  \/ \E d \in Domain : (\E a \in TempAction : AddTempRule(d, a)) \/ TempExpires(d) \/ Cooldown(d)
  \/ \E f \in File : ReloadBegin(f)
  \/ SwapCatalog \/ SwapRules \/ SwapMode \/ SwapUnknown

Spec == Init /\ [][Next]_vars

-----------------------------------------------------------------------------
(* Properties.                                                             *)

AtOrigin(r) == req[r].pc \in {"origin", "spliced"}

\* The breaker is open exactly when the origin failed Threshold times in a row
\* since the window began, whatever requests were in flight, denied or cut, and
\* whatever was reloaded meanwhile.  It is NOT so with a client that goes away, which
\* counts as a failure, with a mimic probe, which counts as a success, or with a
\* path-scoped passthrough, which does not count.
OpenIffBroken == \A d \in Domain : openUntil[d] # "zero" <=> streak[d] >= Threshold

\* The handler's gate: no request that arrived in stub-only mode, and has seen no
\* other since, is sent to an origin, whatever rule, temporary rule or fallback it
\* matched and whatever else is being reloaded.
GatedNoContact == \A r \in Req : req[r].quiet => req[r].pc # "origin"

\* Stub-only mode never contacts an upstream, also for the connections that route
\* splices before a handler sees them.
StubOnlyNoContact == \A r \in Req : req[r].quiet => req[r].pc \notin {"origin", "spliced"}

\* A request that a rule (or the default) gives a stub is answered with that catalog
\* entry, which validation has shown to exist, never with the 204 for a missing one,
\* unless a reload stores its catalog or its rules while the request is served.
RuleStubServed ==
  \A r \in Req :
    LET dec == req[r].dec
    IN req[r].pc = "done" /\ req[r].steady /\ dec.action = "stub"
         /\ dec.by \in {"rule", "default"} /\ dec.catalog # NoName
       => req[r].answer = dec.catalog

=============================================================================
