--------------------------- MODULE InterceptProofs ---------------------------
(***************************************************************************)
(* Proofs about the request path, for any number of requests, domains and  *)
(* configurations: the circuit breaker's two fields agree, stub-only mode  *)
(* keeps requests away from every origin, and a rule's stub is served.     *)
(***************************************************************************)
EXTENDS Intercept, TLAPS

-----------------------------------------------------------------------------
(* Types.                                                                  *)

\* The breaker's operations keep its types.
LEMMA BreakerTyped ==
  ASSUME BreakerTypeOK, NEW d \in Domain,
         Allow(d) \/ Deny(d) \/ RecordSuccess(d) \/ RecordFailure(d) \/ CooldownElapses(d)
  PROVE  BreakerTypeOK'
BY DEF BreakerTypeOK, Allow, Deny, RecordSuccess, RecordFailure, CooldownElapses, Reset, bvars

\* Every decision a request may get is a decision.
LEMMA DecisionsTyped ==
  ASSUME TypeOK, NEW d \in Domain, NEW cat, NEW dec \in Decisions(d, cat)
  PROVE  dec \in Decision
<1>1. CASE \E a \in temps[d] : dec = TempDecision(a)
  <2>1. PICK a \in temps[d] : dec = TempDecision(a)
    BY <1>1
  <2>2. a \in Action
    BY DEF TypeOK
  <2>3. QED
    BY <2>1, <2>2 DEF TempDecision, Decision, Origin
<1>2. CASE \E n \in Name : dec = VerifiedDecision(cat, n)
  <2>1. PICK n \in Name : dec = VerifiedDecision(cat, n)
    BY <1>2
  <2>2. (IF n \in cat THEN n ELSE Safe) \in Name
    BY NameAssumption
  <2>3. QED
    BY <2>1, <2>2 DEF VerifiedDecision, Decision, Origin, Action
<1>3. CASE dec \in live.rules[d] \/ dec \in live.unknown
  <2>1. live.rules[d] \subseteq Match /\ live.unknown \subseteq Directive
    BY DEF TypeOK, Config
  <2>2. QED
    BY <1>3, <2>1 DEF Match, Directive
<1>4. QED
  BY <1>1, <1>2, <1>3 DEF Decisions

\* The gate returns a decision, and in stub-only mode a stub.
LEMMA GateTyped ==
  ASSUME NEW mode, NEW dec \in Decision
  PROVE  /\ stubOnlyGate(mode, dec) \in Decision
         /\ mode = "stub-only" => stubOnlyGate(mode, dec).action = "stub"
BY NameAssumption DEF stubOnlyGate, Decision, Action, Origin

LEMMA StubTyped ==
  ASSUME NEW cat \in SUBSET Name, NEW name
  PROVE  Stub(cat, name) \in Answer
BY DEF Stub, Answer

\* A request that changes to a request leaves the others as they are.
LEMMA RequestReplaced ==
  ASSUME req \in [Req -> Request], NEW r \in Req, NEW new \in Request,
         req' = [req EXCEPT ![r] = new]
  PROVE  /\ req' \in [Req -> Request]
         /\ req'[r] = new
         /\ \A p \in Req : p # r => req'[p] = req[p]
OBVIOUS

LEMMA NoDecisionTyped == NoDecision \in Decision
BY DEF NoDecision, Decision, Action, Origin

\* A finished handler leaves a finished request, which holds nothing.
LEMMA DoneTyped ==
  ASSUME req \in [Req -> Request], NEW r \in Req, NEW answer \in Answer, Done(r, answer)
  PROVE  /\ req' \in [Req -> Request]
         /\ req'[r].pc = "done"
         /\ \A p \in Req : p # r => req'[p] = req[p]
<1> DEFINE new == [req[r] EXCEPT !.pc = "done", !.answer = answer, !.cat = {},
                                 !.quiet = FALSE]
<1>1. req' = [req EXCEPT ![r] = new]
  BY DEF Done
<1>2. req[r] \in Request
  OBVIOUS
<1>3. new \in Request /\ new.pc = "done"
  BY <1>2 DEF Request, Phase
<1> HIDE DEF new
<1>4. QED
  BY <1>1, <1>3, RequestReplaced

LEMMA TallyTyped ==
  ASSUME streak \in [Domain -> 0 .. Threshold], NEW d \in Domain, NEW seen, Tally(d, seen)
  PROVE  streak' \in [Domain -> 0 .. Threshold]
BY ThresholdAssumption DEF Tally

LEMMA ReportTyped ==
  ASSUME BreakerTypeOK, NEW r \in Req, req[r].dom \in Domain, NEW failed, Report(r, failed)
  PROVE  BreakerTypeOK'
BY BreakerTyped DEF Report, BreakerTypeOK, bvars

\* Only the variables of a step change; used for the actions that leave req alone.
LEMMA SwapTyped ==
  ASSUME reload \in ReloadState, NEW step, NEW following, step # "none",
         following \in {"none", "rules", "mode", "unknown"}, Swap(step, following)
  PROVE  reload' \in ReloadState /\ reload.file \in Config
<1>1. reload \in [next : {"catalog", "rules", "mode", "unknown"}, file : File]
  BY DEF ReloadState, NoReload, Swap
<1>2. reload.file \in Config
  BY <1>1, FileAssumption
<1>3. CASE following = "none"
  BY <1>3, <1>2 DEF Swap, ReloadState
<1>4. CASE following # "none"
  <2>1. reload' = [reload EXCEPT !.next = following]
    BY <1>4 DEF Swap
  <2>2. QED
    BY <1>1, <1>2, <1>4, <2>1 DEF ReloadState
<1>5. QED
  BY <1>3, <1>4

LEMMA TypeInit == Init => TypeOK
<1> SUFFICES ASSUME Init PROVE TypeOK
  OBVIOUS
<1>1. BreakerTypeOK
  BY DEF Init, BreakerInit, BreakerTypeOK
<1>2. live \in Config
  BY FileAssumption DEF Init
<1>3. req \in [Req -> Request]
  <2>1. ASSUME NEW d \in Domain PROVE NoRequest(d) \in Request
    BY NoDecisionTyped DEF NoRequest, Request, Phase, Answer
  <2>2. QED
    BY <2>1 DEF Init
<1>4. streak \in [Domain -> 0 .. Threshold]
  BY ThresholdAssumption DEF Init
<1>5. temps \in [Domain -> SUBSET Action] /\ reload \in ReloadState
  BY DEF Init, ReloadState
<1>6. QED
  BY <1>1, <1>2, <1>3, <1>4, <1>5 DEF TypeOK

LEMMA TypeNext == TypeOK /\ [Next]_vars => TypeOK'
<1> SUFFICES ASSUME TypeOK, [Next]_vars PROVE TypeOK'
  OBVIOUS
<1>0. BreakerTypeOK /\ live \in Config /\ temps \in [Domain -> SUBSET Action]
      /\ reload \in ReloadState /\ req \in [Req -> Request]
      /\ streak \in [Domain -> 0 .. Threshold]
  BY DEF TypeOK
<1>a. ASSUME UNCHANGED bvars PROVE BreakerTypeOK'
  BY <1>a, <1>0 DEF bvars, BreakerTypeOK
<1>b. ASSUME NEW r \in Req
      PROVE  /\ req[r] \in Request
             /\ req[r].dom \in Domain /\ req[r].cat \in SUBSET Name /\ req[r].dec \in Decision
  <2>1. req[r] \in Request
    BY <1>0
  <2>2. QED
    BY <2>1 DEF Request
<1>1. ASSUME NEW r \in Req, NEW d \in Domain, Arrive(r, d) PROVE TypeOK'
  <2> DEFINE new == [pc |-> "decide", dom |-> d, cat |-> live.catalog,
                     dec |-> NoDecision, answer |-> NoName,
                     quiet |-> live.mode = "stub-only",
                     steady |-> reload.next # "rules"]
  <2>1. new \in Request
    BY <1>0, NoDecisionTyped DEF Request, Phase, Answer, Config
  <2>2. req' = [req EXCEPT ![r] = new]
    BY <1>1 DEF Arrive
  <2> HIDE DEF new
  <2>3. req' \in [Req -> Request]
    BY <1>0, <2>1, <2>2, RequestReplaced
  <2>4. QED
    BY <1>0, <1>1, <1>a, <2>3 DEF Arrive, TypeOK
<1>2. ASSUME NEW r \in Req, NEW d \in Domain, Splice(r, d) PROVE TypeOK'
  <2> DEFINE new == [pc |-> "spliced", dom |-> d, cat |-> {},
                     dec |-> NoDecision, answer |-> "origin",
                     quiet |-> live.mode = "stub-only",
                     steady |-> reload.next # "rules"]
  <2>1. new \in Request
    BY <1>0, NoDecisionTyped DEF Request, Phase, Answer, Config
  <2>2. req' = [req EXCEPT ![r] = new]
    BY <1>2 DEF Splice
  <2> HIDE DEF new
  <2>3. req' \in [Req -> Request]
    BY <1>0, <2>1, <2>2, RequestReplaced
  <2>4. QED
    BY <1>0, <1>2, <1>a, <2>3 DEF Splice, TypeOK
<1>3. ASSUME NEW r \in Req, SpliceEnds(r) PROVE TypeOK'
  <2>1. req' \in [Req -> Request]
    BY <1>0, <1>3, DoneTyped DEF SpliceEnds, Answer
  <2>2. QED
    BY <1>0, <1>3, <1>a, <2>1 DEF SpliceEnds, TypeOK
<1>4. ASSUME NEW r \in Req, NEW dec \in Decisions(req[r].dom, req[r].cat), Decide(r, dec)
      PROVE  TypeOK'
  <2>1. dec \in Decision
    BY <1>b, DecisionsTyped
  <2>2. req' \in [Req -> Request]
    BY <1>0, <1>4, <1>b, <2>1, ZenonT(60) DEF Decide, Request, Phase
  <2>3. QED
    BY <1>0, <1>4, <1>a, <2>2 DEF Decide, TypeOK
<1>5. ASSUME NEW r \in Req, Gate(r) PROVE TypeOK'
  <2>1. stubOnlyGate(live.mode, req[r].dec) \in Decision
    BY <1>b, GateTyped
  <2>2. req' \in [Req -> Request]
    BY <1>0, <1>5, <1>b, <2>1, ZenonT(60) DEF Gate, Request, Phase
  <2>3. QED
    BY <1>0, <1>5, <1>a, <2>2 DEF Gate, TypeOK
<1>6. ASSUME NEW r \in Req, ServeStub(r) PROVE TypeOK'
  <2> DEFINE name == IF req[r].dec.action = "stub" THEN req[r].dec.catalog ELSE Safe
  <2>1. Done(r, Stub(req[r].cat, name))
    BY <1>6 DEF ServeStub
  <2> HIDE DEF name
  <2>2. req' \in [Req -> Request]
    BY <1>0, <1>b, <2>1, DoneTyped, StubTyped
  <2>3. QED
    BY <1>0, <1>6, <1>a, <2>2 DEF ServeStub, TypeOK
<1>7. ASSUME NEW r \in Req, Admit(r) PROVE TypeOK'
  <2>1. BreakerTypeOK'
    BY <1>0, <1>7, <1>b, BreakerTyped DEF Admit
  <2>2. req' \in [Req -> Request]
    BY <1>0, <1>7, <1>b DEF Admit, Request, Phase
  <2>3. streak' \in [Domain -> 0 .. Threshold]
    BY <1>0, <1>7, <1>b, ThresholdAssumption DEF Admit
  <2>4. QED
    BY <1>0, <1>7, <2>1, <2>2, <2>3 DEF Admit, TypeOK
<1>8. ASSUME NEW r \in Req, ServeBlocked(r) PROVE TypeOK'
  <2>1. req' \in [Req -> Request]
    BY <1>0, <1>8, <1>b, DoneTyped, StubTyped DEF ServeBlocked
  <2>2. QED
    BY <1>0, <1>8, <1>a, <2>1 DEF ServeBlocked, Deny, TypeOK
<1>9. ASSUME NEW r \in Req, PassThrough(r) PROVE TypeOK'
  <2>1. req' \in [Req -> Request]
    BY <1>0, <1>9, <1>b DEF PassThrough, Request, Phase
  <2>2. QED
    BY <1>0, <1>9, <1>a, <2>1 DEF PassThrough, TypeOK
<1>10. ASSUME NEW r \in Req, NEW failed, NEW seen, NEW answer \in Answer,
              Done(r, answer), Report(r, failed), Tally(req[r].dom, seen),
              UNCHANGED <<live, temps, reload>>
       PROVE  TypeOK'
  <2>1. req' \in [Req -> Request]
    BY <1>0, <1>10, DoneTyped
  <2>2. BreakerTypeOK'
    BY <1>0, <1>10, <1>b, ReportTyped
  <2>3. streak' \in [Domain -> 0 .. Threshold]
    BY <1>0, <1>10, <1>b, TallyTyped
  <2>4. QED
    BY <1>0, <1>10, <2>1, <2>2, <2>3 DEF TypeOK
<1>11. ASSUME NEW r \in Req, ForwardOK(r) PROVE TypeOK'
  BY <1>10, <1>11 DEF ForwardOK, Answer
<1>12. ASSUME NEW r \in Req, NEW seen, ForwardFails(r, seen) PROVE TypeOK'
  <2>1. Stub(live.catalog, Safe) \in Answer
    BY <1>0, StubTyped DEF Config
  <2>2. QED
    BY <1>10, <1>12, <2>1 DEF ForwardFails
<1>13. ASSUME NEW r \in Req, ForwardCut(r) PROVE TypeOK'
  <2>1. req' \in [Req -> Request]
    BY <1>0, <1>13, DoneTyped DEF ForwardCut, Answer
  <2>2. QED
    BY <1>0, <1>13, <1>a, <2>1 DEF ForwardCut, TypeOK
<1>14. ASSUME NEW r \in Req, NEW seen, NEW answer \in Answer, ServeMimic(r, seen, answer)
       PROVE  TypeOK'
  BY <1>10, <1>14 DEF ServeMimic
<1>15. ASSUME NEW d \in Domain, NEW a \in TempAction, AddTempRule(d, a) PROVE TypeOK'
  BY <1>0, <1>15, <1>a, TempAssumption DEF AddTempRule, TypeOK
<1>16. ASSUME NEW d \in Domain, TempExpires(d) PROVE TypeOK'
  BY <1>0, <1>16, <1>a DEF TempExpires, TypeOK
<1>17. ASSUME NEW d \in Domain, Cooldown(d) PROVE TypeOK'
  BY <1>0, <1>17, BreakerTyped DEF Cooldown, TypeOK
<1>18. ASSUME NEW f \in File, ReloadBegin(f) PROVE TypeOK'
  <2>1. reload' \in ReloadState
    BY <1>0, <1>18 DEF ReloadBegin, ReloadState
  <2>2. QED
    BY <1>0, <1>18, <1>a, <2>1 DEF ReloadBegin, TypeOK
<1>19. ASSUME SwapCatalog PROVE TypeOK'
  <2>1. reload' \in ReloadState /\ reload.file \in Config
    BY <1>0, <1>19, SwapTyped DEF SwapCatalog
  <2>2. live' \in Config
    BY <1>0, <1>19, <2>1 DEF SwapCatalog, Config
  <2>3. req' \in [Req -> Request]
    BY <1>0, <1>19 DEF SwapCatalog, Unsettle, Request
  <2>4. QED
    BY <1>0, <1>19, <1>a, <2>1, <2>2, <2>3 DEF SwapCatalog, Swap, TypeOK
<1>20. ASSUME SwapRules PROVE TypeOK'
  <2>1. reload' \in ReloadState /\ reload.file \in Config
    BY <1>0, <1>20, SwapTyped DEF SwapRules
  <2>2. live' \in Config
    BY <1>0, <1>20, <2>1 DEF SwapRules, Config
  <2>3. req' \in [Req -> Request]
    BY <1>0, <1>20 DEF SwapRules, Unsettle, Request
  <2>4. QED
    BY <1>0, <1>20, <1>a, <2>1, <2>2, <2>3 DEF SwapRules, Swap, TypeOK
<1>21. ASSUME SwapMode PROVE TypeOK'
  <2>1. reload' \in ReloadState /\ reload.file \in Config
    BY <1>0, <1>21, SwapTyped DEF SwapMode
  <2>2. live' \in Config
    BY <1>0, <1>21, <2>1 DEF SwapMode, Config
  <2>3. req' \in [Req -> Request]
    BY <1>0, <1>21 DEF SwapMode, Request
  <2>4. QED
    BY <1>0, <1>21, <1>a, <2>1, <2>2, <2>3 DEF SwapMode, Swap, TypeOK
<1>22. ASSUME SwapUnknown PROVE TypeOK'
  <2>1. reload' \in ReloadState /\ reload.file \in Config
    BY <1>0, <1>22, SwapTyped DEF SwapUnknown
  <2>2. live' \in Config
    BY <1>0, <1>22, <2>1 DEF SwapUnknown, Config
  <2>3. QED
    BY <1>0, <1>22, <1>a, <2>1, <2>2 DEF SwapUnknown, Swap, TypeOK
<1>23. ASSUME UNCHANGED vars PROVE TypeOK'
  BY <1>0, <1>23, <1>a DEF vars, bvars, TypeOK
<1>24. QED
  BY <1>1, <1>2, <1>3, <1>4, <1>5, <1>6, <1>7, <1>8, <1>9, <1>11, <1>12, <1>13, <1>14,
     <1>15, <1>16, <1>17, <1>18, <1>19, <1>20, <1>21, <1>22, <1>23 DEF Next

\* Every variable keeps its type, reload and late answers included.
THEOREM TypeCorrect == Spec => []TypeOK
BY TypeInit, TypeNext, PTL DEF Spec

-----------------------------------------------------------------------------
(* The breaker.                                                            *)

\* Each operation of the breaker keeps its fields in agreement.
LEMMA BreakerAgrees ==
  ASSUME BreakerTypeOK, OpenAtThreshold, NEW d \in Domain,
         Allow(d) \/ Deny(d) \/ RecordSuccess(d) \/ RecordFailure(d) \/ CooldownElapses(d)
  PROVE  OpenAtThreshold'
<1>1. CASE Reset(d)
  BY <1>1, ThresholdAssumption DEF Reset, BreakerTypeOK, OpenAtThreshold
<1>2. CASE UNCHANGED bvars
  BY <1>2 DEF bvars, OpenAtThreshold
<1>3. CASE RecordFailure(d)
  BY <1>3, ThresholdAssumption DEF RecordFailure, BreakerTypeOK, OpenAtThreshold
<1>4. CASE CooldownElapses(d)
  BY <1>4 DEF CooldownElapses, BreakerTypeOK, OpenAtThreshold
<1>5. QED
  BY <1>1, <1>2, <1>3, <1>4 DEF Allow, Deny, RecordSuccess

\* Every step of the request path is one of those operations, or leaves the
\* breaker alone.
LEMMA BreakerStep ==
  ASSUME TypeOK, [Next]_vars
  PROVE  \/ UNCHANGED bvars
         \/ \E d \in Domain : \/ Allow(d) \/ Deny(d) \/ RecordSuccess(d)
                              \/ RecordFailure(d) \/ CooldownElapses(d)
<1> DEFINE Operation ==
      \E d \in Domain : \/ Allow(d) \/ Deny(d) \/ RecordSuccess(d)
                        \/ RecordFailure(d) \/ CooldownElapses(d)
<1>1. ASSUME NEW r \in Req PROVE req[r].dom \in Domain
  BY DEF TypeOK, Request
<1>2. ASSUME NEW r \in Req, NEW failed, Report(r, failed) PROVE UNCHANGED bvars \/ Operation
  BY <1>1, <1>2 DEF Report
<1>3. ASSUME NEW r \in Req, Admit(r) \/ ServeBlocked(r) PROVE Operation
  BY <1>1, <1>3 DEF Admit, ServeBlocked
<1>4. ASSUME NEW d \in Domain, Cooldown(d) PROVE Operation
  BY <1>4 DEF Cooldown
<1> HIDE DEF Operation
<1>5. ASSUME NEW r \in Req,
             \/ \E d \in Domain : Arrive(r, d) \/ Splice(r, d)
             \/ SpliceEnds(r)
             \/ \E dec \in Decisions(req[r].dom, req[r].cat) : Decide(r, dec)
             \/ Gate(r) \/ ServeStub(r) \/ PassThrough(r) \/ ForwardCut(r)
      PROVE  UNCHANGED bvars
  BY <1>5 DEF Arrive, Splice, SpliceEnds, Decide, Gate, ServeStub, PassThrough, ForwardCut
<1>6. ASSUME NEW r \in Req,
             \/ ForwardOK(r)
             \/ \E seen \in {"failed", "aborted"} : ForwardFails(r, seen)
             \/ \E seen \in {"ok", "failed", "cached"}, answer \in Answer : ServeMimic(r, seen, answer)
      PROVE  UNCHANGED bvars \/ Operation
  BY <1>2, <1>6 DEF ForwardOK, ForwardFails, ServeMimic
<1>7. ASSUME \/ \E d \in Domain : (\E a \in TempAction : AddTempRule(d, a)) \/ TempExpires(d)
             \/ \E f \in File : ReloadBegin(f)
             \/ SwapCatalog \/ SwapRules \/ SwapMode \/ SwapUnknown
      PROVE  UNCHANGED bvars
  BY <1>7 DEF AddTempRule, TempExpires, ReloadBegin, SwapCatalog, SwapRules, SwapMode,
              SwapUnknown, Swap
<1>8. ASSUME UNCHANGED vars PROVE UNCHANGED bvars
  BY <1>8 DEF vars, bvars
<1>9. UNCHANGED bvars \/ Operation
  BY <1>3, <1>4, <1>5, <1>6, <1>7, <1>8 DEF Next
<1>10. QED
  BY <1>9 DEF Operation

\* For every threshold and any number of requests in flight, a window is set
\* exactly when the count has reached the threshold.
THEOREM OpenAtThresholdCorrect == Spec => []OpenAtThreshold
<1>1. Init => OpenAtThreshold
  <2>1. BreakerInit => OpenAtThreshold
    <3> SUFFICES ASSUME BreakerInit, NEW d \in Domain
                 PROVE  openUntil[d] # "zero" <=> failures[d] >= Threshold
      BY DEF OpenAtThreshold
    <3>1. openUntil[d] = "zero" /\ failures[d] = 0
      BY DEF BreakerInit
    <3>2. ~(0 >= Threshold)
      BY ThresholdAssumption
    <3>3. QED
      BY <3>1, <3>2
  <2>2. QED
    BY <2>1 DEF Init
<1>2. TypeOK /\ OpenAtThreshold /\ [Next]_vars => OpenAtThreshold'
  <2> SUFFICES ASSUME TypeOK, OpenAtThreshold, [Next]_vars PROVE OpenAtThreshold'
    OBVIOUS
  <2>1. CASE UNCHANGED bvars
    BY <2>1 DEF bvars, OpenAtThreshold
  <2>2. CASE \E d \in Domain : \/ Allow(d) \/ Deny(d) \/ RecordSuccess(d)
                               \/ RecordFailure(d) \/ CooldownElapses(d)
    BY <2>2, BreakerAgrees DEF TypeOK
  <2>3. QED
    BY <2>1, <2>2, BreakerStep
<1>3. QED
  BY <1>1, <1>2, TypeCorrect, PTL DEF Spec

-----------------------------------------------------------------------------
(* Stub-only mode.                                                         *)

\* Strengthening of GatedNoContact: a request that has seen stub-only mode only is
\* served in that mode, is not beyond the gate's verdict (or never meets the gate),
\* and a verdict it has got is a stub.
Quiet(m, q) ==
  q.quiet => /\ m = "stub-only"
             /\ q.pc \in {"decide", "gate", "dispatch", "spliced"}
             /\ q.pc = "dispatch" => q.dec.action = "stub"

QuietInv == \A r \in Req : Quiet(live.mode, req[r])

LEMMA DoneQuiet ==
  ASSUME TypeOK, QuietInv, NEW r \in Req, NEW answer, Done(r, answer), UNCHANGED live
  PROVE  QuietInv'
<1>1. req'[r].quiet = FALSE
  <2>1. req \in [Req -> Request] /\ req[r] \in Request
    BY DEF TypeOK
  <2>2. req'[r] = [req[r] EXCEPT !.pc = "done", !.answer = answer, !.cat = {},
                                 !.quiet = FALSE]
    BY <2>1 DEF Done
  <2>3. QED
    BY <2>1, <2>2 DEF Request
<1>2. \A p \in Req : p # r => req'[p] = req[p]
  BY DEF Done, TypeOK
<1>3. ASSUME NEW p \in Req PROVE Quiet(live'.mode, req'[p])
  BY <1>1, <1>2 DEF QuietInv, Quiet
<1>4. QED
  BY <1>3 DEF QuietInv

\* Every step keeps the strengthened invariant.
LEMMA QuietNext ==
  ASSUME TypeOK, QuietInv, [Next]_vars
  PROVE  QuietInv'
<1>0. live \in Config /\ req \in [Req -> Request] /\ reload \in ReloadState
  BY DEF TypeOK
<1>a. ASSUME UNCHANGED <<live, req>> PROVE QuietInv'
  BY <1>a DEF QuietInv, Quiet
<1>b. ASSUME NEW r \in Req, live' = live, \A p \in Req : p # r => req'[p] = req[p],
             Quiet(live.mode, req'[r])
      PROVE  QuietInv'
  <2>1. ASSUME NEW p \in Req PROVE Quiet(live'.mode, req'[p])
    BY <1>b, <2>1 DEF QuietInv
  <2>2. QED
    BY <2>1 DEF QuietInv
<1>d. ASSUME NEW r \in Req
      PROVE  /\ req[r] \in Request /\ req[r].dec \in Decision
             /\ Quiet(live.mode, req[r])
  BY <1>0 DEF QuietInv, Request
<1>1. ASSUME NEW r \in Req, NEW d \in Domain, Arrive(r, d) PROVE QuietInv'
  <2>1. /\ \A p \in Req : p # r => req'[p] = req[p]
        /\ req'[r].pc = "decide"
        /\ req'[r].quiet = (live.mode = "stub-only")
        /\ live' = live
    BY <1>0, <1>1 DEF Arrive
  <2>2. Quiet(live.mode, req'[r])
    BY <2>1 DEF Quiet
  <2>3. QED
    BY <1>b, <2>1, <2>2
<1>2. ASSUME NEW r \in Req, NEW dec \in Decisions(req[r].dom, req[r].cat), Decide(r, dec)
      PROVE  QuietInv'
  <2>1. /\ \A p \in Req : p # r => req'[p] = req[p]
        /\ req'[r] = [req[r] EXCEPT !.pc = "gate", !.dec = dec]
        /\ live' = live
    BY <1>0, <1>2 DEF Decide
  <2>2. Quiet(live.mode, req'[r])
    BY <1>d, <2>1 DEF Quiet, Request
  <2>3. QED
    BY <1>b, <2>1, <2>2
<1>3. ASSUME NEW r \in Req, Gate(r) PROVE QuietInv'
  <2> DEFINE dec == stubOnlyGate(live.mode, req[r].dec)
  <2>1. /\ \A p \in Req : p # r => req'[p] = req[p]
        /\ req'[r] = [req[r] EXCEPT !.pc = "dispatch", !.dec = dec]
        /\ live' = live
    BY <1>0, <1>3 DEF Gate
  <2>2. live.mode = "stub-only" => dec.action = "stub"
    BY <1>d, GateTyped
  <2> HIDE DEF dec
  <2>3. Quiet(live.mode, req'[r])
    BY <1>d, <2>1, <2>2 DEF Quiet, Request
  <2>4. QED
    BY <1>b, <2>1, <2>3
<1>4. ASSUME NEW r \in Req, NEW answer, Done(r, answer), UNCHANGED live PROVE QuietInv'
  BY <1>4, DoneQuiet
<1>5. ASSUME NEW r \in Req,
             \/ SpliceEnds(r) \/ ServeStub(r) \/ ServeBlocked(r) \/ ForwardOK(r) \/ ForwardCut(r)
             \/ \E seen \in {"failed", "aborted"} : ForwardFails(r, seen)
             \/ \E seen \in {"ok", "failed", "cached"}, answer \in Answer : ServeMimic(r, seen, answer)
      PROVE  QuietInv'
  BY <1>4, <1>5 DEF SpliceEnds, ServeStub, ServeBlocked, ForwardOK, ForwardCut, ForwardFails,
                    ServeMimic
<1>6. ASSUME NEW r \in Req, Admit(r) \/ PassThrough(r) PROVE QuietInv'
  <2>1. req[r].pc = "dispatch" /\ req[r].dec.action # "stub"
    BY <1>6 DEF Admit, PassThrough, ContactsUpstream
  <2>2. ~req[r].quiet
    BY <1>d, <2>1 DEF Quiet
  <2>3. \A p \in Req : p # r => req'[p] = req[p]
    BY <1>0, <1>6 DEF Admit, PassThrough
  <2>4. req'[r].quiet = req[r].quiet /\ live' = live
    BY <1>0, <1>6, <1>d DEF Admit, PassThrough, Request
  <2>5. Quiet(live.mode, req'[r])
    BY <2>2, <2>4 DEF Quiet
  <2>6. QED
    BY <1>b, <2>3, <2>4, <2>5
<1>7. ASSUME NEW r \in Req, NEW d \in Domain, Splice(r, d) PROVE QuietInv'
  <2>1. /\ \A p \in Req : p # r => req'[p] = req[p]
        /\ req'[r].pc = "spliced"
        /\ req'[r].quiet = (live.mode = "stub-only")
        /\ live' = live
    BY <1>0, <1>7 DEF Splice
  <2>2. Quiet(live.mode, req'[r])
    BY <2>1 DEF Quiet
  <2>3. QED
    BY <1>b, <2>1, <2>2
<1>8. ASSUME \/ \E d \in Domain : (\E a \in TempAction : AddTempRule(d, a)) \/ TempExpires(d)
                                    \/ Cooldown(d)
             \/ \E f \in File : ReloadBegin(f)
             \/ UNCHANGED vars
      PROVE  QuietInv'
  BY <1>a, <1>8 DEF AddTempRule, TempExpires, Cooldown, ReloadBegin, vars
<1>9. ASSUME SwapCatalog \/ SwapRules \/ SwapUnknown PROVE QuietInv'
  <2>1. live'.mode = live.mode
    BY <1>0, <1>9 DEF SwapCatalog, SwapRules, SwapUnknown, Config
  <2>2. ASSUME NEW r \in Req PROVE Quiet(live'.mode, req'[r])
    <3>1. /\ req'[r].quiet = req[r].quiet /\ req'[r].pc = req[r].pc
          /\ req'[r].dec = req[r].dec
      BY <1>d, <1>9 DEF SwapCatalog, SwapRules, SwapUnknown, Unsettle, Request
    <3>2. QED
      BY <1>d, <2>1, <3>1 DEF Quiet
  <2>3. QED
    BY <2>2 DEF QuietInv
<1>10. ASSUME SwapMode PROVE QuietInv'
  <2>1. live'.mode = reload.file.mode
    BY <1>0, <1>10 DEF SwapMode, Config
  <2>2. ASSUME NEW r \in Req PROVE Quiet(live'.mode, req'[r])
    <3>1. req'[r] = [req[r] EXCEPT !.quiet = req[r].quiet /\ reload.file.mode = "stub-only"]
      BY <1>0, <1>10 DEF SwapMode
    <3>2. /\ req'[r].quiet => req[r].quiet /\ reload.file.mode = "stub-only"
          /\ req'[r].pc = req[r].pc /\ req'[r].dec = req[r].dec
      BY <1>d, <3>1 DEF Request
    <3>3. QED
      BY <1>d, <2>1, <3>2 DEF Quiet
  <2>3. QED
    BY <2>2 DEF QuietInv
<1>11. QED
  BY <1>1, <1>2, <1>3, <1>5, <1>6, <1>7, <1>8, <1>9, <1>10 DEF Next

\* For any rules, temporary rules, fallbacks and reloads, a request that has seen
\* stub-only mode only is not sent to an origin by its handler.
THEOREM GatedNoContactCorrect == Spec => []GatedNoContact
<1>1. Init => QuietInv
  <2> SUFFICES ASSUME Init, NEW r \in Req PROVE Quiet(live.mode, req[r])
    BY DEF QuietInv
  <2>1. PICK d \in Domain : req[r] = NoRequest(d)
    BY DEF Init
  <2>2. QED
    BY <2>1 DEF NoRequest, Quiet
<1>2. TypeOK /\ QuietInv /\ [Next]_vars => QuietInv'
  BY QuietNext
<1>3. QuietInv => GatedNoContact
  BY DEF QuietInv, Quiet, GatedNoContact
<1>4. QED
  BY <1>1, <1>2, <1>3, TypeCorrect, PTL DEF Spec

-----------------------------------------------------------------------------
(* Reload.                                                                 *)

\* A decision for a stub that validation speaks about.
Checked(dec) ==
  dec.action = "stub" /\ dec.by \in {"rule", "default"} /\ dec.catalog # NoName

\* What reload is going to store has been validated, and between two reloads, and
\* outside the gap between its first two stores, the rules in force name entries of
\* the catalog in force.
ReloadInv ==
  /\ reload.next # "none" => validateRefs(reload.file)
  /\ reload.next = "rules" => live.catalog = reload.file.catalog
  /\ reload.next # "rules" => validateRefs(live)

\* A steady request holds the catalog in force; the stub it was given is in there,
\* and was served when it is done.  Only a stub is dispatched as one.
Served(q) ==
  /\ q.steady /\ q.pc \in {"decide", "gate", "dispatch"}
       => reload.next # "rules" /\ q.cat = live.catalog
  /\ q.steady /\ q.pc \in {"gate", "dispatch"} /\ Checked(q.dec) => q.dec.catalog \in q.cat
  /\ q.pc \in {"origin", "spliced"} => ~Checked(q.dec)
  /\ q.steady /\ q.pc = "done" /\ Checked(q.dec) => q.answer = q.dec.catalog

ServedInv == ReloadInv /\ \A r \in Req : Served(req[r])

\* The rules in force are validated ones as long as the stores are not disturbed.
LEMMA ReloadNext ==
  ASSUME TypeOK, ReloadInv, [Next]_vars
  PROVE  ReloadInv'
<1>0. live \in Config /\ reload \in ReloadState
  BY DEF TypeOK
<1>a. ASSUME UNCHANGED <<live, reload>> PROVE ReloadInv'
  BY <1>a DEF ReloadInv, validateRefs
<1>b. ASSUME reload.next # "none" PROVE reload.file \in Config
  BY <1>0, <1>b, FileAssumption DEF ReloadState, NoReload
<1>1. ASSUME NEW f \in File, ReloadBegin(f) PROVE ReloadInv'
  <2>1. live' = live /\ reload.next = "none"
    BY <1>1 DEF ReloadBegin
  <2>2. CASE validateRefs(f)
    <3>1. reload' = [next |-> "catalog", file |-> f]
      BY <1>1, <2>2 DEF ReloadBegin
    <3>2. reload'.next = "catalog" /\ reload'.file = f
      BY <3>1
    <3>3. QED
      BY <2>1, <2>2, <3>2 DEF ReloadInv, validateRefs
  <2>3. CASE ~validateRefs(f)
    BY <1>1, <1>a, <2>3 DEF ReloadBegin
  <2>4. QED
    BY <2>2, <2>3
<1>2. ASSUME NEW step, NEW following, step # "none", Swap(step, following)
      PROVE  /\ reload.next = step /\ reload.file \in Config
             /\ following = "none" => reload'.next = "none"
             /\ following # "none" => reload'.next = following /\ reload'.file = reload.file
  <2>1. reload.next = step /\ reload.file \in Config
    BY <1>2, <1>b DEF Swap
  <2>2. reload \in [next : {"catalog", "rules", "mode", "unknown"}, file : File]
    BY <1>0, <1>2, <2>1 DEF ReloadState, NoReload
  <2>3. QED
    BY <1>2, <2>1, <2>2 DEF Swap, NoReload
<1>3. ASSUME SwapCatalog PROVE ReloadInv'
  <2>1. reload'.next = "rules" /\ reload'.file = reload.file /\ reload.next = "catalog"
    BY <1>2, <1>3 DEF SwapCatalog
  <2>2. live'.catalog = reload.file.catalog
    BY <1>0, <1>3 DEF SwapCatalog, Config
  <2>3. QED
    BY <2>1, <2>2 DEF ReloadInv, validateRefs
<1>4. ASSUME SwapRules PROVE ReloadInv'
  <2>1. reload'.next = "mode" /\ reload'.file = reload.file /\ reload.next = "rules"
    BY <1>2, <1>4 DEF SwapRules
  <2>2. live'.catalog = live.catalog /\ live'.rules = reload.file.rules
    BY <1>0, <1>4 DEF SwapRules, Config
  <2>3. QED
    BY <2>1, <2>2 DEF ReloadInv, validateRefs
<1>5. ASSUME SwapMode \/ SwapUnknown PROVE ReloadInv'
  <2>1. /\ reload.next \in {"mode", "unknown"}
        /\ \/ reload'.next = "unknown" /\ reload'.file = reload.file
           \/ reload'.next = "none"
    BY <1>2, <1>5 DEF SwapMode, SwapUnknown
  <2>2. live'.catalog = live.catalog /\ live'.rules = live.rules
    BY <1>0, <1>5 DEF SwapMode, SwapUnknown, Config
  <2>3. QED
    BY <2>1, <2>2 DEF ReloadInv, validateRefs
<1>6. ASSUME NEW r \in Req,
             \/ \E d \in Domain : Arrive(r, d) \/ Splice(r, d)
             \/ SpliceEnds(r)
             \/ \E dec \in Decisions(req[r].dom, req[r].cat) : Decide(r, dec)
             \/ Gate(r) \/ ServeStub(r) \/ Admit(r) \/ ServeBlocked(r) \/ PassThrough(r)
             \/ ForwardOK(r) \/ ForwardCut(r)
             \/ \E seen \in {"failed", "aborted"} : ForwardFails(r, seen)
             \/ \E seen \in {"ok", "failed", "cached"}, answer \in Answer : ServeMimic(r, seen, answer)
      PROVE  ReloadInv'
  BY <1>a, <1>6 DEF Arrive, Splice, SpliceEnds, Decide, Gate, ServeStub, Admit, ServeBlocked,
                    PassThrough, ForwardOK, ForwardCut, ForwardFails, ServeMimic
<1>7. ASSUME \/ \E d \in Domain : (\E a \in TempAction : AddTempRule(d, a)) \/ TempExpires(d)
                                    \/ Cooldown(d)
             \/ UNCHANGED vars
      PROVE  ReloadInv'
  BY <1>a, <1>7 DEF AddTempRule, TempExpires, Cooldown, vars
<1>8. QED
  BY <1>1, <1>3, <1>4, <1>5, <1>6, <1>7 DEF Next

\* The decisions of a request whose catalog is the validated one name entries of it.
LEMMA DecisionChecked ==
  ASSUME TypeOK, validateRefs(live), NEW d \in Domain, NEW cat,
         NEW dec \in Decisions(d, cat), Checked(dec)
  PROVE  dec.catalog \in live.catalog
<1>1. ASSUME NEW a, dec = TempDecision(a) PROVE FALSE
  BY <1>1 DEF TempDecision, Checked
<1>2. ASSUME NEW n, dec = VerifiedDecision(cat, n) PROVE FALSE
  BY <1>2 DEF VerifiedDecision, Checked
<1>3. ASSUME dec \in live.unknown PROVE FALSE
  <2>1. live.unknown \subseteq Directive
    BY DEF TypeOK, Config
  <2>2. QED
    BY <1>3, <2>1 DEF Directive, Checked
<1>4. dec \in live.rules[d]
  BY <1>1, <1>2, <1>3 DEF Decisions
<1>5. QED
  BY <1>4 DEF validateRefs, Checked

\* Every step keeps what is known of each request.
LEMMA ServedNext ==
  ASSUME TypeOK, ServedInv, [Next]_vars
  PROVE  ServedInv'
<1>0. live \in Config /\ req \in [Req -> Request]
  BY DEF TypeOK
<1>r. ReloadInv'
  BY ReloadNext DEF ServedInv
<1>d. ASSUME NEW r \in Req
      PROVE  /\ req[r] \in Request /\ req[r].dom \in Domain /\ req[r].dec \in Decision
             /\ Served(req[r])
  BY <1>0 DEF ServedInv, Request
<1>a. ASSUME UNCHANGED req, live'.catalog = live.catalog, reload'.next = "rules" => reload.next = "rules"
      PROVE  ServedInv'
  <2>1. ASSUME NEW r \in Req PROVE Served(req[r])'
    BY <1>a, <1>d DEF Served, Checked
  <2>2. QED
    BY <1>r, <2>1 DEF ServedInv
<1>b. ASSUME NEW r \in Req, UNCHANGED <<live, reload>>,
             \A p \in Req : p # r => req'[p] = req[p], Served(req'[r])
      PROVE  ServedInv'
  <2>1. ASSUME NEW p \in Req PROVE Served(req[p])'
    <3>1. Served(req'[p])
      BY <1>b, <1>d
    <3>2. QED
      BY <1>b, <3>1 DEF Served, Checked
  <2>2. QED
    BY <1>r, <2>1 DEF ServedInv
<1>1. ASSUME NEW r \in Req, NEW d \in Domain, Arrive(r, d) PROVE ServedInv'
  <2>1. /\ \A p \in Req : p # r => req'[p] = req[p]
        /\ req'[r] = [pc |-> "decide", dom |-> d, cat |-> live.catalog,
                      dec |-> NoDecision, answer |-> NoName,
                      quiet |-> live.mode = "stub-only", steady |-> reload.next # "rules"]
        /\ UNCHANGED <<live, reload>>
    BY <1>0, <1>1 DEF Arrive
  <2>2. req'[r].pc = "decide" /\ req'[r].cat = live.catalog /\ req'[r].steady = (reload.next # "rules")
    BY <2>1
  <2>3. Served(req'[r])
    BY <2>2 DEF Served
  <2>4. QED
    BY <1>b, <2>1, <2>3
<1>2. ASSUME NEW r \in Req, NEW d \in Domain, Splice(r, d) PROVE ServedInv'
  <2>1. /\ \A p \in Req : p # r => req'[p] = req[p]
        /\ req'[r].pc = "spliced" /\ req'[r].dec = NoDecision
        /\ UNCHANGED <<live, reload>>
    BY <1>0, <1>2 DEF Splice
  <2>2. Served(req'[r])
    BY <2>1 DEF Served, Checked, NoDecision
  <2>3. QED
    BY <1>b, <2>1, <2>2
<1>3. ASSUME NEW r \in Req, NEW dec \in Decisions(req[r].dom, req[r].cat), Decide(r, dec)
      PROVE  ServedInv'
  <2>1. /\ \A p \in Req : p # r => req'[p] = req[p]
        /\ req[r].pc = "decide"
        /\ req'[r] = [req[r] EXCEPT !.pc = "gate", !.dec = dec]
        /\ UNCHANGED <<live, reload>>
    BY <1>0, <1>3 DEF Decide
  <2>2. /\ req'[r].pc = "gate" /\ req'[r].dec = dec /\ req'[r].cat = req[r].cat
        /\ req'[r].steady = req[r].steady
    BY <1>d, <2>1 DEF Request
  <2>3. ASSUME req[r].steady, Checked(dec) PROVE dec.catalog \in req[r].cat
    <3>1. reload.next # "rules" /\ req[r].cat = live.catalog
      BY <1>d, <2>1, <2>3 DEF Served
    <3>2. validateRefs(live)
      BY <3>1 DEF ServedInv, ReloadInv
    <3>3. QED
      BY <1>d, <2>3, <3>1, <3>2, DecisionChecked
  <2>4. Served(req'[r])
    BY <1>d, <2>1, <2>2, <2>3 DEF Served
  <2>5. QED
    BY <1>b, <2>1, <2>4
<1>4. ASSUME NEW r \in Req, Gate(r) PROVE ServedInv'
  <2> DEFINE dec == stubOnlyGate(live.mode, req[r].dec)
  <2>1. /\ \A p \in Req : p # r => req'[p] = req[p]
        /\ req[r].pc = "gate"
        /\ req'[r] = [req[r] EXCEPT !.pc = "dispatch", !.dec = dec]
        /\ UNCHANGED <<live, reload>>
    BY <1>0, <1>4 DEF Gate
  <2>2. Checked(dec) => dec = req[r].dec
    BY DEF stubOnlyGate, Checked
  <2> HIDE DEF dec
  <2>3. /\ req'[r].pc = "dispatch" /\ req'[r].dec = dec /\ req'[r].cat = req[r].cat
        /\ req'[r].steady = req[r].steady
    BY <1>d, <2>1 DEF Request
  <2>4. Served(req'[r])
    BY <1>d, <2>1, <2>2, <2>3 DEF Served
  <2>5. QED
    BY <1>b, <2>1, <2>4
<1>5. ASSUME NEW r \in Req, NEW answer, Done(r, answer), UNCHANGED <<live, reload>>,
             req[r].steady /\ Checked(req[r].dec) => answer = req[r].dec.catalog
      PROVE  ServedInv'
  <2>1. /\ \A p \in Req : p # r => req'[p] = req[p]
        /\ req'[r] = [req[r] EXCEPT !.pc = "done", !.answer = answer, !.cat = {}, !.quiet = FALSE]
    BY <1>0, <1>5 DEF Done
  <2>2. /\ req'[r].pc = "done" /\ req'[r].dec = req[r].dec /\ req'[r].answer = answer
        /\ req'[r].steady = req[r].steady
    BY <1>d, <2>1 DEF Request
  <2>3. Served(req'[r])
    BY <1>5, <2>2 DEF Served
  <2>4. QED
    BY <1>5, <1>b, <2>1, <2>3
<1>6. ASSUME NEW r \in Req, ServeStub(r) PROVE ServedInv'
  <2>1. /\ Done(r, Stub(req[r].cat, IF req[r].dec.action = "stub" THEN req[r].dec.catalog ELSE Safe))
        /\ UNCHANGED <<live, reload>> /\ req[r].pc = "dispatch"
    BY <1>6 DEF ServeStub
  <2>2. req[r].steady /\ Checked(req[r].dec)
          => /\ req[r].dec.action = "stub"
             /\ Stub(req[r].cat, req[r].dec.catalog) = req[r].dec.catalog
    BY <1>d, <2>1 DEF Served, Checked, Stub
  <2>3. QED
    BY <1>5, <2>1, <2>2
<1>7. ASSUME NEW r \in Req, Admit(r) \/ PassThrough(r) PROVE ServedInv'
  <2>1. /\ \A p \in Req : p # r => req'[p] = req[p]
        /\ req'[r] = [req[r] EXCEPT !.pc = "origin"]
        /\ UNCHANGED <<live, reload>>
        /\ req[r].dec.action # "stub"
    BY <1>0, <1>7 DEF Admit, PassThrough, ContactsUpstream
  <2>2. req'[r].pc = "origin" /\ req'[r].dec = req[r].dec
    BY <1>d, <2>1 DEF Request
  <2>3. Served(req'[r])
    BY <2>1, <2>2 DEF Served, Checked
  <2>4. QED
    BY <1>b, <2>1, <2>3
<1>8. ASSUME NEW r \in Req,
             \/ SpliceEnds(r) \/ ServeBlocked(r) \/ ForwardOK(r) \/ ForwardCut(r)
             \/ \E seen \in {"failed", "aborted"} : ForwardFails(r, seen)
             \/ \E seen \in {"ok", "failed", "cached"}, answer \in Answer : ServeMimic(r, seen, answer)
      PROVE  ServedInv'
  <2>1. ~Checked(req[r].dec)
    <3>1. CASE ServeBlocked(r)
      BY <3>1 DEF ServeBlocked, ContactsUpstream, Checked
    <3>2. CASE ~ServeBlocked(r)
      <4>1. req[r].pc \in {"origin", "spliced"}
        BY <1>8, <3>2 DEF SpliceEnds, ForwardOK, ForwardCut, ForwardFails, ServeMimic, Forwarding
      <4>2. QED
        BY <1>d, <4>1 DEF Served
    <3>3. QED
      BY <3>1, <3>2
  <2>2. (\E answer : Done(r, answer)) /\ UNCHANGED <<live, reload>>
    BY <1>8 DEF SpliceEnds, ServeBlocked, ForwardOK, ForwardCut, ForwardFails, ServeMimic
  <2>3. QED
    BY <1>5, <2>1, <2>2
<1>9. ASSUME NEW f \in File, ReloadBegin(f) PROVE ServedInv'
  <2>1. UNCHANGED <<req, live>> /\ (reload' = reload \/ reload'.next = "catalog")
    BY <1>9 DEF ReloadBegin
  <2>2. QED
    BY <1>a, <2>1
<1>10. ASSUME SwapCatalog \/ SwapRules PROVE ServedInv'
  <2>1. ASSUME NEW r \in Req PROVE Served(req[r])'
    <3>1. req'[r] = [req[r] EXCEPT !.steady = FALSE]
      BY <1>10 DEF SwapCatalog, SwapRules, Unsettle
    <3>2. ~req'[r].steady /\ req'[r].pc = req[r].pc /\ req'[r].dec = req[r].dec
      BY <1>d, <3>1 DEF Request
    <3>3. QED
      BY <1>d, <3>2 DEF Served, Checked
  <2>2. QED
    BY <1>r, <2>1 DEF ServedInv
<1>11. ASSUME SwapMode \/ SwapUnknown PROVE ServedInv'
  <2>1. live'.catalog = live.catalog
    BY <1>0, <1>11 DEF SwapMode, SwapUnknown, Config
  <2>2. reload'.next # "rules"
    <3>1. reload \in ReloadState /\ reload.next \in {"mode", "unknown"}
      BY <1>11 DEF TypeOK, SwapMode, SwapUnknown, Swap
    <3>2. QED
      BY <1>11, <3>1 DEF SwapMode, SwapUnknown, Swap, ReloadState, NoReload
  <2>3. ASSUME NEW r \in Req PROVE Served(req[r])'
    <3>1. /\ req'[r].steady = req[r].steady /\ req'[r].pc = req[r].pc /\ req'[r].cat = req[r].cat
          /\ req'[r].dec = req[r].dec /\ req'[r].answer = req[r].answer
      BY <1>d, <1>11 DEF SwapMode, SwapUnknown, Request
    <3>2. QED
      BY <1>d, <2>1, <2>2, <3>1 DEF Served, Checked
  <2>4. QED
    BY <1>r, <2>3 DEF ServedInv
<1>12. ASSUME \/ \E d \in Domain : (\E a \in TempAction : AddTempRule(d, a)) \/ TempExpires(d)
                                     \/ Cooldown(d)
              \/ UNCHANGED vars
       PROVE  ServedInv'
  BY <1>a, <1>12 DEF AddTempRule, TempExpires, Cooldown, vars
<1>13. QED
  BY <1>1, <1>2, <1>3, <1>4, <1>6, <1>7, <1>8, <1>9, <1>10, <1>11, <1>12 DEF Next

\* For any files, any rules and any number of requests and reloads: a request that
\* does not overlap the stores of a reload is answered with the stub its rule names.
THEOREM RuleStubServedCorrect == Spec => []RuleStubServed
<1>1. Init => ServedInv
  <2> SUFFICES ASSUME Init PROVE ServedInv
    OBVIOUS
  <2>1. ReloadInv
    BY DEF Init, ReloadInv, NoReload
  <2>2. ASSUME NEW r \in Req PROVE Served(req[r])
    <3>1. PICK d \in Domain : req[r] = NoRequest(d)
      BY DEF Init
    <3>2. QED
      BY <3>1 DEF NoRequest, Served
  <2>3. QED
    BY <2>1, <2>2 DEF ServedInv
<1>2. TypeOK /\ ServedInv /\ [Next]_vars => ServedInv'
  BY ServedNext
<1>3. ServedInv => RuleStubServed
  BY DEF ServedInv, Served, Checked, RuleStubServed
<1>4. QED
  BY <1>1, <1>2, <1>3, TypeCorrect, PTL DEF Spec

=============================================================================
