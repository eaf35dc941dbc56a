--------------------------- MODULE CircuitBreaker ---------------------------
(***************************************************************************)
(* The per-domain circuit breaker of internal/server/breaker.go.  A domain *)
(* without a breakerState behaves as one with no failures and a zero       *)
(* openUntil.  Time is abstracted to where openUntil lies: "zero" (unset), *)
(* "future" or "past".                                                     *)
(***************************************************************************)
EXTENDS Naturals

CONSTANTS Domain, Threshold

\* newBreaker replaces a threshold that is not positive by 5.
ASSUME ThresholdAssumption == Threshold \in Nat \ {0}

VARIABLES failures, openUntil

bvars == <<failures, openUntil>>

BreakerTypeOK ==
  /\ failures \in [Domain -> Nat]
  /\ openUntil \in [Domain -> {"zero", "future", "past"}]

BreakerInit ==
  /\ failures = [d \in Domain |-> 0]
  /\ openUntil = [d \in Domain |-> "zero"]

Reset(d) ==
  /\ failures' = [failures EXCEPT ![d] = 0]
  /\ openUntil' = [openUntil EXCEPT ![d] = "zero"]

\* Allow when it answers true; past the cooldown it starts a new window.
Allow(d) ==
  /\ openUntil[d] # "future"
  /\ IF openUntil[d] = "past" THEN Reset(d) ELSE UNCHANGED bvars

\* Allow when it answers false.
Deny(d) == openUntil[d] = "future" /\ UNCHANGED bvars

\* Mutant: a success takes one failure back and leaves the window.
RecordSuccess_Decrements(d) ==
  failures' = [failures EXCEPT ![d] = @ - 1] /\ UNCHANGED openUntil

RecordSuccess(d) == Reset(d)

\* Mutant: the window opens one failure late.
RecordFailure_Late(d) ==
  /\ failures' = [failures EXCEPT ![d] = @ + 1]
  /\ openUntil' = IF failures[d] >= Threshold /\ openUntil[d] = "zero"
                  THEN [openUntil EXCEPT ![d] = "future"]
                  ELSE openUntil

RecordFailure(d) ==
  /\ failures' = [failures EXCEPT ![d] = @ + 1]
  /\ openUntil' = IF failures[d] + 1 >= Threshold /\ openUntil[d] = "zero"
                  THEN [openUntil EXCEPT ![d] = "future"]
                  ELSE openUntil

CooldownElapses(d) ==
  /\ openUntil[d] = "future"
  /\ openUntil' = [openUntil EXCEPT ![d] = "past"]
  /\ UNCHANGED failures

\* The two fields agree: a window is set exactly when the failures of the current
\* window have reached the threshold, however late answers arrive; a window left
\* over a cleared count, or a full count without a window, would block a healthy
\* origin or never block a broken one.
OpenAtThreshold ==
  \A d \in Domain : openUntil[d] # "zero" <=> failures[d] >= Threshold

=============================================================================
