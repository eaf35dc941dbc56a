------------------------------ MODULE LoginGuard ------------------------------
(***************************************************************************)
(* The lockout of password guessing in the admin login: handleLogin asks    *)
(* ipLocked and locked, verifies the password without holding a lock, and   *)
(* then records the outcome in sessionManager's two tables.  Attempts run   *)
(* concurrently, so several can be between the check and the record.        *)
(*                                                                         *)
(* A time is reduced to what the code asks of it: a lock's end is unset     *)
(* ("zero"), still to come ("future") or over ("past").  An absent entry of *)
(* locks equals one with no failure and no lock.                            *)
(***************************************************************************)
EXTENDS Naturals, FiniteSets

CONSTANTS Account,         \* user names that exist
          Stranger,        \* user names that do not
          Addr,            \* client addresses
          Attempt,         \* concurrent login requests
          LockThreshold, IPLockThreshold, IPLockMapMax

ASSUME GuardAssumption ==
  /\ IsFiniteSet(Attempt) /\ Account \cap Stranger = {}
  /\ {LockThreshold, IPLockThreshold} \subseteq Nat \ {0}
  /\ IPLockMapMax \in Nat

VARIABLES guardLocks, \* locks: failures and end of the lock, per account
          guardIPs,   \* ipLocks: the same for the addresses it has an entry for
          guardTry,   \* where each login request is
          guardWrong, \* wrong passwords tried on an account since its count began
          guardIPWrong \* wrong passwords tried from an address since its count began

guardVars == <<guardLocks, guardIPs, guardTry, guardWrong, guardIPWrong>>

LockEnd == {"zero", "future", "past"}
GuardIdle == [pc |-> "idle"]
NoLock == [failures |-> 0, until |-> "zero"]

GuardTypeOK ==
  /\ guardLocks \in [Account -> [failures : 0 .. LockThreshold - 1, until : LockEnd]]
  /\ DOMAIN guardIPs \subseteq Addr /\ Cardinality(DOMAIN guardIPs) <= IPLockMapMax
  /\ \A a \in DOMAIN guardIPs :
       guardIPs[a] \in [failures : 0 .. IPLockThreshold - 1, until : LockEnd]
  /\ guardTry \in [Attempt -> {GuardIdle} \cup
       [pc : {"user", "verify", "fail", "ip"}, user : Account \cup Stranger, addr : Addr]]
  /\ guardWrong \in [Account -> Nat] /\ guardIPWrong \in [Addr -> Nat]

GuardInit ==
  /\ guardLocks = [u \in Account |-> NoLock]
  /\ guardIPs = [a \in {} |-> NoLock]
  /\ guardTry = [t \in Attempt |-> GuardIdle]
  /\ guardWrong = [u \in Account |-> 0]
  /\ guardIPWrong = [a \in Addr |-> 0]

-----------------------------------------------------------------------------
Locked(entry) == entry.until = "future"

\* One more failure: at the threshold the lock starts and the count restarts.
Bump(entry, threshold) ==
  IF entry.failures + 1 >= threshold
  THEN [failures |-> 0, until |-> "future"]
  ELSE [entry EXCEPT !.failures = @ + 1]

\* Wrong attempts on u whose failure is not recorded yet.
Unrecorded(u) ==
  Cardinality({t \in Attempt : guardTry[t].pc = "fail" /\ guardTry[t].user = u})

UnrecordedFrom(a) ==
  Cardinality({t \in Attempt : guardTry[t].pc \in {"fail", "ip"} /\ guardTry[t].addr = a})

Goto(t, pc) == guardTry' = [guardTry EXCEPT ![t].pc = pc]
Answer(t) == guardTry' = [guardTry EXCEPT ![t] = GuardIdle]

\* An address gets an entry unless the table is full.
Tracked(a) == a \in DOMAIN guardIPs \/ Cardinality(DOMAIN guardIPs) < IPLockMapMax

\* ipLocked
LoginArrives(t, u, a) ==
  /\ guardTry[t] = GuardIdle
  /\ a \in DOMAIN guardIPs => ~Locked(guardIPs[a])
  /\ guardTry' = [guardTry EXCEPT ![t] = [pc |-> "user", user |-> u, addr |-> a]]
  /\ UNCHANGED <<guardLocks, guardIPs, guardWrong, guardIPWrong>>

\* mutant: the account's lock is not asked
AccountLockIgnored(t) ==
  /\ guardTry[t].pc = "user"
  /\ Goto(t, "verify")
  /\ UNCHANGED <<guardLocks, guardIPs, guardWrong, guardIPWrong>>

\* locked: a locked account answers 429 at once.
AccountLocked(t) ==
  /\ guardTry[t].pc = "user"
  /\ IF guardTry[t].user \in Account /\ Locked(guardLocks[guardTry[t].user])
     THEN Answer(t) ELSE Goto(t, "verify")
  /\ UNCHANGED <<guardLocks, guardIPs, guardWrong, guardIPWrong>>

\* A wrong password, or a user that does not exist.  Failures of strangers are
\* counted for the address only.
WrongPassword(t) ==
  LET u == guardTry[t].user
      a == guardTry[t].addr
  IN  /\ guardTry[t].pc = "verify"
      /\ Goto(t, IF u \in Account THEN "fail" ELSE "ip")
      /\ guardWrong' = IF u \in Account THEN [guardWrong EXCEPT ![u] = @ + 1] ELSE guardWrong
      /\ guardIPWrong' = IF Tracked(a) THEN [guardIPWrong EXCEPT ![a] = @ + 1] ELSE guardIPWrong
      /\ UNCHANGED <<guardLocks, guardIPs>>

\* recordSuccess: the account's count is forgotten, the address's is not.
RightPassword(t) ==
  LET u == guardTry[t].user
  IN  /\ guardTry[t].pc = "verify" /\ u \in Account
      /\ Answer(t)
      /\ guardLocks' = [guardLocks EXCEPT ![u] = NoLock]
      /\ guardWrong' = [guardWrong EXCEPT ![u] = Unrecorded(u)]
      /\ UNCHANGED <<guardIPs, guardIPWrong>>

\* recordFailure: first the accounts not seen for lockSweepAge (any set of those
\* that were never locked) are forgotten, then the failure is counted.
RecordFailure(t) ==
  LET u == guardTry[t].user
  IN  /\ guardTry[t].pc = "fail"
      /\ Goto(t, "ip")
      /\ \E old \in SUBSET {v \in Account : guardLocks[v].until = "zero"} :
           LET swept == [v \in Account |-> IF v \in old THEN NoLock ELSE guardLocks[v]]
           IN  /\ guardLocks' = [swept EXCEPT ![u] = Bump(@, LockThreshold)]
               /\ guardWrong' = [v \in Account |-> IF v \in old THEN Unrecorded(v)
                                                   ELSE guardWrong[v]]
      /\ UNCHANGED <<guardIPs, guardIPWrong>>

\* recordIPFailure: an address beyond ipLockMapMax is not counted, and no entry is
\* ever removed.
RecordIPFailure(t) ==
  LET a == guardTry[t].addr
      entry == IF a \in DOMAIN guardIPs THEN guardIPs[a] ELSE NoLock
  IN  /\ guardTry[t].pc = "ip"
      /\ Answer(t)
      /\ guardIPs' = IF Tracked(a)
                     THEN [b \in DOMAIN guardIPs \cup {a} |->
                             IF b = a THEN Bump(entry, IPLockThreshold) ELSE guardIPs[b]]
                     ELSE guardIPs
      /\ UNCHANGED <<guardLocks, guardWrong, guardIPWrong>>

\* Time passes the end of a lock.
LockEnds(u) ==
  /\ Locked(guardLocks[u])
  /\ guardLocks' = [guardLocks EXCEPT ![u].until = "past"]
  /\ guardWrong' = [guardWrong EXCEPT ![u] = guardLocks[u].failures + Unrecorded(u)]
  /\ UNCHANGED <<guardIPs, guardTry, guardIPWrong>>

IPLockEnds(a) ==
  /\ Locked(guardIPs[a])
  /\ guardIPs' = [guardIPs EXCEPT ![a].until = "past"]
  /\ guardIPWrong' = [guardIPWrong EXCEPT ![a] = guardIPs[a].failures + UnrecordedFrom(a)]
  /\ UNCHANGED <<guardLocks, guardTry, guardWrong>>

GuardNext ==
  \/ \E t \in Attempt :
       \/ \E u \in Account \cup Stranger, a \in Addr : LoginArrives(t, u, a)
       \/ AccountLocked(t)
       \/ WrongPassword(t)
       \/ RightPassword(t)
       \/ RecordFailure(t)
       \/ RecordIPFailure(t)
  \/ \E u \in Account : LockEnds(u)
  \/ \E a \in DOMAIN guardIPs : IPLockEnds(a)

GuardSpec == GuardInit /\ [][GuardNext]_guardVars

-----------------------------------------------------------------------------
\* Between two pardons (a correct login, the end of a lock, half an hour without
\* a failure) an account gives away at most lockThreshold wrong guesses, plus one
\* for every other request that was already past the check when the lock began;
\* and an address the table has room for at most ipLockThreshold plus the same.
GuessBound ==
  /\ \A u \in Account : guardWrong[u] < LockThreshold + Cardinality(Attempt)
  /\ \A a \in Addr : guardIPWrong[a] < IPLockThreshold + Cardinality(Attempt)

=============================================================================
