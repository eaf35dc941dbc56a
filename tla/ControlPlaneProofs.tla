-------------------------- MODULE ControlPlaneProofs --------------------------
(***************************************************************************)
(* Proofs about the admin server: its accounts and sessions (AdminServer),  *)
(* the guard of its login form (LoginGuard) and its routes                  *)
(* (AdminEndpoints), for any number of accounts, sessions, addresses and     *)
(* concurrent requests; about the record of the requests and who reads it    *)
(* (Traffic), for any ring and any readers; and that MCControlPlane          *)
(* implements the specification of each of its components, for any constants *)
(* of theirs, so that what is proved of one alone holds in the composition.  *)
(***************************************************************************)
EXTENDS MCControlPlane, CatalogProofs

-----------------------------------------------------------------------------
(* Accounts and sessions: types.                                            *)

\* The requests by what they are doing.
LEMMA RequestKinds ==
  ASSUME NEW r \in RequestRec
  PROVE  /\ r.pc = "login" => r \in [pc : {"login"}, user : UserName, role : Role,
                                     mark : {"fresh", "excused"}]
         /\ r.pc = "create" => r \in [pc : {"create"}, target : UserName, role : Role]
         /\ r.pc = "delete" => r \in [pc : {"delete"}, target : UserName,
                                      actor : UserName, local : BOOLEAN]
         /\ r.pc \in {"reset", "destroy", "self"}
              => r \in [pc : {"reset", "destroy", "self"}, target : UserName]
BY DEF RequestRec, AdminIdle

\* A request that takes its next step, alone or while it excuses the logins of an account.
LEMMA ProceedType ==
  ASSUME AdminTypeOK, NEW c \in Client, NEW r \in RequestRec, Proceed(c, r)
  PROVE  req' \in [Client -> RequestRec]
BY DEF AdminTypeOK, Proceed

LEMMA ExcuseLoginsType ==
  ASSUME AdminTypeOK, NEW c \in Client, NEW r \in RequestRec, NEW name, ExcuseLogins(c, name, r)
  PROVE  req' \in [Client -> RequestRec]
<1>1. ASSUME NEW d \in Client, req[d].pc = "login"
      PROVE  [req[d] EXCEPT !.mark = "excused"] \in RequestRec
  <2>1. req[d] \in [pc : {"login"}, user : UserName, role : Role, mark : {"fresh", "excused"}]
    BY <1>1, RequestKinds DEF AdminTypeOK
  <2>2. [req[d] EXCEPT !.mark = "excused"]
          \in [pc : {"login"}, user : UserName, role : Role, mark : {"fresh", "excused"}]
    BY <2>1
  <2>3. QED
    BY <2>2 DEF RequestRec
<1>2. QED
  BY <1>1 DEF AdminTypeOK, ExcuseLogins

\* What marking the sessions of an account, or excusing the fresh ones, keeps.
LEMMA MarkType ==
  ASSUME AdminTypeOK, NEW name, NEW mark \in {"fresh", "revoked", "excused"},
         MarkSessions(name, mark) \/ ExcuseFresh(name)
  PROVE  DOMAIN sessions' \subseteq SessionId
         /\ \A s \in DOMAIN sessions' : sessions'[s] \in SessionRec
BY DEF AdminTypeOK, MarkSessions, ExcuseFresh, SessionRec

LEMMA UpsertType ==
  ASSUME AdminTypeOK, NEW c \in Client, Upsert(c)
  PROVE  AdminTypeOK'
<1> DEFINE name == req[c].target
<1>1. req[c] \in [pc : {"create"}, target : UserName, role : Role]
  BY RequestKinds DEF AdminTypeOK, Upsert
<1>2. DOMAIN users' \subseteq UserName /\ \A u \in DOMAIN users' : users'[u] \in AccountRec
  BY <1>1 DEF AdminTypeOK, Upsert, With, AccountRec
<1>3. DOMAIN saved' \subseteq UserName /\ \A u \in DOMAIN saved' : saved'[u] \in AccountRec
  BY <1>2 DEF AdminTypeOK, Upsert, SaveOK, SaveFails
<1>4. DOMAIN sessions' \subseteq SessionId /\ \A s \in DOMAIN sessions' : sessions'[s] \in SessionRec
  BY <1>1, MarkType DEF Upsert
<1>5. req' \in [Client -> RequestRec]
  <2>1. [pc |-> "audit"] \in RequestRec /\ AdminIdle \in RequestRec
    BY DEF RequestRec
  <2>2. QED
    BY <2>1, ExcuseLoginsType DEF Upsert
<1>6. disowned' \in BOOLEAN
  BY DEF AdminTypeOK, Upsert
<1>7. QED
  BY <1>2, <1>3, <1>4, <1>5, <1>6 DEF AdminTypeOK

LEMMA DeleteType ==
  ASSUME AdminTypeOK, NEW c \in Client, Delete(c)
  PROVE  AdminTypeOK'
<1> DEFINE name == req[c].target
<1>1. req[c] \in [pc : {"delete"}, target : UserName, actor : UserName, local : BOOLEAN]
  BY RequestKinds DEF AdminTypeOK, Delete
<1>2. DOMAIN users' \subseteq UserName /\ \A u \in DOMAIN users' : users'[u] \in AccountRec
  BY DEF AdminTypeOK, Delete, Without
<1>3. DOMAIN saved' \subseteq UserName /\ \A u \in DOMAIN saved' : saved'[u] \in AccountRec
  BY <1>2 DEF AdminTypeOK, Delete, SaveOK, SaveFails
<1>4. DOMAIN sessions' \subseteq SessionId /\ \A s \in DOMAIN sessions' : sessions'[s] \in SessionRec
  BY MarkType DEF Delete
<1>5. req' \in [Client -> RequestRec]
  <2>1. [pc |-> "destroy", target |-> name] \in RequestRec /\ AdminIdle \in RequestRec
    BY <1>1 DEF RequestRec
  <2>2. QED
    BY <2>1, ExcuseLoginsType DEF Delete
<1>6. disowned' \in BOOLEAN
  BY DEF AdminTypeOK, Delete
<1>7. QED
  BY <1>2, <1>3, <1>4, <1>5, <1>6 DEF AdminTypeOK

LEMMA SetPasswordType ==
  ASSUME AdminTypeOK, NEW c \in Client, SetPassword(c)
  PROVE  AdminTypeOK'
<1> DEFINE name == req[c].target
<1>1. req[c] \in [pc : {"reset", "destroy", "self"}, target : UserName]
  BY RequestKinds DEF AdminTypeOK, SetPassword
<1>2. DOMAIN users' \subseteq UserName /\ \A u \in DOMAIN users' : users'[u] \in AccountRec
  BY DEF AdminTypeOK, SetPassword, AccountRec
<1>3. DOMAIN saved' \subseteq UserName /\ \A u \in DOMAIN saved' : saved'[u] \in AccountRec
  BY <1>2 DEF AdminTypeOK, SetPassword, SaveOK, SaveFails
<1>4. DOMAIN sessions' \subseteq SessionId /\ \A s \in DOMAIN sessions' : sessions'[s] \in SessionRec
  BY MarkType DEF SetPassword
<1>5. req' \in [Client -> RequestRec]
  <2>1. [pc |-> "destroy", target |-> name] \in RequestRec /\ AdminIdle \in RequestRec
    BY <1>1 DEF RequestRec
  <2>2. QED
    BY <2>1, ExcuseLoginsType DEF SetPassword
<1>7. QED
  BY <1>2, <1>3, <1>4, <1>5 DEF AdminTypeOK, SetPassword

LEMMA SetOwnPasswordType ==
  ASSUME AdminTypeOK, NEW c \in Client, SetOwnPassword(c)
  PROVE  AdminTypeOK'
<1>1. DOMAIN users' \subseteq UserName /\ \A u \in DOMAIN users' : users'[u] \in AccountRec
  BY DEF AdminTypeOK, SetOwnPassword, AccountRec
<1>2. DOMAIN saved' \subseteq UserName /\ \A u \in DOMAIN saved' : saved'[u] \in AccountRec
  BY <1>1 DEF AdminTypeOK, SetOwnPassword, SaveOK, SaveFails
<1>3. req' \in [Client -> RequestRec]
  <2>1. [pc |-> "audit"] \in RequestRec /\ AdminIdle \in RequestRec
    BY DEF RequestRec
  <2>2. QED
    BY <2>1, ProceedType DEF SetOwnPassword, Reply, Proceed, AdminTypeOK
<1>4. QED
  BY <1>1, <1>2, <1>3 DEF AdminTypeOK, SetOwnPassword

\* The roles that the identity provider's groups stand for are roles.
LEMMA GroupRoles ==
  ASSUME NEW groups
  PROVE  MapGroupsToRole(groups, GroupRole) \subseteq Role
BY AdminAssumption DEF MapGroupsToRole

\* A session that is opened has the type of one.
LEMMA NewSessionType ==
  ASSUME AdminTypeOK, NEW s \in SessionId, NEW user \in UserName, NEW role \in Role,
         NEW local \in BOOLEAN, NEW mark \in {"fresh", "excused"},
         NewSession(s, user, role, local, mark)
  PROVE  DOMAIN sessions' \subseteq SessionId
         /\ \A t \in DOMAIN sessions' : sessions'[t] \in SessionRec
BY DEF AdminTypeOK, NewSession, With, SessionRec

\* Requests that start, and steps that leave the accounts alone.
LEMMA RequestType ==
  ASSUME AdminTypeOK, NEW c \in Client,
         \/ \E u \in UserName : LoginRight(c, u)
         \/ LoginRefused(c)
         \/ \E s \in SessionId, u \in UserName, r \in GrantRole : UserCreate(c, s, u, r)
         \/ \E s \in SessionId, u \in UserName : UserDelete(c, s, u)
         \/ \E s \in SessionId, u \in UserName : UserSetPassword(c, s, u)
         \/ SetPasswordNotFound(c)
         \/ \E s \in SessionId : ChangePassword(c, s)
  PROVE  AdminTypeOK'
<1>1. ASSUME NEW u \in UserName, LoginRight(c, u) PROVE AdminTypeOK'
  <2>1. [pc |-> "login", user |-> u, role |-> users[u].role, mark |-> "fresh"] \in RequestRec
    BY <1>1 DEF LoginRight, AdminTypeOK, AccountRec, RequestRec
  <2>2. QED
    BY <1>1, <2>1, ProceedType DEF LoginRight, AdminTypeOK
<1>2. CASE LoginRefused(c)
  <2>1. [pc |-> "audit"] \in RequestRec
    BY DEF RequestRec
  <2>2. QED
    BY <1>2, <2>1, ProceedType DEF LoginRefused, AdminTypeOK
<1>3. ASSUME NEW s \in SessionId, NEW u \in UserName, NEW r \in GrantRole, UserCreate(c, s, u, r)
      PROVE  AdminTypeOK'
  <2>1. [pc |-> "create", target |-> u, role |-> r] \in RequestRec
    BY AdminAssumption DEF RequestRec
  <2>2. QED
    BY <1>3, <2>1, ProceedType DEF UserCreate, AdminTypeOK
<1>4. ASSUME NEW s \in SessionId, NEW u \in UserName, UserDelete(c, s, u) PROVE AdminTypeOK'
  <2>1. sessions[s] \in SessionRec
    BY <1>4 DEF AdminTypeOK, UserDelete, Authorized
  <2>2. [pc |-> "delete", target |-> u, actor |-> sessions[s].user,
         local |-> sessions[s].local] \in RequestRec
    BY <2>1 DEF SessionRec, RequestRec
  <2>3. QED
    BY <1>4, <2>2, ProceedType DEF UserDelete, AdminTypeOK
<1>5. ASSUME NEW s \in SessionId, NEW u \in UserName, UserSetPassword(c, s, u) PROVE AdminTypeOK'
  <2>1. [pc |-> "reset", target |-> u] \in RequestRec
    BY DEF RequestRec
  <2>2. QED
    BY <1>5, <2>1, ProceedType DEF UserSetPassword, AdminTypeOK
<1>6. CASE SetPasswordNotFound(c)
  BY <1>6 DEF SetPasswordNotFound, Reply, AdminTypeOK, RequestRec
<1>7. ASSUME NEW s \in SessionId, ChangePassword(c, s) PROVE AdminTypeOK'
  <2>1. sessions[s] \in SessionRec
    BY <1>7 DEF AdminTypeOK, ChangePassword
  <2>2. [pc |-> "self", target |-> sessions[s].user] \in RequestRec
    BY <2>1 DEF SessionRec, RequestRec
  <2>3. QED
    BY <1>7, <2>2, ProceedType DEF ChangePassword, AdminTypeOK
<1>8. QED
  BY <1>1, <1>2, <1>3, <1>4, <1>5, <1>6, <1>7

\* Steps of sessions, and the audit entry.
LEMMA SessionType ==
  ASSUME AdminTypeOK,
         \/ \E c \in Client, s \in SessionId : LoginSession(c, s)
         \/ \E c \in Client, s \in SessionId, u \in SSOName, g \in SUBSET DOMAIN GroupRole :
              OIDCCallback(c, s, u, g)
         \/ \E c \in Client : DestroyUser(c) \/ Audit(c)
         \/ \E s \in SessionId : SessionEnds(s)
  PROVE  AdminTypeOK'
<1>a. [pc |-> "audit"] \in RequestRec /\ AdminIdle \in RequestRec
  BY DEF RequestRec
<1>1. ASSUME NEW c \in Client, NEW s \in SessionId, LoginSession(c, s) PROVE AdminTypeOK'
  <2>1. req[c] \in [pc : {"login"}, user : UserName, role : Role, mark : {"fresh", "excused"}]
    BY <1>1, RequestKinds DEF AdminTypeOK, LoginSession
  <2>2. DOMAIN sessions' \subseteq SessionId
        /\ \A t \in DOMAIN sessions' : sessions'[t] \in SessionRec
    BY <1>1, <2>1, NewSessionType DEF LoginSession
  <2>3. QED
    BY <1>1, <1>a, <2>2, ProceedType, SMTT(30) DEF LoginSession, AdminTypeOK
<1>2. ASSUME NEW c \in Client, NEW s \in SessionId, NEW u \in SSOName,
             NEW g \in SUBSET DOMAIN GroupRole, OIDCCallback(c, s, u, g)
      PROVE  AdminTypeOK'
  <2>1. PICK role \in MapGroupsToRole(g, GroupRole) : NewSession(s, u, role, FALSE, "fresh")
    BY <1>2 DEF OIDCCallback
  <2>2. role \in Role /\ u \in UserName
    BY GroupRoles, AdminAssumption
  <2>3. DOMAIN sessions' \subseteq SessionId
        /\ \A t \in DOMAIN sessions' : sessions'[t] \in SessionRec
    BY <2>1, <2>2, NewSessionType
  <2>4. QED
    BY <1>2, <1>a, <2>3, ProceedType DEF OIDCCallback, AdminTypeOK
<1>3. ASSUME NEW c \in Client, DestroyUser(c) PROVE AdminTypeOK'
  BY <1>3, <1>a, ProceedType DEF DestroyUser, AdminTypeOK
<1>4. ASSUME NEW c \in Client, Audit(c) PROVE AdminTypeOK'
  <2>1. req' \in [Client -> RequestRec]
    BY <1>4, <1>a DEF Audit, Reply, AdminTypeOK
  <2>2. QED
    BY <1>4, <2>1 DEF Audit, SaveOK, SaveFails, AdminTypeOK
<1>5. ASSUME NEW s \in SessionId, SessionEnds(s) PROVE AdminTypeOK'
  BY <1>5 DEF SessionEnds, Without, AdminTypeOK
<1>6. QED
  BY <1>1, <1>2, <1>3, <1>4, <1>5

\* A store that is opened empty gets the bootstrap account, another one is left as it is.
LEMMA BootstrappedType ==
  ASSUME NEW accounts, DOMAIN accounts \subseteq UserName,
         \A u \in DOMAIN accounts : accounts[u] \in AccountRec
  PROVE  /\ DOMAIN Bootstrapped(accounts) \subseteq UserName
         /\ \A u \in DOMAIN Bootstrapped(accounts) : Bootstrapped(accounts)[u] \in AccountRec
BY AdminAssumption DEF Bootstrapped, With, AccountRec, Role, roleCaps

LEMMA AdminRestartType ==
  ASSUME AdminTypeOK, AdminRestart
  PROVE  AdminTypeOK'
<1>1. DOMAIN users' \subseteq UserName /\ \A u \in DOMAIN users' : users'[u] \in AccountRec
  BY BootstrappedType DEF AdminTypeOK, AdminRestart
<1>2. DOMAIN saved' \subseteq UserName /\ \A u \in DOMAIN saved' : saved'[u] \in AccountRec
  BY <1>1 DEF AdminTypeOK, AdminRestart, SaveOK, SaveFails
<1>3. QED
  BY <1>1, <1>2 DEF AdminTypeOK, AdminRestart, NoSessions, RequestRec

LEMMA AdminInitType == AdminInit => AdminTypeOK
<1> SUFFICES ASSUME AdminInit PROVE AdminTypeOK
  OBVIOUS
<1>1. DOMAIN NoAccounts = {}
  BY DEF NoAccounts
<1>2. DOMAIN users \subseteq UserName /\ \A u \in DOMAIN users : users[u] \in AccountRec
  BY <1>1, BootstrappedType DEF AdminInit
<1>3. DOMAIN saved \subseteq UserName /\ \A u \in DOMAIN saved : saved[u] \in AccountRec
  BY <1>1, <1>2 DEF AdminInit
<1>4. QED
  BY <1>2, <1>3 DEF AdminInit, AdminTypeOK, NoSessions, RequestRec

LEMMA AdminNextType ==
  ASSUME AdminTypeOK, [AdminNext]_adminVars
  PROVE  AdminTypeOK'
<1>1. CASE AdminNext
  BY <1>1, RequestType, UpsertType, DeleteType, SetPasswordType, SetOwnPasswordType,
     SessionType, AdminRestartType DEF AdminNext
<1>2. CASE UNCHANGED adminVars
  BY <1>2 DEF adminVars, AdminTypeOK
<1>3. QED
  BY <1>1, <1>2

\* The accounts, the sessions and the requests keep their types: handlers, saves that
\* fail and restarts never leave an account, a session or a request of another shape.
THEOREM AdminTypes == AdminSpec => []AdminTypeOK
<1>1. AdminTypeOK /\ [AdminNext]_adminVars => AdminTypeOK'
  BY AdminNextType
<1>2. QED
  BY AdminInitType, <1>1, PTL DEF AdminSpec

-----------------------------------------------------------------------------
(* Sessions against accounts.                                               *)

\* A login that has verified its password carries the role of an account that exists,
\* unless the account has changed since.
LoginsCurrent ==
  \A c \in Client :
    req[c].pc = "login" /\ req[c].mark = "fresh" =>
      /\ req[c].user \in DOMAIN users
      /\ users[req[c].user].role = req[c].role

SessionInv == AdminTypeOK /\ SessionsCurrent /\ LoginsCurrent

\* The roles of the accounts other than name are as before.
RolesKept(name) ==
  \A u \in DOMAIN users : u # name => u \in DOMAIN users' /\ users'[u].role = users[u].role

\* Steps that mark or excuse the sessions and the logins of an account keep the rest of
\* the invariant: a change of the account finds nothing fresh of that name.
LEMMA ExcusedSessions ==
  ASSUME SessionInv, NEW c \in Client, NEW name, NEW r, RolesKept(name),
         req[c].pc # "destroy", r.pc # "login",
         ExcuseLogins(c, name, r),
         \/ ExcuseFresh(name)
         \/ MarkSessions(name, "revoked") /\ r.pc = "destroy" /\ r.target = name
  PROVE  SessionsCurrent' /\ LoginsCurrent'
<1>1. req'[c] = r
  BY DEF ExcuseLogins
<1>2. ASSUME NEW d \in Client, d # c
      PROVE  /\ req'[d].pc = req[d].pc
             /\ req[d].pc = "destroy" => req'[d] = req[d]
             /\ req[d].pc = "login" => req'[d].user = req[d].user /\ req'[d].role = req[d].role
             /\ req[d].pc = "login" /\ req'[d].mark = "fresh"
                  => req[d].mark = "fresh" /\ req[d].user # name
  <2>1. CASE req[d].pc = "login"
    <3>1. req[d] \in [pc : {"login"}, user : UserName, role : Role, mark : {"fresh", "excused"}]
      BY <2>1, RequestKinds DEF SessionInv, AdminTypeOK
    <3>2. QED
      BY <1>2, <2>1, <3>1 DEF ExcuseLogins
  <2>2. CASE req[d].pc # "login"
    BY <1>2, <2>2 DEF ExcuseLogins
  <2>3. QED
    BY <2>1, <2>2
<1>3. LoginsCurrent'
  <2> SUFFICES ASSUME NEW d \in Client, req'[d].pc = "login", req'[d].mark = "fresh"
               PROVE  req'[d].user \in DOMAIN users' /\ users'[req'[d].user].role = req'[d].role
    BY DEF LoginsCurrent
  <2>1. d # c
    BY <1>1
  <2>2. QED
    BY <1>2, <2>1 DEF SessionInv, LoginsCurrent, RolesKept
<1>4. SessionsCurrent'
  <2> SUFFICES ASSUME NEW s \in DOMAIN sessions'
               PROVE  /\ sessions'[s].mark = "revoked" =>
                           \E d \in Client : req'[d].pc = "destroy"
                                             /\ req'[d].target = sessions'[s].user
                      /\ sessions'[s].mark = "fresh" /\ sessions'[s].local =>
                           /\ sessions'[s].user \in DOMAIN users'
                           /\ users'[sessions'[s].user].role = sessions'[s].role
    BY DEF SessionsCurrent
  <2>1. s \in DOMAIN sessions /\ sessions[s] \in SessionRec
    BY DEF ExcuseFresh, MarkSessions, SessionInv, AdminTypeOK
  <2>2. sessions'[s].user = sessions[s].user /\ sessions'[s].role = sessions[s].role
        /\ sessions'[s].local = sessions[s].local
    BY <2>1 DEF ExcuseFresh, MarkSessions, SessionRec
  <2>3. sessions'[s].mark = "fresh" => sessions[s].mark = "fresh" /\ sessions[s].user # name
    BY <2>1 DEF ExcuseFresh, MarkSessions, SessionRec
  <2>4. sessions'[s].mark = "revoked" =>
          \/ sessions[s].mark = "revoked"
          \/ r.pc = "destroy" /\ r.target = name /\ sessions[s].user = name
    BY <2>1 DEF ExcuseFresh, MarkSessions, SessionRec
  <2>5. ASSUME sessions'[s].mark = "revoked"
        PROVE  \E d \in Client : req'[d].pc = "destroy" /\ req'[d].target = sessions'[s].user
    <3>1. CASE sessions[s].mark = "revoked"
      <4>1. PICK d \in Client : req[d].pc = "destroy" /\ req[d].target = sessions[s].user
        BY <2>1, <3>1 DEF SessionInv, SessionsCurrent
      <4>2. QED
        BY <1>2, <2>2, <4>1
    <3>2. CASE sessions[s].mark # "revoked"
      BY <1>1, <2>2, <2>4, <2>5, <3>2
    <3>3. QED
      BY <3>1, <3>2
  <2>6. QED
    BY <2>1, <2>2, <2>3, <2>5 DEF SessionInv, SessionsCurrent, RolesKept
<1>5. QED
  BY <1>3, <1>4

\* A request that goes from one step to another, neither of them a revocation's, with the
\* roles of all accounts and the sessions as they were.
LEMMA ProceedSessions ==
  ASSUME SessionInv, NEW c \in Client, NEW r, Proceed(c, r),
         req[c].pc # "destroy",
         r.pc = "login" /\ r.mark = "fresh"
           => r.user \in DOMAIN users' /\ users'[r.user].role = r.role,
         \A u \in DOMAIN users : u \in DOMAIN users' /\ users'[u].role = users[u].role,
         UNCHANGED sessions
  PROVE  SessionsCurrent' /\ LoginsCurrent'
<1>1. req'[c] = r /\ \A d \in Client : d # c => req'[d] = req[d]
  BY DEF Proceed, SessionInv, AdminTypeOK
<1>2. LoginsCurrent'
  BY <1>1 DEF LoginsCurrent, SessionInv
<1>3. SessionsCurrent'
  <2> SUFFICES ASSUME NEW s \in DOMAIN sessions
               PROVE  /\ sessions[s].mark = "revoked" =>
                           \E d \in Client : req'[d].pc = "destroy"
                                             /\ req'[d].target = sessions[s].user
                      /\ sessions[s].mark = "fresh" /\ sessions[s].local =>
                           /\ sessions[s].user \in DOMAIN users'
                           /\ users'[sessions[s].user].role = sessions[s].role
    BY DEF SessionsCurrent
  <2>1. ASSUME sessions[s].mark = "revoked"
        PROVE  \E d \in Client : req'[d].pc = "destroy" /\ req'[d].target = sessions[s].user
    <3>1. PICK d \in Client : req[d].pc = "destroy" /\ req[d].target = sessions[s].user
      BY <2>1 DEF SessionInv, SessionsCurrent
    <3>2. QED
      BY <1>1, <3>1
  <2>2. QED
    BY <2>1 DEF SessionInv, SessionsCurrent
<1>4. QED
  BY <1>2, <1>3

\* A session that is opened, with the accounts as they were.
LEMMA NewSessionSessions ==
  ASSUME SessionInv, NEW c \in Client, NEW s, NEW user, NEW role, NEW local \in BOOLEAN,
         NEW mark \in {"fresh", "excused"},
         NewSession(s, user, role, local, mark), Proceed(c, [pc |-> "audit"]),
         req[c].pc # "destroy", UNCHANGED users,
         mark = "fresh" /\ local => user \in DOMAIN users /\ users[user].role = role
  PROVE  SessionsCurrent' /\ LoginsCurrent'
<1>1. req'[c] = [pc |-> "audit"] /\ \A d \in Client : d # c => req'[d] = req[d]
  BY DEF Proceed, SessionInv, AdminTypeOK
<1>2. LoginsCurrent'
  BY <1>1 DEF LoginsCurrent, SessionInv
<1>3. SessionsCurrent'
  <2> SUFFICES ASSUME NEW t \in DOMAIN sessions'
               PROVE  /\ sessions'[t].mark = "revoked" =>
                           \E d \in Client : req'[d].pc = "destroy"
                                             /\ req'[d].target = sessions'[t].user
                      /\ sessions'[t].mark = "fresh" /\ sessions'[t].local =>
                           /\ sessions'[t].user \in DOMAIN users
                           /\ users[sessions'[t].user].role = sessions'[t].role
    BY DEF SessionsCurrent
  <2>1. CASE t = s
    BY <2>1 DEF NewSession, With
  <2>2. CASE t # s
    <3>1. t \in DOMAIN sessions /\ sessions'[t] = sessions[t]
      BY <2>2 DEF NewSession, With
    <3>2. ASSUME sessions[t].mark = "revoked"
          PROVE  \E d \in Client : req'[d].pc = "destroy" /\ req'[d].target = sessions[t].user
      <4>1. PICK d \in Client : req[d].pc = "destroy" /\ req[d].target = sessions[t].user
        BY <3>1, <3>2 DEF SessionInv, SessionsCurrent
      <4>2. QED
        BY <1>1, <4>1
    <3>3. QED
      BY <3>1, <3>2 DEF SessionInv, SessionsCurrent
  <2>3. QED
    BY <2>1, <2>2
<1>4. QED
  BY <1>2, <1>3

LEMMA AccountChangeSessions ==
  ASSUME SessionInv, NEW c \in Client, Upsert(c) \/ Delete(c) \/ SetPassword(c)
  PROVE  SessionsCurrent' /\ LoginsCurrent'
<1> DEFINE name == req[c].target
<1>1. CASE Upsert(c)
  <2>1. RolesKept(name)
    BY <1>1 DEF Upsert, With, RolesKept
  <2>2. PICK r \in {[pc |-> "audit"], AdminIdle} : ExcuseLogins(c, name, r)
    BY <1>1 DEF Upsert
  <2>3. QED
    BY <1>1, <2>1, <2>2, ExcusedSessions DEF Upsert, AdminIdle
<1>2. CASE Delete(c)
  <2>1. RolesKept(name)
    BY <1>2 DEF Delete, Without, RolesKept
  <2>2. CASE MarkSessions(name, "revoked")
             /\ ExcuseLogins(c, name, [pc |-> "destroy", target |-> name])
    BY <1>2, <2>1, <2>2, ExcusedSessions DEF Delete
  <2>3. CASE ExcuseFresh(name) /\ ExcuseLogins(c, name, AdminIdle)
    BY <1>2, <2>1, <2>3, ExcusedSessions DEF Delete, AdminIdle
  <2>4. QED
    BY <1>2, <2>2, <2>3 DEF Delete
<1>3. CASE SetPassword(c)
  <2>1. RolesKept(name)
    BY <1>3 DEF SetPassword, RolesKept
  <2>2. CASE MarkSessions(name, "revoked")
             /\ ExcuseLogins(c, name, [pc |-> "destroy", target |-> name])
    BY <1>3, <2>1, <2>2, ExcusedSessions DEF SetPassword
  <2>3. CASE ExcuseFresh(name) /\ ExcuseLogins(c, name, AdminIdle)
    BY <1>3, <2>1, <2>3, ExcusedSessions DEF SetPassword, AdminIdle
  <2>4. QED
    BY <1>3, <2>2, <2>3 DEF SetPassword
<1>4. QED
  BY <1>1, <1>2, <1>3

\* destroyUser removes every session that the change before it revoked, and no other
\* request waits for those.
LEMMA DestroySessions ==
  ASSUME SessionInv, NEW c \in Client, DestroyUser(c)
  PROVE  SessionsCurrent' /\ LoginsCurrent'
<1>1. req'[c] = [pc |-> "audit"] /\ \A d \in Client : d # c => req'[d] = req[d]
  BY DEF DestroyUser, Proceed, SessionInv, AdminTypeOK
<1>2. LoginsCurrent'
  BY <1>1 DEF LoginsCurrent, SessionInv, DestroyUser
<1>3. SessionsCurrent'
  <2> SUFFICES ASSUME NEW t \in DOMAIN sessions'
               PROVE  /\ sessions'[t].mark = "revoked" =>
                           \E d \in Client : req'[d].pc = "destroy"
                                             /\ req'[d].target = sessions'[t].user
                      /\ sessions'[t].mark = "fresh" /\ sessions'[t].local =>
                           /\ sessions'[t].user \in DOMAIN users'
                           /\ users'[sessions'[t].user].role = sessions'[t].role
    BY DEF SessionsCurrent
  <2>1. t \in DOMAIN sessions /\ sessions'[t] = sessions[t] /\ sessions[t].user # req[c].target
    BY DEF DestroyUser
  <2>2. ASSUME sessions[t].mark = "revoked"
        PROVE  \E d \in Client : req'[d].pc = "destroy" /\ req'[d].target = sessions[t].user
    <3>1. PICK d \in Client : req[d].pc = "destroy" /\ req[d].target = sessions[t].user
      BY <2>1, <2>2 DEF SessionInv, SessionsCurrent
    <3>2. d # c
      BY <2>1, <3>1
    <3>3. QED
      BY <1>1, <3>1, <3>2
  <2>3. QED
    BY <2>1, <2>2 DEF SessionInv, SessionsCurrent, DestroyUser
<1>4. QED
  BY <1>2, <1>3

\* A logout, an idle timeout or a restart only takes sessions away.
LEMMA EndedSessions ==
  ASSUME SessionInv, AdminRestart \/ \E s \in SessionId : SessionEnds(s)
  PROVE  SessionsCurrent' /\ LoginsCurrent'
<1>1. CASE AdminRestart
  BY <1>1 DEF AdminRestart, NoSessions, SessionsCurrent, LoginsCurrent, AdminIdle
<1>2. ASSUME NEW s \in SessionId, SessionEnds(s) PROVE SessionsCurrent' /\ LoginsCurrent'
  <2>1. /\ DOMAIN sessions' \subseteq DOMAIN sessions
        /\ \A t \in DOMAIN sessions' : sessions'[t] = sessions[t]
        /\ UNCHANGED <<users, req>>
    BY <1>2 DEF SessionEnds, Without
  <2>2. QED
    BY <2>1 DEF SessionInv, SessionsCurrent, LoginsCurrent
<1>3. QED
  BY <1>1, <1>2

\* The requests that touch no account and no session: they only take their next step.
LEMMA RequestSessions ==
  ASSUME SessionInv, NEW c \in Client,
         \/ \E u \in UserName : LoginRight(c, u)
         \/ LoginRefused(c)
         \/ \E s \in SessionId, u \in UserName, r \in GrantRole : UserCreate(c, s, u, r)
         \/ \E s \in SessionId, u \in UserName : UserDelete(c, s, u)
         \/ \E s \in SessionId, u \in UserName : UserSetPassword(c, s, u)
         \/ SetPasswordNotFound(c) \/ Audit(c)
         \/ \E s \in SessionId : ChangePassword(c, s)
         \/ SetOwnPassword(c)
  PROVE  SessionsCurrent' /\ LoginsCurrent'
<1>1. ASSUME NEW u \in UserName, LoginRight(c, u) PROVE SessionsCurrent' /\ LoginsCurrent'
  BY <1>1, ProceedSessions DEF LoginRight, AdminIdle
<1>2. CASE LoginRefused(c)
  BY <1>2, ProceedSessions DEF LoginRefused, AdminIdle
<1>3. ASSUME NEW s \in SessionId, NEW u \in UserName, NEW r \in GrantRole, UserCreate(c, s, u, r)
      PROVE  SessionsCurrent' /\ LoginsCurrent'
  BY <1>3, ProceedSessions DEF UserCreate, AdminIdle
<1>4. ASSUME NEW s \in SessionId, NEW u \in UserName, UserDelete(c, s, u)
      PROVE  SessionsCurrent' /\ LoginsCurrent'
  BY <1>4, ProceedSessions DEF UserDelete, AdminIdle
<1>5. ASSUME NEW s \in SessionId, NEW u \in UserName, UserSetPassword(c, s, u)
      PROVE  SessionsCurrent' /\ LoginsCurrent'
  BY <1>5, ProceedSessions DEF UserSetPassword, AdminIdle
<1>6. CASE SetPasswordNotFound(c) \/ Audit(c)
  <2>1. Proceed(c, AdminIdle) /\ req[c].pc # "destroy" /\ UNCHANGED <<users, sessions>>
    BY <1>6 DEF SetPasswordNotFound, Audit, Reply, Proceed
  <2>2. QED
    BY <2>1, ProceedSessions DEF AdminIdle
<1>7. ASSUME NEW s \in SessionId, ChangePassword(c, s) PROVE SessionsCurrent' /\ LoginsCurrent'
  BY <1>7, ProceedSessions DEF ChangePassword, AdminIdle
<1>8. CASE SetOwnPassword(c)
  <2>1. PICK r \in {[pc |-> "audit"], AdminIdle} : Proceed(c, r)
    BY <1>8 DEF SetOwnPassword, Reply, Proceed
  <2>2. \A u \in DOMAIN users : u \in DOMAIN users' /\ users'[u].role = users[u].role
    BY <1>8 DEF SetOwnPassword
  <2>3. UNCHANGED sessions /\ req[c].pc # "destroy"
    BY <1>8 DEF SetOwnPassword
  <2>4. QED
    BY <2>1, <2>2, <2>3, ProceedSessions DEF AdminIdle
<1>9. QED
  BY <1>1, <1>2, <1>3, <1>4, <1>5, <1>6, <1>7, <1>8

\* A login with a password opens its session from the copy it took of the account; one
\* over OIDC is not bound to an account.
LEMMA LoginSessions ==
  ASSUME SessionInv, NEW c \in Client, NEW s \in SessionId,
         \/ LoginSession(c, s)
         \/ \E u \in SSOName, g \in SUBSET DOMAIN GroupRole : OIDCCallback(c, s, u, g)
  PROVE  SessionsCurrent' /\ LoginsCurrent'
<1>1. CASE LoginSession(c, s)
  <2>1. req[c] \in [pc : {"login"}, user : UserName, role : Role, mark : {"fresh", "excused"}]
    BY <1>1, RequestKinds DEF SessionInv, AdminTypeOK, LoginSession
  <2>2. req[c].mark = "fresh" => req[c].user \in DOMAIN users
                                 /\ users[req[c].user].role = req[c].role
    BY <1>1 DEF SessionInv, LoginsCurrent, LoginSession
  <2>3. QED
    BY <1>1, <2>1, <2>2, NewSessionSessions, ZenonT(60) DEF LoginSession
<1>2. ASSUME NEW u \in SSOName, NEW g \in SUBSET DOMAIN GroupRole, OIDCCallback(c, s, u, g)
      PROVE  SessionsCurrent' /\ LoginsCurrent'
  <2>1. PICK role \in MapGroupsToRole(g, GroupRole) : NewSession(s, u, role, FALSE, "fresh")
    BY <1>2 DEF OIDCCallback
  <2>2. Proceed(c, [pc |-> "audit"]) /\ req[c].pc # "destroy" /\ UNCHANGED users
    BY <1>2 DEF OIDCCallback, AdminIdle
  <2>3. QED
    BY <2>1, <2>2, NewSessionSessions
<1>3. QED
  BY <1>1, <1>2

LEMMA SessionStep ==
  ASSUME SessionInv, [AdminNext]_adminVars
  PROVE  SessionInv'
<1>1. AdminTypeOK'
  BY AdminNextType DEF SessionInv
<1>2. SessionsCurrent' /\ LoginsCurrent'
  <2>1. CASE AdminNext
    BY <2>1, AccountChangeSessions, DestroySessions, EndedSessions, RequestSessions,
       LoginSessions DEF AdminNext
  <2>2. CASE UNCHANGED adminVars
    BY <2>2 DEF adminVars, SessionInv, SessionsCurrent, LoginsCurrent
  <2>3. QED
    BY <2>1, <2>2
<1>3. QED
  BY <1>1, <1>2 DEF SessionInv

\* No session outlives the credentials it was opened with: whatever logins, deletes and
\* resets run at the same time, a session of an account that was deleted or given another
\* password is one that destroyUser is about to remove, and a session opened with a
\* password has the role of its account, for any number of accounts and requests.
THEOREM SessionsStayCurrent == AdminSpec => []SessionsCurrent
<1>1. AdminInit => SessionInv
  BY AdminInitType DEF AdminInit, SessionInv, NoSessions, SessionsCurrent, LoginsCurrent,
     AdminIdle
<1>2. SessionInv /\ [AdminNext]_adminVars => SessionInv'
  BY SessionStep
<1>3. SessionInv => SessionsCurrent
  BY DEF SessionInv
<1>4. QED
  BY <1>1, <1>2, <1>3, PTL DEF AdminSpec

-----------------------------------------------------------------------------
(* The last administrator.                                                  *)

\* A delete under way is not of the account of its actor.
DeletesOthers ==
  \A c \in Client : req[c].pc = "delete" => req[c].target # req[c].actor

RemainInv == AdminTypeOK /\ DeletesOthers /\ AdminRemains

LEMMA DeletesOthersStep ==
  ASSUME AdminTypeOK, DeletesOthers, [AdminNext]_adminVars
  PROVE  DeletesOthers'
<1> SUFFICES ASSUME NEW c \in Client, req'[c].pc = "delete"
             PROVE  req'[c].target # req'[c].actor
  BY DEF DeletesOthers
<1>1. ASSUME NEW d \in Client, NEW r, Proceed(d, r), r.pc # "delete"
      PROVE  req'[c].target # req'[c].actor
  BY <1>1 DEF Proceed, AdminTypeOK, DeletesOthers
<1>2. ASSUME NEW d \in Client, NEW name, NEW r, ExcuseLogins(d, name, r), r.pc # "delete"
      PROVE  req'[c].target # req'[c].actor
  <2>1. CASE req[c].pc = "login"
    <3>1. req[c] \in [pc : {"login"}, user : UserName, role : Role, mark : {"fresh", "excused"}]
      BY <2>1, RequestKinds DEF AdminTypeOK
    <3>2. QED
      BY <1>2, <2>1, <3>1 DEF ExcuseLogins
  <2>2. CASE req[c].pc # "login"
    BY <1>2, <2>2 DEF ExcuseLogins, DeletesOthers
  <2>3. QED
    BY <2>1, <2>2
<1>3. ASSUME NEW d \in Client, NEW s \in SessionId, NEW u \in UserName, UserDelete(d, s, u)
      PROVE  req'[c].target # req'[c].actor
  BY <1>3 DEF UserDelete, Proceed, AdminTypeOK, DeletesOthers
<1>4. ASSUME NEW d \in Client,
             \/ \E u \in UserName : LoginRight(d, u)
             \/ LoginRefused(d)
             \/ \E s \in SessionId : LoginSession(d, s)
             \/ \E s \in SessionId, u \in SSOName, g \in SUBSET DOMAIN GroupRole :
                  OIDCCallback(d, s, u, g)
             \/ \E s \in SessionId, u \in UserName, r \in GrantRole : UserCreate(d, s, u, r)
             \/ \E s \in SessionId, u \in UserName : UserSetPassword(d, s, u)
             \/ SetPasswordNotFound(d) \/ DestroyUser(d)
             \/ \E s \in SessionId : ChangePassword(d, s)
             \/ SetOwnPassword(d) \/ Audit(d)
      PROVE  req'[c].target # req'[c].actor
  <2>1. ASSUME NEW u \in UserName, LoginRight(d, u) PROVE req'[c].target # req'[c].actor
    BY <1>1, <2>1 DEF LoginRight
  <2>2. CASE \/ LoginRefused(d) \/ DestroyUser(d)
             \/ \E s \in SessionId : LoginSession(d, s)
             \/ \E s \in SessionId, u \in SSOName, g \in SUBSET DOMAIN GroupRole :
                  OIDCCallback(d, s, u, g)
    <3>1. Proceed(d, [pc |-> "audit"])
      BY <2>2 DEF LoginRefused, LoginSession, OIDCCallback, DestroyUser
    <3>2. QED
      BY <1>1, <3>1
  <2>3. ASSUME NEW s \in SessionId, NEW u \in UserName, NEW r \in GrantRole, UserCreate(d, s, u, r)
        PROVE  req'[c].target # req'[c].actor
    BY <1>1, <2>3 DEF UserCreate
  <2>4. ASSUME NEW s \in SessionId, NEW u \in UserName, UserSetPassword(d, s, u)
        PROVE  req'[c].target # req'[c].actor
    BY <1>1, <2>4 DEF UserSetPassword
  <2>5. ASSUME NEW s \in SessionId, ChangePassword(d, s) PROVE req'[c].target # req'[c].actor
    BY <1>1, <2>5 DEF ChangePassword
  <2>6. CASE SetPasswordNotFound(d) \/ SetOwnPassword(d) \/ Audit(d)
    <3>1. Proceed(d, AdminIdle) \/ Proceed(d, [pc |-> "audit"])
      BY <2>6 DEF SetPasswordNotFound, SetOwnPassword, Audit, Reply, Proceed
    <3>2. QED
      BY <1>1, <3>1 DEF AdminIdle
  <2>7. QED
    BY <1>4, <2>1, <2>2, <2>3, <2>4, <2>5, <2>6
<1>5. ASSUME NEW d \in Client, Upsert(d) \/ Delete(d) \/ SetPassword(d)
      PROVE  req'[c].target # req'[c].actor
  <2> DEFINE name == req[d].target
  <2>1. \/ ExcuseLogins(d, name, [pc |-> "audit"])
        \/ ExcuseLogins(d, name, AdminIdle)
        \/ ExcuseLogins(d, name, [pc |-> "destroy", target |-> name])
    BY <1>5 DEF Upsert, Delete, SetPassword
  <2>2. QED
    BY <1>2, <2>1 DEF AdminIdle
<1>6. CASE AdminRestart \/ \E s \in SessionId : SessionEnds(s)
  BY <1>6 DEF AdminRestart, SessionEnds, AdminIdle, DeletesOthers
<1>7. CASE UNCHANGED adminVars
  BY <1>7 DEF adminVars, DeletesOthers
<1>8. QED
  BY <1>3, <1>4, <1>5, <1>6, <1>7 DEF AdminNext

\* A change that takes no administrator's role keeps one.
LEMMA AdminKept ==
  ASSUME NEW before, NEW after, HasAdmin(before),
         \A u \in DOMAIN before : before[u].role = "admin"
           => u \in DOMAIN after /\ after[u].role = "admin"
  PROVE  HasAdmin(after)
BY DEF HasAdmin

\* Where the memory keeps an administrator, a save that succeeds or fails leaves one in
\* the file.
LEMMA SavedAdmin ==
  ASSUME DOMAIN saved # {} => HasAdmin(saved), HasAdmin(users'), SaveOK \/ SaveFails
  PROVE  DOMAIN saved' # {} => HasAdmin(saved')
BY DEF SaveOK, SaveFails

LEMMA RemainStep ==
  ASSUME RemainInv, [AdminNext]_adminVars
  PROVE  AdminRemains'
<1> SUFFICES ASSUME ~disowned'
             PROVE  HasAdmin(users') /\ (DOMAIN saved' # {} => HasAdmin(saved'))
  BY DEF AdminRemains, HasAdmin
<1>1. CASE UNCHANGED <<users, saved, disowned>>
  BY <1>1 DEF RemainInv, AdminRemains
<1>2. ASSUME NEW c \in Client, Upsert(c)
      PROVE  HasAdmin(users') /\ (DOMAIN saved' # {} => HasAdmin(saved'))
  <2>1. ~disowned /\ req[c].target \notin DOMAIN users /\ (SaveOK \/ SaveFails)
    BY <1>2 DEF Upsert, RemainInv, AdminTypeOK
  <2>2. HasAdmin(users')
    BY <1>2, <2>1, AdminKept DEF Upsert, With, RemainInv, AdminRemains
  <2>3. QED
    BY <2>1, <2>2, SavedAdmin DEF RemainInv, AdminRemains
<1>3. ASSUME NEW c \in Client, Delete(c)
      PROVE  HasAdmin(users') /\ (DOMAIN saved' # {} => HasAdmin(saved'))
  <2>1. ~disowned /\ ActorIsAdmin(c) /\ (SaveOK \/ SaveFails)
    BY <1>3 DEF Delete, RemainInv, AdminTypeOK
  <2>2. req[c].actor # req[c].target
    BY <1>3 DEF RemainInv, DeletesOthers, Delete
  <2>3. req[c].actor \in DOMAIN users' /\ users'[req[c].actor].role = "admin"
    BY <1>3, <2>1, <2>2 DEF Delete, Without, ActorIsAdmin
  <2>4. HasAdmin(users')
    BY <2>3 DEF HasAdmin
  <2>5. QED
    BY <2>1, <2>4, SavedAdmin DEF RemainInv, AdminRemains
<1>4. ASSUME NEW c \in Client, SetPassword(c) \/ SetOwnPassword(c)
      PROVE  HasAdmin(users') /\ (DOMAIN saved' # {} => HasAdmin(saved'))
  <2>1. ~disowned /\ (SaveOK \/ SaveFails)
    BY <1>4 DEF SetPassword, SetOwnPassword
  <2>2. HasAdmin(users')
    <3>1. \A u \in DOMAIN users : u \in DOMAIN users' /\ users'[u].role = users[u].role
      <4>1. CASE SetPassword(c)
        BY <4>1 DEF SetPassword, RemainInv, AdminTypeOK, AccountRec
      <4>2. CASE SetOwnPassword(c)
        BY <4>2 DEF SetOwnPassword, RemainInv, AdminTypeOK, AccountRec
      <4>3. QED
        BY <1>4, <4>1, <4>2
    <3>2. QED
      BY <2>1, <3>1, AdminKept DEF RemainInv, AdminRemains
  <2>3. QED
    BY <2>1, <2>2, SavedAdmin DEF RemainInv, AdminRemains
<1>5. ASSUME NEW c \in Client, Audit(c)
      PROVE  HasAdmin(users') /\ (DOMAIN saved' # {} => HasAdmin(saved'))
  <2>1. ~disowned /\ (SaveOK \/ SaveFails) /\ users' = users
    BY <1>5 DEF Audit
  <2>2. QED
    BY <2>1, SavedAdmin DEF RemainInv, AdminRemains
<1>6. CASE AdminRestart
  <2>1. ~disowned /\ (SaveOK \/ SaveFails) /\ users' = Bootstrapped(saved)
    BY <1>6 DEF AdminRestart
  <2>2. HasAdmin(users')
    BY <2>1 DEF RemainInv, AdminRemains, Bootstrapped, HasAdmin, With
  <2>3. QED
    BY <2>1, <2>2, SavedAdmin DEF RemainInv, AdminRemains
<1>7. QED
  BY <1>1, <1>2, <1>3, <1>4, <1>5, <1>6
  DEF AdminNext, adminVars, LoginRight, LoginRefused, LoginSession, OIDCCallback, UserCreate,
      UserDelete, UserSetPassword, SetPasswordNotFound, DestroyUser, ChangePassword, SessionEnds

\* There is always an administrator, in memory and in a store file that is not empty: that
\* no administrator may delete its own account is enough, over any number of requests that
\* overlap, saves that fail and restarts, as long as a delete's actor is an administrator
\* when it takes effect and a create replaces nobody.
THEOREM AnAdminRemains == AdminSpec => []AdminRemains
<1>1. AdminInit => RemainInv
  <2> SUFFICES ASSUME AdminInit PROVE RemainInv
    OBVIOUS
  <2>1. HasAdmin(users)
    BY DEF AdminInit, Bootstrapped, NoAccounts, With, HasAdmin
  <2>2. DOMAIN NoAccounts = {}
    BY DEF NoAccounts
  <2>3. DeletesOthers
    BY DEF AdminInit, DeletesOthers, AdminIdle
  <2>4. QED
    BY <2>1, <2>2, <2>3, AdminInitType DEF AdminInit, RemainInv, AdminRemains
<1>2. RemainInv /\ [AdminNext]_adminVars => RemainInv'
  <2> SUFFICES ASSUME RemainInv, [AdminNext]_adminVars PROVE RemainInv'
    OBVIOUS
  <2>1. AdminTypeOK' /\ DeletesOthers'
    BY AdminNextType, DeletesOthersStep DEF RemainInv
  <2>2. QED
    BY <2>1, RemainStep DEF RemainInv
<1>3. RemainInv => AdminRemains
  BY DEF RemainInv
<1>4. QED
  BY <1>1, <1>2, <1>3, PTL DEF AdminSpec

-----------------------------------------------------------------------------
(* The login guard: types.                                                  *)

GuardTyped == GuardTypeOK /\ IsFiniteSet(DOMAIN guardIPs)

TryRec == {GuardIdle} \cup
  [pc : {"user", "verify", "fail", "ip"}, user : Account \cup Stranger, addr : Addr]

\* Counting a failure keeps an entry below its threshold.
LEMMA BumpType ==
  ASSUME NEW threshold \in Nat \ {0},
         NEW entry \in [failures : 0 .. threshold - 1, until : LockEnd]
  PROVE  Bump(entry, threshold) \in [failures : 0 .. threshold - 1, until : LockEnd]
BY DEF Bump, LockEnd

LEMMA NoLockType ==
  ASSUME NEW threshold \in Nat \ {0}
  PROVE  NoLock \in [failures : 0 .. threshold - 1, until : LockEnd]
BY DEF NoLock, LockEnd

\* The counts of attempts are numbers, at most the number of attempts.
LEMMA AttemptCount ==
  ASSUME NEW S \in SUBSET Attempt
  PROVE  IsFiniteSet(S) /\ Cardinality(S) \in Nat /\ Cardinality(S) <= Cardinality(Attempt)
         /\ Cardinality(Attempt) \in Nat
BY FS_Subset, FS_CardinalityType, GuardAssumption

LEMMA UnrecordedType ==
  /\ \A u : Unrecorded(u) \in Nat
  /\ \A a : UnrecordedFrom(a) \in Nat
BY AttemptCount DEF Unrecorded, UnrecordedFrom

\* An attempt that goes on is a record of the same user and address, or is answered.
LEMMA TryType ==
  ASSUME GuardTypeOK, NEW t \in Attempt, guardTry[t].pc # "idle",
         NEW pc \in {"user", "verify", "fail", "ip"}, Goto(t, pc) \/ Answer(t)
  PROVE  guardTry' \in [Attempt -> TryRec]
BY DEF GuardTypeOK, Goto, Answer, TryRec, GuardIdle

LEMMA AttemptType ==
  ASSUME GuardTyped, NEW t \in Attempt,
         \/ \E u \in Account \cup Stranger, a \in Addr : LoginArrives(t, u, a)
         \/ AccountLocked(t)
  PROVE  GuardTyped'
<1>1. guardTry' \in [Attempt -> TryRec]
  <2>1. ASSUME NEW u \in Account \cup Stranger, NEW a \in Addr, LoginArrives(t, u, a)
        PROVE  guardTry' \in [Attempt -> TryRec]
    BY <2>1 DEF LoginArrives, GuardTyped, GuardTypeOK, TryRec
  <2>2. CASE AccountLocked(t)
    BY <2>2, TryType DEF AccountLocked, GuardTyped
  <2>3. QED
    BY <2>1, <2>2
<1>2. UNCHANGED <<guardLocks, guardIPs, guardWrong, guardIPWrong>>
  BY DEF LoginArrives, AccountLocked
<1>3. QED
  BY <1>1, <1>2 DEF GuardTyped, GuardTypeOK, TryRec

LEMMA PasswordType ==
  ASSUME GuardTyped, NEW t \in Attempt, WrongPassword(t) \/ RightPassword(t)
  PROVE  GuardTyped'
<1>1. guardTry' \in [Attempt -> TryRec]
  BY TryType DEF GuardTyped, WrongPassword, RightPassword
<1>2. guardTry[t].addr \in Addr
  BY DEF WrongPassword, RightPassword, GuardTyped, GuardTypeOK, GuardIdle
<1>3. CASE WrongPassword(t)
  <2>1. guardWrong' \in [Account -> Nat] /\ guardIPWrong' \in [Addr -> Nat]
    BY <1>2, <1>3 DEF WrongPassword, GuardTyped, GuardTypeOK
  <2>2. QED
    BY <1>1, <1>3, <2>1 DEF WrongPassword, GuardTyped, GuardTypeOK, TryRec
<1>4. CASE RightPassword(t)
  <2>1. guardWrong' \in [Account -> Nat]
    BY <1>4, UnrecordedType DEF RightPassword, GuardTyped, GuardTypeOK
  <2>2. guardLocks' \in [Account -> [failures : 0 .. LockThreshold - 1, until : LockEnd]]
    <3>1. NoLock \in [failures : 0 .. LockThreshold - 1, until : LockEnd]
      BY NoLockType, GuardAssumption
    <3>2. QED
      BY <1>4, <3>1 DEF RightPassword, GuardTyped, GuardTypeOK
  <2>3. QED
    BY <1>1, <1>4, <2>1, <2>2 DEF RightPassword, GuardTyped, GuardTypeOK, TryRec
<1>5. QED
  BY <1>3, <1>4

LEMMA RecordFailureType ==
  ASSUME GuardTyped, NEW t \in Attempt, RecordFailure(t)
  PROVE  GuardTyped'
<1> DEFINE u == guardTry[t].user
           LockRec == [failures : 0 .. LockThreshold - 1, until : LockEnd]
<1>1. guardTry' \in [Attempt -> TryRec]
  BY TryType DEF GuardTyped, RecordFailure
<1>2. PICK old \in SUBSET {v \in Account : guardLocks[v].until = "zero"} :
        /\ guardLocks' = [[v \in Account |-> IF v \in old THEN NoLock ELSE guardLocks[v]]
                            EXCEPT ![u] = Bump(@, LockThreshold)]
        /\ guardWrong' = [v \in Account |-> IF v \in old THEN Unrecorded(v) ELSE guardWrong[v]]
  BY DEF RecordFailure
<1>3. guardWrong' \in [Account -> Nat]
  BY <1>2, UnrecordedType DEF GuardTyped, GuardTypeOK
<1>4. guardLocks' \in [Account -> LockRec]
  <2> DEFINE swept == [v \in Account |-> IF v \in old THEN NoLock ELSE guardLocks[v]]
  <2>1. swept \in [Account -> LockRec]
    BY NoLockType, GuardAssumption DEF GuardTyped, GuardTypeOK
  <2>2. ASSUME u \in Account PROVE Bump(swept[u], LockThreshold) \in LockRec
    BY <2>1, <2>2, BumpType, GuardAssumption
  <2>3. guardLocks' = [swept EXCEPT ![u] = Bump(swept[u], LockThreshold)]
    BY <1>2
  <2> HIDE DEF swept
  <2>4. QED
    BY <2>1, <2>2, <2>3
<1>5. UNCHANGED <<guardIPs, guardIPWrong>>
  BY DEF RecordFailure
<1>6. QED
  BY <1>1, <1>3, <1>4, <1>5 DEF GuardTyped, GuardTypeOK, TryRec

LEMMA RecordIPFailureType ==
  ASSUME GuardTyped, NEW t \in Attempt, RecordIPFailure(t)
  PROVE  GuardTyped'
<1> DEFINE a == guardTry[t].addr
           entry == IF a \in DOMAIN guardIPs THEN guardIPs[a] ELSE NoLock
           IPRec == [failures : 0 .. IPLockThreshold - 1, until : LockEnd]
<1>1. guardTry' \in [Attempt -> TryRec]
  BY TryType DEF GuardTyped, RecordIPFailure
<1>2. a \in Addr
  BY DEF RecordIPFailure, GuardTyped, GuardTypeOK, GuardIdle
<1>3. Bump(entry, IPLockThreshold) \in IPRec
  BY NoLockType, BumpType, GuardAssumption DEF GuardTyped, GuardTypeOK
<1>4. CASE ~Tracked(a)
  BY <1>1, <1>4 DEF RecordIPFailure, GuardTyped, GuardTypeOK, TryRec
<1>5. CASE Tracked(a)
  <2>1. guardIPs' = [b \in DOMAIN guardIPs \cup {a} |->
                       IF b = a THEN Bump(entry, IPLockThreshold) ELSE guardIPs[b]]
    BY <1>5 DEF RecordIPFailure
  <2>2. DOMAIN guardIPs' = DOMAIN guardIPs \cup {a}
    BY <2>1
  <2>3. IsFiniteSet(DOMAIN guardIPs') /\ Cardinality(DOMAIN guardIPs') <= IPLockMapMax
    <3> DEFINE D == DOMAIN guardIPs
    <3>1. IsFiniteSet(D) /\ Cardinality(D) \in Nat /\ Cardinality(D) <= IPLockMapMax
      BY FS_CardinalityType DEF GuardTyped, GuardTypeOK
    <3>2. a \in D \/ Cardinality(D) < IPLockMapMax
      BY <1>5 DEF Tracked
    <3> HIDE DEF D, a
    <3>3. IsFiniteSet(D \cup {a}) /\ Cardinality(D \cup {a}) <= IPLockMapMax
      <4>1. IsFiniteSet(D \cup {a})
            /\ Cardinality(D \cup {a}) = IF a \in D THEN Cardinality(D) ELSE Cardinality(D) + 1
        BY <3>1, FS_AddElement
      <4>2. IPLockMapMax \in Nat
        BY GuardAssumption
      <4>3. QED
        BY <3>1, <3>2, <4>1, <4>2
    <3>4. QED
      BY <2>2, <3>3 DEF D
  <2>4. \A b \in DOMAIN guardIPs' : guardIPs'[b] \in IPRec
    BY <1>3, <2>1 DEF GuardTyped, GuardTypeOK
  <2>5. DOMAIN guardIPs' \subseteq Addr
    BY <1>2, <2>2 DEF GuardTyped, GuardTypeOK
  <2>6. UNCHANGED <<guardLocks, guardWrong, guardIPWrong>>
    BY DEF RecordIPFailure
  <2>7. QED
    BY <1>1, <2>3, <2>4, <2>5, <2>6 DEF GuardTyped, GuardTypeOK, TryRec
<1>6. QED
  BY <1>4, <1>5

LEMMA LockEndsType ==
  ASSUME GuardTyped,
         (\E u \in Account : LockEnds(u)) \/ (\E a \in DOMAIN guardIPs : IPLockEnds(a))
  PROVE  GuardTyped'
<1>1. ASSUME NEW u \in Account, LockEnds(u) PROVE GuardTyped'
  <2>1. guardLocks[u].failures + Unrecorded(u) \in Nat
    BY UnrecordedType, GuardAssumption DEF GuardTyped, GuardTypeOK
  <2>2. guardWrong' \in [Account -> Nat]
    BY <1>1, <2>1 DEF LockEnds, GuardTyped, GuardTypeOK
  <2>3. guardLocks' \in [Account -> [failures : 0 .. LockThreshold - 1, until : LockEnd]]
    BY <1>1 DEF LockEnds, GuardTyped, GuardTypeOK, LockEnd
  <2>4. QED
    BY <1>1, <2>2, <2>3 DEF LockEnds, GuardTyped, GuardTypeOK
<1>2. ASSUME NEW a \in DOMAIN guardIPs, IPLockEnds(a) PROVE GuardTyped'
  <2>1. guardIPs[a].failures + UnrecordedFrom(a) \in Nat
    BY UnrecordedType, GuardAssumption DEF GuardTyped, GuardTypeOK
  <2>2. guardIPWrong' \in [Addr -> Nat]
    BY <1>2, <2>1 DEF IPLockEnds, GuardTyped, GuardTypeOK
  <2>3. DOMAIN guardIPs' = DOMAIN guardIPs
        /\ \A b \in DOMAIN guardIPs :
             guardIPs'[b] \in [failures : 0 .. IPLockThreshold - 1, until : LockEnd]
    BY <1>2 DEF IPLockEnds, GuardTyped, GuardTypeOK, LockEnd
  <2>4. QED
    BY <1>2, <2>2, <2>3 DEF IPLockEnds, GuardTyped, GuardTypeOK
<1>3. QED
  BY <1>1, <1>2

LEMMA GuardInitType == GuardInit => GuardTyped
<1> SUFFICES ASSUME GuardInit PROVE GuardTyped
  OBVIOUS
<1>1. DOMAIN guardIPs = {}
  BY DEF GuardInit
<1>2. IsFiniteSet(DOMAIN guardIPs) /\ Cardinality(DOMAIN guardIPs) <= IPLockMapMax
  BY <1>1, FS_EmptySet, GuardAssumption
<1>3. guardLocks \in [Account -> [failures : 0 .. LockThreshold - 1, until : LockEnd]]
  BY NoLockType, GuardAssumption DEF GuardInit
<1>4. QED
  BY <1>1, <1>2, <1>3 DEF GuardInit, GuardTyped, GuardTypeOK

LEMMA GuardNextType ==
  ASSUME GuardTyped, [GuardNext]_guardVars
  PROVE  GuardTyped'
<1>1. CASE GuardNext
  BY <1>1, AttemptType, PasswordType, RecordFailureType, RecordIPFailureType, LockEndsType
  DEF GuardNext
<1>2. CASE UNCHANGED guardVars
  BY <1>2 DEF guardVars, GuardTyped, GuardTypeOK
<1>3. QED
  BY <1>1, <1>2

\* The two tables of the login guard keep their types: a count stays below its threshold,
\* and the table of addresses within ipLockMapMax although it never forgets one.
THEOREM GuardTypes == GuardSpec => []GuardTypeOK
<1>1. GuardTyped /\ [GuardNext]_guardVars => GuardTyped'
  BY GuardNextType
<1>2. GuardTyped => GuardTypeOK
  BY DEF GuardTyped
<1>3. QED
  BY GuardInitType, <1>1, <1>2, PTL DEF GuardSpec

-----------------------------------------------------------------------------
(* The login guard: how many guesses it gives away.                         *)

\* The attempts on an account and from an address that are past the check of its lock
\* without an answer, and those whose failure is not recorded.
OpenTries(try, u) == {t \in Attempt : try[t].pc = "verify" /\ try[t].user = u}
FailedTries(try, u) == {t \in Attempt : try[t].pc = "fail" /\ try[t].user = u}
OpenFrom(try, a) == {t \in Attempt : try[t].pc \in {"user", "verify"} /\ try[t].addr = a}
FailedFrom(try, a) == {t \in Attempt : try[t].pc \in {"fail", "ip"} /\ try[t].addr = a}

\* While an account is locked, every attempt that may still fail was past the check when
\* the lock began; otherwise each wrong password is counted or about to be.
AccountBound ==
  \A u \in Account :
    IF Locked(guardLocks[u])
    THEN guardWrong[u] + Cardinality(OpenTries(guardTry, u))
           <= LockThreshold - 1 + Cardinality(Attempt)
    ELSE guardWrong[u] <= guardLocks[u].failures + Cardinality(FailedTries(guardTry, u))

\* The same of an address the table has; one without an entry has wrong passwords not
\* yet recorded while there is room, and keeps the number it has when the table is full.
AddressBound ==
  \A a \in Addr :
    IF a \in DOMAIN guardIPs
    THEN IF Locked(guardIPs[a])
         THEN guardIPWrong[a] + Cardinality(OpenFrom(guardTry, a))
                <= IPLockThreshold - 1 + Cardinality(Attempt)
         ELSE guardIPWrong[a] <= guardIPs[a].failures + Cardinality(FailedFrom(guardTry, a))
    ELSE /\ guardIPWrong[a] <= Cardinality(Attempt)
         /\ Tracked(a) => guardIPWrong[a] <= Cardinality(FailedFrom(guardTry, a))

GuessInv == GuardTyped /\ AccountBound /\ AddressBound

\* Two sets of attempts that differ in one attempt at most differ by one at most.
LEMMA CountMoves ==
  ASSUME NEW S \in SUBSET Attempt, NEW T \in SUBSET Attempt, NEW t \in Attempt,
         \A r \in Attempt : r # t => (r \in S <=> r \in T)
  PROVE  /\ Cardinality(S) \in Nat /\ Cardinality(T) \in Nat
         /\ t \in S /\ t \notin T => Cardinality(T) + 1 = Cardinality(S)
         /\ t \notin S /\ t \in T => Cardinality(T) = Cardinality(S) + 1
         /\ (t \in S <=> t \in T) => Cardinality(T) = Cardinality(S)
<1>1. IsFiniteSet(S) /\ IsFiniteSet(T) /\ Cardinality(S) \in Nat /\ Cardinality(T) \in Nat
  BY AttemptCount
<1>2. CASE t \in S /\ t \notin T
  <2>1. T = S \ {t}
    BY <1>2
  <2>2. QED
    BY <1>1, <1>2, <2>1, FS_RemoveElement
<1>3. CASE t \notin S /\ t \in T
  <2>1. T = S \cup {t}
    BY <1>3
  <2>2. QED
    BY <1>1, <1>3, <2>1, FS_AddElement
<1>4. CASE t \in S <=> t \in T
  <2>1. S = T
    BY <1>4
  <2>2. QED
    BY <1>1, <2>1, <1>4
<1>5. QED
  BY <1>2, <1>3, <1>4

\* An attempt is at one place at a time.
LEMMA DisjointCount ==
  ASSUME NEW S \in SUBSET Attempt, NEW T \in SUBSET Attempt, S \cap T = {}
  PROVE  Cardinality(S) + Cardinality(T) <= Cardinality(Attempt)
<1>1. IsFiniteSet(S) /\ IsFiniteSet(T) /\ Cardinality(S) \in Nat /\ Cardinality(T) \in Nat
  BY AttemptCount
<1>2. Cardinality(S \cup T) = Cardinality(S) + Cardinality(T)
  <2>1. Cardinality(S \cap T) = 0
    BY FS_EmptySet
  <2>2. Cardinality(S \cup T) = Cardinality(S) + Cardinality(T) - Cardinality(S \cap T)
    BY <1>1, FS_Union
  <2>3. QED
    BY <1>1, <2>1, <2>2
<1>3. QED
  BY <1>2, AttemptCount, S \cup T \in SUBSET Attempt

LEMMA AccountBoundStep ==
  ASSUME GuessInv, [GuardNext]_guardVars
  PROVE  AccountBound'
<1> SUFFICES ASSUME NEW u \in Account
             PROVE  IF Locked(guardLocks'[u])
                    THEN guardWrong'[u] + Cardinality(OpenTries(guardTry', u))
                           <= LockThreshold - 1 + Cardinality(Attempt)
                    ELSE guardWrong'[u] <= guardLocks'[u].failures
                                             + Cardinality(FailedTries(guardTry', u))
  BY DEF AccountBound
<1> DEFINE N  == Cardinality(Attempt)
           S  == OpenTries(guardTry, u)
           S2 == OpenTries(guardTry', u)
           T  == FailedTries(guardTry, u)
           T2 == FailedTries(guardTry', u)
           O  == Cardinality(S)
           O2 == Cardinality(S2)
           F  == Cardinality(T)
           F2 == Cardinality(T2)
           Within(entry, wrong, open, failed) ==
             IF Locked(entry) THEN wrong + open <= LockThreshold - 1 + N
             ELSE wrong <= entry.failures + failed
<1>1. {N, O, F, O2, F2} \subseteq Nat /\ O + F <= N
  <2>1. OpenTries(guardTry, u) \cap FailedTries(guardTry, u) = {}
    BY DEF OpenTries, FailedTries
  <2>2. /\ OpenTries(guardTry, u) \in SUBSET Attempt /\ FailedTries(guardTry, u) \in SUBSET Attempt
        /\ OpenTries(guardTry', u) \in SUBSET Attempt /\ FailedTries(guardTry', u) \in SUBSET Attempt
    BY DEF OpenTries, FailedTries
  <2>3. QED
    BY <2>1, <2>2, AttemptCount, DisjointCount
<1>2. Within(guardLocks[u], guardWrong[u], O, F)
  BY DEF GuessInv, AccountBound
<1>3. /\ guardLocks[u] \in [failures : 0 .. LockThreshold - 1, until : LockEnd]
      /\ guardWrong[u] \in Nat /\ LockThreshold \in Nat \ {0}
  BY GuardAssumption DEF GuessInv, GuardTyped, GuardTypeOK
<1>4. Unrecorded(u) = F
  BY DEF Unrecorded, FailedTries
<1> SUFFICES Within(guardLocks'[u], guardWrong'[u], O2, F2)
  OBVIOUS
<1>5. ASSUME NEW t \in Attempt, guardTry[t] \in TryRec,
             \/ \E w \in Account \cup Stranger, a \in Addr : LoginArrives(t, w, a)
             \/ AccountLocked(t) \/ WrongPassword(t) \/ RightPassword(t)
             \/ RecordFailure(t) \/ RecordIPFailure(t)
      PROVE  /\ t \in S /\ t \notin S2 => O2 = O - 1
             /\ t \notin S /\ t \in S2 => O2 = O + 1
             /\ (t \in S <=> t \in S2) => O2 = O
             /\ t \in T /\ t \notin T2 => F2 = F - 1
             /\ t \notin T /\ t \in T2 => F2 = F + 1
             /\ (t \in T <=> t \in T2) => F2 = F
  <2>1. \A r \in Attempt : r # t => guardTry'[r] = guardTry[r]
    BY <1>5 DEF LoginArrives, AccountLocked, WrongPassword, RightPassword, RecordFailure,
       RecordIPFailure, Goto, Answer, GuessInv, GuardTyped, GuardTypeOK
  <2>2. /\ {S, S2, T, T2} \subseteq SUBSET Attempt
        /\ \A r \in Attempt : r # t => (r \in S <=> r \in S2) /\ (r \in T <=> r \in T2)
    BY <2>1 DEF OpenTries, FailedTries
  <2> HIDE DEF S, S2, T, T2
  <2>3. /\ t \in S /\ t \notin S2 => O2 = O - 1
        /\ t \notin S /\ t \in S2 => O2 = O + 1
        /\ (t \in S <=> t \in S2) => O2 = O
    BY <1>1, <2>2, CountMoves
  <2>4. /\ t \in T /\ t \notin T2 => F2 = F - 1
        /\ t \notin T /\ t \in T2 => F2 = F + 1
        /\ (t \in T <=> t \in T2) => F2 = F
    BY <1>1, <2>2, CountMoves
  <2>5. QED
    BY <2>3, <2>4
<1>6. \A t \in Attempt : guardTry[t] \in TryRec
  BY DEF GuessInv, GuardTyped, GuardTypeOK, TryRec
<1> HIDE DEF N, O, F, O2, F2
<1>7. ASSUME NEW t \in Attempt, NEW w \in Account \cup Stranger, NEW a \in Addr, LoginArrives(t, w, a)
      PROVE  Within(guardLocks'[u], guardWrong'[u], O2, F2)
  <2> guardTry[t].pc = "idle" /\ guardTry'[t].pc = "user"
    BY <1>7 DEF LoginArrives, GuardIdle, GuessInv, GuardTyped, GuardTypeOK
  <2>1. O2 = O /\ F2 = F
    BY <1>5, <1>6, <1>7 DEF OpenTries, FailedTries
  <2>2. QED
    BY <1>2, <1>7, <2>1 DEF LoginArrives
<1>8. ASSUME NEW t \in Attempt, AccountLocked(t)
      PROVE  Within(guardLocks'[u], guardWrong'[u], O2, F2)
  <2>1. F2 = F /\ (Locked(guardLocks[u]) => O2 = O)
    BY <1>1, <1>5, <1>6, <1>8
    DEF AccountLocked, Goto, Answer, OpenTries, FailedTries, GuardIdle, TryRec, GuessInv, GuardTyped, GuardTypeOK
  <2>2. UNCHANGED <<guardLocks, guardWrong>>
    BY <1>8 DEF AccountLocked
  <2>3. QED
    BY <1>2, <2>1, <2>2
<1>9. ASSUME NEW t \in Attempt, WrongPassword(t)
      PROVE  Within(guardLocks'[u], guardWrong'[u], O2, F2)
  <2> /\ guardTry[t].pc = "verify" /\ guardTry'[t].user = guardTry[t].user
      /\ guardTry'[t].pc = IF guardTry[t].user \in Account THEN "fail" ELSE "ip"
    BY <1>6, <1>9 DEF WrongPassword, Goto, GuardIdle, TryRec, GuessInv, GuardTyped, GuardTypeOK
  <2>1. IF guardTry[t].user = u THEN O2 = O - 1 /\ F2 = F + 1 /\ guardWrong'[u] = guardWrong[u] + 1
        ELSE O2 = O /\ F2 = F /\ guardWrong'[u] = guardWrong[u]
    <3>1. IF guardTry[t].user = u THEN O2 = O - 1 /\ F2 = F + 1 ELSE O2 = O /\ F2 = F
      BY <1>5, <1>6, <1>9 DEF OpenTries, FailedTries
    <3>2. guardWrong'[u] = IF guardTry[t].user = u THEN guardWrong[u] + 1 ELSE guardWrong[u]
      BY <1>9 DEF WrongPassword, GuessInv, GuardTyped, GuardTypeOK
    <3>3. QED
      BY <3>1, <3>2
  <2>2. UNCHANGED guardLocks
    BY <1>9 DEF WrongPassword
  <2>3. QED
    BY <1>1, <1>2, <1>3, <2>1, <2>2
<1>10. ASSUME NEW t \in Attempt, RightPassword(t)
       PROVE  Within(guardLocks'[u], guardWrong'[u], O2, F2)
  <2>1. F2 = F /\ (guardTry[t].user # u => O2 = O)
    BY <1>1, <1>5, <1>6, <1>10
    DEF RightPassword, Answer, OpenTries, FailedTries, GuardIdle, TryRec, GuessInv, GuardTyped, GuardTypeOK
  <2>2. CASE guardTry[t].user = u
    <3>1. guardLocks'[u] = NoLock /\ guardWrong'[u] = F
      BY <1>4, <1>10, <2>2 DEF RightPassword, GuessInv, GuardTyped, GuardTypeOK
    <3>2. QED
      BY <1>1, <2>1, <3>1 DEF NoLock, Locked
  <2>3. CASE guardTry[t].user # u
    <3>1. guardLocks'[u] = guardLocks[u] /\ guardWrong'[u] = guardWrong[u]
      BY <1>10, <2>3 DEF RightPassword, GuessInv, GuardTyped, GuardTypeOK
    <3>2. QED
      BY <1>2, <2>1, <2>3, <3>1
  <2>4. QED
    BY <2>2, <2>3
<1>11. ASSUME NEW t \in Attempt, RecordFailure(t)
       PROVE  Within(guardLocks'[u], guardWrong'[u], O2, F2)
  <2>1. O2 = O /\ F2 = F - (IF guardTry[t].user = u THEN 1 ELSE 0)
    <3>1. guardTry[t].pc = "fail" /\ guardTry'[t].user = guardTry[t].user /\ guardTry'[t].pc = "ip"
      BY <1>6, <1>11 DEF RecordFailure, Goto, GuardIdle, TryRec, GuessInv, GuardTyped, GuardTypeOK
    <3>2. O2 = O
      BY <1>5, <1>6, <1>11, <3>1 DEF OpenTries
    <3>3. IF guardTry[t].user = u THEN F2 = F - 1 ELSE F2 = F
      BY <1>5, <1>6, <1>11, <3>1 DEF FailedTries
    <3>4. QED
      BY <1>1, <3>2, <3>3
  <2>2. PICK old \in SUBSET {v \in Account : guardLocks[v].until = "zero"} :
          /\ guardLocks' = [[v \in Account |-> IF v \in old THEN NoLock ELSE guardLocks[v]]
                              EXCEPT ![guardTry[t].user] = Bump(@, LockThreshold)]
          /\ guardWrong' = [v \in Account |-> IF v \in old THEN Unrecorded(v) ELSE guardWrong[v]]
    BY <1>11 DEF RecordFailure
  <2> DEFINE entry == IF u \in old THEN NoLock ELSE guardLocks[u]
             wrong == IF u \in old THEN F ELSE guardWrong[u]
  <2>3. entry \in [failures : 0 .. LockThreshold - 1, until : LockEnd] /\ wrong \in Nat
        /\ Within(entry, wrong, O, F)
    BY <1>1, <1>2, <1>3, NoLockType DEF NoLock, Locked
  <2>4. guardWrong'[u] = wrong
    BY <1>4, <2>2
  <2>5. guardLocks'[u] = IF guardTry[t].user = u THEN Bump(entry, LockThreshold) ELSE entry
    BY <2>2
  <2> HIDE DEF entry, wrong
  <2>6. CASE guardTry[t].user = u
    <3>1. CASE entry.failures + 1 >= LockThreshold
      <4>1. Locked(guardLocks'[u])
        BY <2>5, <2>6, <3>1 DEF Bump, Locked
      <4>2. wrong + O <= LockThreshold - 1 + N
        BY <1>1, <1>3, <2>3, <3>1
      <4>3. QED
        BY <2>1, <2>4, <4>1, <4>2
    <3>2. CASE ~(entry.failures + 1 >= LockThreshold)
      <4>1. guardLocks'[u].failures = entry.failures + 1 /\ guardLocks'[u].until = entry.until
        BY <2>3, <2>5, <2>6, <3>2 DEF Bump
      <4>2. QED
        BY <1>1, <1>3, <2>1, <2>3, <2>4, <2>6, <4>1 DEF Locked
    <3>3. QED
      BY <3>1, <3>2
  <2>7. CASE guardTry[t].user # u
    BY <1>1, <2>1, <2>3, <2>4, <2>5, <2>7
  <2>8. QED
    BY <2>6, <2>7
<1>12. ASSUME NEW t \in Attempt, RecordIPFailure(t)
       PROVE  Within(guardLocks'[u], guardWrong'[u], O2, F2)
  <2>1. O2 = O /\ F2 = F
    BY <1>1, <1>5, <1>6, <1>12
    DEF RecordIPFailure, Answer, OpenTries, FailedTries, GuardIdle, TryRec, GuessInv, GuardTyped, GuardTypeOK
  <2>2. QED
    BY <1>2, <1>12, <2>1 DEF RecordIPFailure
<1>13. ASSUME NEW v \in Account, LockEnds(v)
       PROVE  Within(guardLocks'[u], guardWrong'[u], O2, F2)
  <2>1. O2 = O /\ F2 = F
    BY <1>13 DEF LockEnds, O, O2, F, F2
  <2>2. CASE v = u
    <3>1. guardLocks'[u].until = "past" /\ guardLocks'[u].failures = guardLocks[u].failures
          /\ guardWrong'[u] = guardLocks[u].failures + F
      BY <1>3, <1>4, <1>13, <2>2 DEF LockEnds, GuessInv, GuardTyped, GuardTypeOK
    <3>2. QED
      BY <1>1, <1>3, <2>1, <3>1 DEF Locked
  <2>3. CASE v # u
    <3>1. guardLocks'[u] = guardLocks[u] /\ guardWrong'[u] = guardWrong[u]
      BY <1>13, <2>3 DEF LockEnds, GuessInv, GuardTyped, GuardTypeOK
    <3>2. QED
      BY <1>2, <2>1, <3>1
  <2>4. QED
    BY <2>2, <2>3
<1>14. CASE UNCHANGED <<guardLocks, guardTry, guardWrong>>
  BY <1>2, <1>14 DEF O, O2, F, F2
<1>15. QED
  BY <1>7, <1>8, <1>9, <1>10, <1>11, <1>12, <1>13, <1>14 DEF GuardNext, guardVars, IPLockEnds

LEMMA AddressBoundStep ==
  ASSUME GuessInv, [GuardNext]_guardVars
  PROVE  AddressBound'
<1> DEFINE Room(ips) == Cardinality(DOMAIN ips) < IPLockMapMax
<1> SUFFICES ASSUME NEW a \in Addr
             PROVE  IF a \in DOMAIN guardIPs'
                    THEN IF Locked(guardIPs'[a])
                         THEN guardIPWrong'[a] + Cardinality(OpenFrom(guardTry', a))
                                <= IPLockThreshold - 1 + Cardinality(Attempt)
                         ELSE guardIPWrong'[a] <= guardIPs'[a].failures
                                                    + Cardinality(FailedFrom(guardTry', a))
                    ELSE /\ guardIPWrong'[a] <= Cardinality(Attempt)
                         /\ Room(guardIPs') => guardIPWrong'[a] <= Cardinality(FailedFrom(guardTry', a))
  BY DEF AddressBound, Tracked
<1> DEFINE N  == Cardinality(Attempt)
           S  == OpenFrom(guardTry, a)
           S2 == OpenFrom(guardTry', a)
           T  == FailedFrom(guardTry, a)
           T2 == FailedFrom(guardTry', a)
           O  == Cardinality(S)
           O2 == Cardinality(S2)
           F  == Cardinality(T)
           F2 == Cardinality(T2)
           Within(ips, wrong, open, failed) ==
             IF a \in DOMAIN ips
             THEN IF Locked(ips[a]) THEN wrong + open <= IPLockThreshold - 1 + N
                  ELSE wrong <= ips[a].failures + failed
             ELSE wrong <= N /\ (Room(ips) => wrong <= failed)
<1>1. {N, O, F, O2, F2} \subseteq Nat /\ O + F <= N /\ F2 <= N
  <2>1. S \cap T = {}
    BY DEF OpenFrom, FailedFrom
  <2>2. {S, S2, T, T2} \subseteq SUBSET Attempt
    BY DEF OpenFrom, FailedFrom
  <2> HIDE DEF S, S2, T, T2
  <2>3. QED
    BY <2>1, <2>2, AttemptCount, DisjointCount
<1>2. Within(guardIPs, guardIPWrong[a], O, F)
  BY DEF GuessInv, AddressBound, Tracked
<1>3. /\ a \in DOMAIN guardIPs =>
           guardIPs[a] \in [failures : 0 .. IPLockThreshold - 1, until : LockEnd]
      /\ guardIPWrong[a] \in Nat /\ IPLockThreshold \in Nat \ {0}
  BY GuardAssumption DEF GuessInv, GuardTyped, GuardTypeOK
<1>4. UnrecordedFrom(a) = F
  BY DEF UnrecordedFrom, FailedFrom
<1> SUFFICES Within(guardIPs', guardIPWrong'[a], O2, F2)
  OBVIOUS
<1>5. ASSUME NEW t \in Attempt, guardTry[t] \in TryRec,
             \/ \E w \in Account \cup Stranger, b \in Addr : LoginArrives(t, w, b)
             \/ AccountLocked(t) \/ WrongPassword(t) \/ RightPassword(t)
             \/ RecordFailure(t) \/ RecordIPFailure(t)
      PROVE  /\ t \in S /\ t \notin S2 => O2 = O - 1
             /\ t \notin S /\ t \in S2 => O2 = O + 1
             /\ (t \in S <=> t \in S2) => O2 = O
             /\ t \in T /\ t \notin T2 => F2 = F - 1
             /\ t \notin T /\ t \in T2 => F2 = F + 1
             /\ (t \in T <=> t \in T2) => F2 = F
  <2>1. \A r \in Attempt : r # t => guardTry'[r] = guardTry[r]
    BY <1>5 DEF LoginArrives, AccountLocked, WrongPassword, RightPassword, RecordFailure,
       RecordIPFailure, Goto, Answer, GuessInv, GuardTyped, GuardTypeOK
  <2>2. /\ {S, S2, T, T2} \subseteq SUBSET Attempt
        /\ \A r \in Attempt : r # t => (r \in S <=> r \in S2) /\ (r \in T <=> r \in T2)
    BY <2>1 DEF OpenFrom, FailedFrom
  <2> HIDE DEF S, S2, T, T2
  <2>3. /\ t \in S /\ t \notin S2 => O2 = O - 1
        /\ t \notin S /\ t \in S2 => O2 = O + 1
        /\ (t \in S <=> t \in S2) => O2 = O
    BY <1>1, <2>2, CountMoves
  <2>4. /\ t \in T /\ t \notin T2 => F2 = F - 1
        /\ t \notin T /\ t \in T2 => F2 = F + 1
        /\ (t \in T <=> t \in T2) => F2 = F
    BY <1>1, <2>2, CountMoves
  <2>5. QED
    BY <2>3, <2>4
<1>6. \A t \in Attempt : guardTry[t] \in TryRec
  BY DEF GuessInv, GuardTyped, GuardTypeOK, TryRec
<1> HIDE DEF N, O, F, O2, F2, Room
<1>7. ASSUME NEW t \in Attempt, NEW w \in Account \cup Stranger, NEW b \in Addr, LoginArrives(t, w, b)
      PROVE  Within(guardIPs', guardIPWrong'[a], O2, F2)
  <2>1. guardTry[t].pc = "idle" /\ guardTry'[t].pc = "user" /\ guardTry'[t].addr = b
    BY <1>7 DEF LoginArrives, GuardIdle, GuessInv, GuardTyped, GuardTypeOK
  <2>2. F2 = F /\ (b # a => O2 = O)
    BY <1>5, <1>6, <1>7, <2>1 DEF OpenFrom, FailedFrom
  <2>3. UNCHANGED <<guardIPs, guardIPWrong>> /\ (b \in DOMAIN guardIPs => ~Locked(guardIPs[b]))
    BY <1>7 DEF LoginArrives
  <2>4. QED
    BY <1>2, <2>2, <2>3
<1>8. ASSUME NEW t \in Attempt, AccountLocked(t) \/ RightPassword(t)
      PROVE  Within(guardIPs', guardIPWrong'[a], O2, F2)
  <2>1. /\ guardTry[t].pc \in {"user", "verify"}
        /\ \/ guardTry'[t].pc = "idle"
           \/ guardTry'[t].pc = "verify" /\ guardTry'[t].addr = guardTry[t].addr
    BY <1>6, <1>8 DEF AccountLocked, RightPassword, Goto, Answer, GuardIdle, TryRec, GuessInv,
       GuardTyped, GuardTypeOK
  <2>2. F2 = F
    BY <1>5, <1>6, <1>8, <2>1 DEF FailedFrom
  <2>3. O2 <= O
    BY <1>1, <1>5, <1>6, <1>8, <2>1 DEF OpenFrom
  <2>4. UNCHANGED <<guardIPs, guardIPWrong>>
    BY <1>8 DEF AccountLocked, RightPassword
  <2>5. QED
    BY <1>1, <1>2, <1>3, <2>2, <2>3, <2>4
<1>9. ASSUME NEW t \in Attempt, WrongPassword(t)
      PROVE  Within(guardIPs', guardIPWrong'[a], O2, F2)
  <2>1. /\ guardTry[t].pc = "verify" /\ guardTry'[t].addr = guardTry[t].addr
        /\ guardTry'[t].pc \in {"fail", "ip"} /\ guardTry[t].addr \in Addr
    BY <1>6, <1>9 DEF WrongPassword, Goto, GuardIdle, TryRec, GuessInv, GuardTyped, GuardTypeOK
  <2>2. IF guardTry[t].addr = a THEN O2 = O - 1 /\ F2 = F + 1 ELSE O2 = O /\ F2 = F
    BY <1>5, <1>6, <1>9, <2>1 DEF OpenFrom, FailedFrom
  <2>3. guardIPWrong'[a] = IF guardTry[t].addr = a /\ Tracked(a) THEN guardIPWrong[a] + 1
                           ELSE guardIPWrong[a]
    BY <1>9, <2>1 DEF WrongPassword, GuessInv, GuardTyped, GuardTypeOK
  <2>4. UNCHANGED guardIPs /\ (Tracked(a) <=> a \in DOMAIN guardIPs \/ Room(guardIPs))
    BY <1>9 DEF WrongPassword, Tracked, Room
  <2>5. QED
    BY <1>1, <1>2, <1>3, <2>2, <2>3, <2>4
<1>10. ASSUME NEW t \in Attempt, RecordFailure(t)
       PROVE  Within(guardIPs', guardIPWrong'[a], O2, F2)
  <2>1. guardTry[t].pc = "fail" /\ guardTry'[t].addr = guardTry[t].addr /\ guardTry'[t].pc = "ip"
    BY <1>6, <1>10 DEF RecordFailure, Goto, GuardIdle, TryRec, GuessInv, GuardTyped, GuardTypeOK
  <2>2. O2 = O /\ F2 = F
    BY <1>5, <1>6, <1>10, <2>1 DEF OpenFrom, FailedFrom
  <2>3. UNCHANGED <<guardIPs, guardIPWrong>>
    BY <1>10 DEF RecordFailure
  <2>4. QED
    BY <1>2, <2>2, <2>3
<1>11. ASSUME NEW t \in Attempt, RecordIPFailure(t)
       PROVE  Within(guardIPs', guardIPWrong'[a], O2, F2)
  <2> DEFINE b == guardTry[t].addr
             entry == IF b \in DOMAIN guardIPs THEN guardIPs[b] ELSE NoLock
  <2>1. guardTry[t].pc = "ip" /\ guardTry'[t].pc = "idle" /\ b \in Addr
    BY <1>6, <1>11 DEF RecordIPFailure, Answer, GuardIdle, TryRec, GuessInv, GuardTyped, GuardTypeOK
  <2>2. O2 = O /\ (IF b = a THEN F2 = F - 1 ELSE F2 = F)
    BY <1>5, <1>6, <1>11, <2>1 DEF OpenFrom, FailedFrom
  <2>3. UNCHANGED guardIPWrong
    BY <1>11 DEF RecordIPFailure
  <2>4. CASE ~Tracked(b)
    <3>1. UNCHANGED guardIPs /\ b \notin DOMAIN guardIPs /\ ~Room(guardIPs)
      BY <1>11, <2>4 DEF RecordIPFailure, Tracked, Room
    <3>2. QED
      BY <1>2, <2>2, <2>3, <3>1
  <2>5. CASE Tracked(b) /\ b = a
    <3>1. /\ DOMAIN guardIPs' = DOMAIN guardIPs \cup {a}
          /\ guardIPs'[a] = Bump(entry, IPLockThreshold)
      BY <1>11, <2>5 DEF RecordIPFailure
    <3>2. a \in DOMAIN guardIPs \/ Room(guardIPs)
      BY <2>5 DEF Tracked, Room
    <3>3. /\ entry \in [failures : 0 .. IPLockThreshold - 1, until : LockEnd]
          /\ IF Locked(entry) THEN guardIPWrong[a] + O <= IPLockThreshold - 1 + N
             ELSE guardIPWrong[a] <= entry.failures + F
      BY <1>1, <1>2, <1>3, <2>5, <3>2, NoLockType DEF NoLock, Locked
    <3> HIDE DEF entry
    <3>4. CASE entry.failures + 1 >= IPLockThreshold
      <4>1. Locked(guardIPs'[a])
        BY <3>1, <3>4 DEF Bump, Locked
      <4>2. guardIPWrong[a] + O <= IPLockThreshold - 1 + N
        BY <1>1, <1>3, <3>3, <3>4
      <4>3. QED
        BY <2>2, <2>3, <3>1, <4>1, <4>2
    <3>5. CASE ~(entry.failures + 1 >= IPLockThreshold)
      <4>1. guardIPs'[a].failures = entry.failures + 1 /\ guardIPs'[a].until = entry.until
        BY <3>1, <3>3, <3>5 DEF Bump
      <4>2. QED
        BY <1>1, <1>3, <2>2, <2>3, <2>5, <3>1, <3>3, <4>1 DEF Locked
    <3>6. QED
      BY <3>4, <3>5
  <2>6. CASE Tracked(b) /\ b # a
    <3>1. /\ DOMAIN guardIPs' = DOMAIN guardIPs \cup {b}
          /\ a \in DOMAIN guardIPs => guardIPs'[a] = guardIPs[a]
      BY <1>11, <2>6 DEF RecordIPFailure
    <3>2. Room(guardIPs') => Room(guardIPs)
      <4> DEFINE D == DOMAIN guardIPs
      <4>1. IsFiniteSet(D)
        BY DEF GuessInv, GuardTyped
      <4> HIDE DEF D
      <4>2. IsFiniteSet(D \cup {b}) /\ D \in SUBSET (D \cup {b})
        BY <4>1, FS_AddElement
      <4>3. /\ Cardinality(D) <= Cardinality(D \cup {b})
            /\ Cardinality(D) \in Nat /\ Cardinality(D \cup {b}) \in Nat
        BY <4>1, <4>2, FS_Subset, FS_CardinalityType
      <4>4. QED
        BY <3>1, <4>3, GuardAssumption DEF D, Room
    <3>3. QED
      BY <1>2, <2>2, <2>3, <2>6, <3>1, <3>2
  <2>7. QED
    BY <2>4, <2>5, <2>6
<1>12. ASSUME NEW b \in DOMAIN guardIPs, IPLockEnds(b)
       PROVE  Within(guardIPs', guardIPWrong'[a], O2, F2)
  <2>1. O2 = O /\ F2 = F
    BY <1>12 DEF IPLockEnds, O, O2, F, F2
  <2>2. DOMAIN guardIPs' = DOMAIN guardIPs
    BY <1>12 DEF IPLockEnds
  <2>3. CASE b = a
    <3>1. guardIPs'[a].until = "past" /\ guardIPs'[a].failures = guardIPs[a].failures
          /\ guardIPWrong'[a] = guardIPs[a].failures + F
      BY <1>3, <1>4, <1>12, <2>3 DEF IPLockEnds, GuessInv, GuardTyped, GuardTypeOK
    <3>2. QED
      BY <1>1, <1>3, <1>12, <2>1, <2>2, <2>3, <3>1 DEF Locked
  <2>4. CASE b # a
    <3>1. (a \in DOMAIN guardIPs => guardIPs'[a] = guardIPs[a]) /\ guardIPWrong'[a] = guardIPWrong[a]
      BY <1>12, <2>4 DEF IPLockEnds, GuessInv, GuardTyped, GuardTypeOK
    <3>2. Room(guardIPs') <=> Room(guardIPs)
      BY <2>2 DEF Room
    <3>3. QED
      BY <1>2, <2>1, <2>2, <3>1, <3>2
  <2>5. QED
    BY <2>3, <2>4
<1>13. CASE UNCHANGED <<guardIPs, guardTry, guardIPWrong>>
  BY <1>2, <1>13 DEF O, O2, F, F2
<1>14. QED
  BY <1>7, <1>8, <1>9, <1>10, <1>11, <1>12, <1>13 DEF GuardNext, guardVars, LockEnds

\* Between two pardons an account gives away fewer wrong guesses than lockThreshold plus
\* the number of concurrent requests, and an address fewer than ipLockThreshold plus that,
\* for any thresholds, any number of attempts and however they overlap: an attempt that
\* passed the check before the lock began can still fail, and none after it.
THEOREM GuessesBounded == GuardSpec => []GuessBound
<1>1. GuardInit => GuessInv
  <2> SUFFICES ASSUME GuardInit PROVE GuessInv
    OBVIOUS
  <2>1. \A u \in Account : Cardinality(FailedTries(guardTry, u)) \in Nat
    <3> SUFFICES ASSUME NEW u \in Account PROVE Cardinality(FailedTries(guardTry, u)) \in Nat
      OBVIOUS
    <3>1. FailedTries(guardTry, u) \in SUBSET Attempt
      BY DEF FailedTries
    <3>2. QED
      BY <3>1, AttemptCount
  <2>2. \A a \in Addr : Cardinality(FailedFrom(guardTry, a)) \in Nat /\ Cardinality(Attempt) \in Nat
    <3> SUFFICES ASSUME NEW a \in Addr
                 PROVE  Cardinality(FailedFrom(guardTry, a)) \in Nat /\ Cardinality(Attempt) \in Nat
      OBVIOUS
    <3>1. FailedFrom(guardTry, a) \in SUBSET Attempt
      BY DEF FailedFrom
    <3>2. QED
      BY <3>1, AttemptCount
  <2>3. AccountBound
    BY <2>1 DEF GuardInit, AccountBound, NoLock, Locked
  <2>4. AddressBound
    BY <2>2 DEF GuardInit, AddressBound
  <2>5. QED
    BY <2>3, <2>4, GuardInitType DEF GuessInv
<1>2. GuessInv /\ [GuardNext]_guardVars => GuessInv'
  <2> SUFFICES ASSUME GuessInv, [GuardNext]_guardVars PROVE GuessInv'
    OBVIOUS
  <2>1. GuardTyped'
    BY GuardNextType DEF GuessInv
  <2>2. QED
    BY <2>1, AccountBoundStep, AddressBoundStep DEF GuessInv
<1>3. GuessInv => GuessBound
  <2> SUFFICES ASSUME GuessInv PROVE GuessBound
    OBVIOUS
  <2>1. ASSUME NEW u \in Account PROVE guardWrong[u] < LockThreshold + Cardinality(Attempt)
    <3>1. OpenTries(guardTry, u) \in SUBSET Attempt /\ FailedTries(guardTry, u) \in SUBSET Attempt
      BY DEF OpenTries, FailedTries
    <3>2. /\ Cardinality(Attempt) \in Nat /\ Cardinality(OpenTries(guardTry, u)) \in Nat
          /\ Cardinality(FailedTries(guardTry, u)) \in 0 .. Cardinality(Attempt)
      BY <3>1, AttemptCount
    <3>3. guardLocks[u].failures \in 0 .. LockThreshold - 1 /\ guardWrong[u] \in Nat
      BY DEF GuessInv, GuardTyped, GuardTypeOK
    <3>4. QED
      BY <3>2, <3>3, GuardAssumption DEF GuessInv, AccountBound
  <2>2. ASSUME NEW a \in Addr PROVE guardIPWrong[a] < IPLockThreshold + Cardinality(Attempt)
    <3>1. OpenFrom(guardTry, a) \in SUBSET Attempt /\ FailedFrom(guardTry, a) \in SUBSET Attempt
      BY DEF OpenFrom, FailedFrom
    <3>2. /\ Cardinality(Attempt) \in Nat /\ Cardinality(OpenFrom(guardTry, a)) \in Nat
          /\ Cardinality(FailedFrom(guardTry, a)) \in 0 .. Cardinality(Attempt)
      BY <3>1, AttemptCount
    <3>3. /\ a \in DOMAIN guardIPs => guardIPs[a].failures \in 0 .. IPLockThreshold - 1
          /\ guardIPWrong[a] \in Nat
      BY DEF GuessInv, GuardTyped, GuardTypeOK
    <3>4. QED
      BY <3>2, <3>3, GuardAssumption DEF GuessInv, AddressBound
  <2>3. QED
    BY <2>1, <2>2 DEF GuessBound
<1>4. QED
  BY <1>1, <1>2, <1>3, PTL DEF GuardSpec

-----------------------------------------------------------------------------
(* The routes: what a caller may change, and what is audited.               *)

\* The areas that the routes of each capability change.
Behind(cap) ==
  CASE cap = "public" -> {"session", "target", "feed"}
    [] cap = "" -> {"session", "self"}
    [] cap = "policy.edit" -> {"policy"}
    [] cap = "catalog.edit" -> {"catalog"}
    [] cap = "apply.reload" -> {"running"}
    [] cap = "allow.temp" -> {"temp"}
    [] cap \in {"config.edit", "agh.manage", "killswitch.execute", "users.manage"} -> Area
    [] OTHER -> {"target", "feed"}

\* A row of the table: its changes are those of its capability, and it is audited
\* unless it changes bookkeeping or the session only.
Fits(row) ==
  /\ row.does \subseteq Behind(row.cap) /\ row.torn \subseteq Behind(row.cap)
  /\ row.audit \in {"ok", "always", "never"}
  /\ row.audit = "never" => row.does \subseteq {"session", "target", "feed"}

LEMMA ViewFits ==
  ASSUME NEW cap, NEW dep PROVE Fits(View(cap, dep))
BY DEF View, Route, Fits

LEMMA PollFits ==
  ASSUME NEW cap \in {"public", "catalog.view"}, NEW dep,
         NEW does \in SUBSET {"target", "feed"}
  PROVE  Fits(Poll(cap, dep, does))
BY DEF Poll, Route, Fits, Behind

LEMMA EditFits ==
  ASSUME NEW dep
  PROVE  /\ Fits(Edit("", dep, {"self"}))
         /\ Fits(Edit("policy.edit", dep, {"policy"}))
         /\ Fits(Edit("catalog.edit", dep, {"catalog"}))
BY DEF Edit, Route, Fits, Behind

LEMMA ManageFits ==
  ASSUME NEW cap \in {"config.edit", "agh.manage", "killswitch.execute", "users.manage"},
         NEW dep, NEW does \in SUBSET Area
  PROVE  Fits(Edit(cap, dep, does))
<1>1. Behind(cap) = Area
  BY DEF Behind
<1> DEFINE r == Edit(cap, dep, does)
<1>2. r.cap = cap /\ r.does = does /\ r.torn = does /\ r.audit = "ok"
  BY DEF Edit, Route
<1> HIDE DEF r
<1>3. Fits(r)
  BY <1>1, <1>2 DEF Fits
<1>4. QED
  BY <1>3 DEF r

\* Every row of the table does.
LEMMA AllFit == \A row \in Handler : Fits(row)
<1>1. \A row \in
       {handleAuthInfo, handleOIDCLogin, handleMe, handleDashboard, handleTraffic,
        handleTrafficStream, handleCuration, handlePolicyList, handlePolicyGet,
        handleCatalogList, handleRuleCatalogList, handleRuleCatalogGet,
        handleAGHSyncStatus, handleTriageContext, handleAnalyticsSummary,
        handleAnalyticsDomains, handleAnalyticsRules, handleAnalyticsCatalog,
        writeCatalogAnalyticsSlice, handleConfigGet, handleAudit, handleUserList,
        handleAGHManagedSources, handleAGHManagedSourceEntries,
        handleAGHManagedSourcePendingDiff, handleAGHManagedCatalog,
        handleAGHManagedCatalogFacets, handleAGHManagedConflicts,
        handleAGHManagedRollbacks, handleAGHManagedHistory,
        handleAGHManagedSchedulerConfig, handleAGHManagedSourcePreview} : Fits(row)
  BY ViewFits DEF
     handleAuthInfo, handleOIDCLogin, handleMe, handleDashboard, handleTraffic,
     handleTrafficStream, handleCuration, handlePolicyList, handlePolicyGet,
     handleCatalogList, handleRuleCatalogList, handleRuleCatalogGet, handleAGHSyncStatus,
     handleTriageContext, handleAnalyticsSummary, handleAnalyticsDomains,
     handleAnalyticsRules, handleAnalyticsCatalog, writeCatalogAnalyticsSlice,
     handleConfigGet, handleAudit, handleUserList, handleAGHManagedSources,
     handleAGHManagedSourceEntries, handleAGHManagedSourcePendingDiff,
     handleAGHManagedCatalog, handleAGHManagedCatalogFacets, handleAGHManagedConflicts,
     handleAGHManagedRollbacks, handleAGHManagedHistory, handleAGHManagedSchedulerConfig,
     handleAGHManagedSourcePreview
<1>2. \A row \in
       {handleAGHManagedFeedStatus, handleAGHManagedTargetConfig,
        handleAGHManagedAGHStatus, handleAGHManagedFeedPreview, handleAGHManagedFeedExport,
        handleAGHManagedFeed} : Fits(row)
  BY PollFits DEF
     handleAGHManagedFeedStatus, handleAGHManagedTargetConfig, handleAGHManagedAGHStatus,
     handleAGHManagedFeedPreview, handleAGHManagedFeedExport, handleAGHManagedFeed
<1>3. \A row \in
       {handleChangePassword, handlePolicyPut, handlePermanentAllow, handleSiteOverride,
        handleRuleCatalogReview, handleRuleCatalogPromote, handleRuleCatalogDowngrade,
        handleRuleCatalogMarkCNAME} : Fits(row)
  BY EditFits DEF
     handleChangePassword, handlePolicyPut, handlePermanentAllow, handleSiteOverride,
     handleRuleCatalogReview, handleRuleCatalogPromote, handleRuleCatalogDowngrade,
     handleRuleCatalogMarkCNAME
<1>4. \A row \in
       {handleConfigPut, handleKillSwitch, handleUserCreate, handleUserDelete,
        handleUserSetPassword, handleAGHManagedSourceUpsert, handleAGHManagedSourceDelete,
        handleAGHManagedSourceSync, handleAGHManagedSourceApprove,
        handleAGHManagedSourceReject, handleAGHManagedCatalogPatch,
        handleAGHManagedCatalogBulkPatch, handleAGHManagedConflictResolve,
        handleAGHManagedRollbackApply, handleAGHManagedEmergencyEmpty,
        handleAGHManagedPreset, handleAGHManagedSchedulerConfigPut,
        handleAGHManagedTargetConfigPut} : Fits(row)
  <2>1. {"managed", "target"} \in SUBSET Area /\ {"config", "target"} \in SUBSET Area
        /\ \A a \in {"managed", "config", "users", "agh"} : {a} \in SUBSET Area
    BY DEF Area
  <2>2. QED
    BY <2>1, ManageFits DEF
       handleConfigPut, handleKillSwitch, handleUserCreate, handleUserDelete,
       handleUserSetPassword, handleAGHManagedSourceUpsert, handleAGHManagedSourceDelete,
       handleAGHManagedSourceSync, handleAGHManagedSourceApprove,
       handleAGHManagedSourceReject, handleAGHManagedCatalogPatch,
       handleAGHManagedCatalogBulkPatch, handleAGHManagedConflictResolve,
       handleAGHManagedRollbackApply, handleAGHManagedEmergencyEmpty,
       handleAGHManagedPreset, handleAGHManagedSchedulerConfigPut,
       handleAGHManagedTargetConfigPut
<1>5. \A row \in
       {handleLogin, handleOIDCCallback, handleLogout, handleReload, handleTempAllow,
        handleAGHRewriteCandidate, handleAGHSyncRun, handleAGHManagedRefreshTarget,
        handleAGHManagedRefreshAGH, handleAGHManagedRegisterAGH} : Fits(row)
  <2>1. Fits(handleLogin)
    BY DEF handleLogin, Route, Fits, Behind, Area
  <2>2. Fits(handleOIDCCallback)
    BY DEF handleOIDCCallback, Route, Fits, Behind, Area
  <2>3. Fits(handleLogout)
    BY DEF handleLogout, Route, Fits, Behind, Area
  <2>4. Fits(handleReload)
    BY DEF handleReload, Route, Fits, Behind, Area
  <2>5. Fits(handleTempAllow)
    BY DEF handleTempAllow, Route, Fits, Behind, Area
  <2>6. Fits(handleAGHRewriteCandidate)
    BY DEF handleAGHRewriteCandidate, Route, Fits, Behind, Area
  <2>7. Fits(handleAGHSyncRun)
    BY DEF handleAGHSyncRun, Route, Fits, Behind, Area
  <2>8. Fits(handleAGHManagedRefreshTarget)
    BY DEF handleAGHManagedRefreshTarget, Route, Fits, Behind, Area
  <2>9. Fits(handleAGHManagedRefreshAGH)
    BY DEF handleAGHManagedRefreshAGH, Route, Fits, Behind, Area
  <2>10. Fits(handleAGHManagedRegisterAGH)
    BY DEF handleAGHManagedRegisterAGH, Route, Fits, Behind, Area
  <2>11. QED
    BY <2>1, <2>2, <2>3, <2>4, <2>5, <2>6, <2>7, <2>8, <2>9, <2>10
<1>6. QED
  BY <1>1, <1>2, <1>3, <1>4, <1>5 DEF Handler

\* The capabilities of the roles lead no further than the roles may go.
LEMMA RolesReach ==
  ASSUME NEW caller \in Caller, NEW row \in Handler, withAuth(caller, row)
  PROVE  Behind(row.cap) \subseteq Permitted(caller)
<1>0. roleCaps["viewer"] = ViewerCaps /\ roleCaps["editor"] = EditorCaps
  BY DEF roleCaps
<1>1. Behind(row.cap) \subseteq Area
  BY DEF Behind, Area
<1>2. CASE row.cap = "public"
  <2>1. Behind(row.cap) = {"session", "target", "feed"}
    BY <1>2 DEF Behind
  <2>2. QED
    BY <2>1 DEF Permitted, Bookkeeping
<1>3. CASE row.cap # "public"
  <2>1. caller.role \in {"viewer", "editor", "admin"}
    BY <1>3 DEF withAuth, Role, roleCaps
  <2>2. CASE caller.must
    <3>1. row.cap = ""
      <4>1. handleMe.cap = "" /\ handleChangePassword.cap = "" /\ handleLogout.cap = ""
        BY DEF handleMe, handleChangePassword, handleLogout, View, Edit, Route
      <4>2. row \in MustChangeExempt
        BY <1>3, <2>2 DEF withAuth
      <4>3. QED
        BY <4>1, <4>2 DEF MustChangeExempt
    <3>2. Behind(row.cap) = {"session", "self"}
      BY <3>1 DEF Behind
    <3>3. QED
      BY <2>1, <2>2, <3>2 DEF Permitted
  <2>3. CASE ~caller.must /\ row.cap = ""
    <3>1. Behind(row.cap) = {"session", "self"}
      BY <2>3 DEF Behind
    <3>2. QED
      BY <1>1, <2>1, <2>3, <3>1 DEF Permitted
  <2>4. CASE ~caller.must /\ row.cap # "" /\ caller.role = "viewer"
    <3>1. row.cap \in ViewerCaps
      BY <1>0, <1>3, <2>4 DEF withAuth, Can
    <3>2. Behind(row.cap) = {"target", "feed"}
      BY <3>1 DEF ViewerCaps, Behind
    <3>3. QED
      BY <2>4, <3>2 DEF Permitted, Bookkeeping
  <2>5. CASE ~caller.must /\ row.cap # "" /\ caller.role = "editor"
    <3>1. row.cap \in EditorCaps
      BY <1>0, <1>3, <2>5 DEF withAuth, Can
    <3>2. Behind(row.cap) \in {{"policy"}, {"catalog"}, {"running"}, {"temp"}, {"target", "feed"}}
      BY <3>1 DEF EditorCaps, Behind
    <3>3. QED
      BY <2>5, <3>2 DEF Permitted, Bookkeeping
  <2>6. CASE ~caller.must /\ caller.role = "admin"
    <3>1. Area \subseteq Permitted(caller)
      BY <2>6 DEF Permitted
    <3>2. QED
      BY <1>1, <3>1
  <2>7. QED
    BY <2>1, <2>2, <2>3, <2>4, <2>5, <2>6
<1>4. QED
  BY <1>2, <1>3

\* The phases of a request, and what it has changed and written by then.
CallKind == [phase : {"work", "ok", "error", "done", "failed"}, caller : Caller, route : Handler]

CallInv ==
  \/ call = NoCall /\ changed = {}
  \/ /\ call \in CallKind
     /\ withAuth(call.caller, call.route)
     /\ call.phase = "work" => changed = {}
     /\ changed \in {{}, call.route.does, call.route.torn}
     /\ call.phase \in {"ok", "done"} => changed = call.route.does
     /\ call.phase = "done" /\ ~audited => call.route.audit \notin {"ok", "always"}

\* A step that only moves the phase on.
LEMMA FinishKind ==
  ASSUME call \in CallKind, NEW phase \in {"work", "ok", "error", "done", "failed"}, Finish(phase)
  PROVE  /\ call' \in CallKind /\ call'.phase = phase
         /\ call'.caller = call.caller /\ call'.route = call.route
BY DEF Finish, CallKind

LEMMA CallInit == EndpointInit => CallInv /\ audited \in BOOLEAN
BY DEF EndpointInit, CallInv

LEMMA CallNext ==
  ASSUME CallInv, audited \in BOOLEAN, [EndpointNext]_endpointVars
  PROVE  CallInv' /\ audited' \in BOOLEAN
<1>1. ASSUME NEW caller \in Caller, NEW row \in Handler, Dispatch(caller, row)
      PROVE  CallInv' /\ audited' \in BOOLEAN
  <2> DEFINE r == [phase |-> "work", caller |-> caller, route |-> row]
  <2>1. r \in CallKind /\ r.phase = "work" /\ r.caller = caller /\ r.route = row
    BY DEF CallKind
  <2>2. call' = r /\ withAuth(caller, row) /\ changed' = {} /\ audited' = FALSE
    BY <1>1 DEF Dispatch
  <2> HIDE DEF r
  <2>3. QED
    BY <2>1, <2>2 DEF CallInv
<1>2. ASSUME call.phase \in {"work", "ok", "error"} PROVE call \in CallKind
  BY <1>2 DEF CallInv, NoCall
<1>3. ASSUME Refuse PROVE CallInv' /\ audited' \in BOOLEAN
  <2>1. call \in CallKind /\ call.phase = "work" /\ UNCHANGED <<changed, audited>>
    BY <1>2, <1>3 DEF Refuse
  <2>2. /\ call' \in CallKind /\ call'.phase = "failed"
        /\ call'.caller = call.caller /\ call'.route = call.route
    BY <1>3, <2>1, FinishKind DEF Refuse
  <2>3. withAuth(call.caller, call.route) /\ changed = {}
    BY <2>1 DEF CallInv, NoCall
  <2>4. QED
    BY <2>1, <2>2, <2>3 DEF CallInv
<1>4. ASSUME Operate \/ OperateFails PROVE CallInv' /\ audited' \in BOOLEAN
  <2>1. call \in CallKind /\ call.phase = "work" /\ UNCHANGED audited
    BY <1>2, <1>4 DEF Operate, OperateFails
  <2>2. /\ call' \in CallKind /\ call'.phase \in {"ok", "error"}
        /\ call'.caller = call.caller /\ call'.route = call.route
    BY <1>4, <2>1, FinishKind DEF Operate, OperateFails
  <2>3. /\ changed' \in {{}, call.route.does, call.route.torn}
        /\ call'.phase = "ok" => changed' = call.route.does
    BY <1>4, <2>1, FinishKind DEF Operate, OperateFails
  <2>4. withAuth(call.caller, call.route)
    BY <2>1 DEF CallInv, NoCall
  <2>5. QED
    BY <2>1, <2>2, <2>3, <2>4 DEF CallInv
<1>5. ASSUME AnswerCall PROVE CallInv' /\ audited' \in BOOLEAN
  <2> DEFINE last == IF call.phase = "ok" THEN "done" ELSE "failed"
  <2>1. call \in CallKind /\ call.phase \in {"ok", "error"} /\ UNCHANGED changed /\ Finish(last)
    BY <1>2, <1>5 DEF AnswerCall
  <2>2. /\ call' \in CallKind /\ call'.phase = last
        /\ call'.caller = call.caller /\ call'.route = call.route
    BY <2>1, FinishKind
  <2>3. /\ audited' \in BOOLEAN
        /\ last = "done" /\ ~audited' => call.route.audit \notin {"ok", "always"}
    BY <1>5 DEF AnswerCall
  <2>4. /\ withAuth(call.caller, call.route)
        /\ changed \in {{}, call.route.does, call.route.torn}
        /\ last = "done" => changed = call.route.does
    BY <2>1 DEF CallInv, NoCall
  <2>5. last \in {"done", "failed"}
    OBVIOUS
  <2> HIDE DEF last
  <2>6. QED
    <3>1. withAuth(call'.caller, call'.route)
      BY <2>2, <2>4
    <3>2. /\ changed' \in {{}, call'.route.does, call'.route.torn}
          /\ call'.phase \in {"ok", "done"} => changed' = call'.route.does
      BY <2>1, <2>2, <2>4, <2>5
    <3>3. call'.phase = "done" /\ ~audited' => call'.route.audit \notin {"ok", "always"}
      BY <2>2, <2>3
    <3>4. call'.phase # "work"
      BY <2>2, <2>5
    <3>5. QED
      BY <2>2, <2>3, <3>1, <3>2, <3>3, <3>4 DEF CallInv
<1>6. ASSUME UNCHANGED endpointVars PROVE CallInv' /\ audited' \in BOOLEAN
  BY <1>6 DEF endpointVars, CallInv
<1>7. QED
  BY <1>1, <1>3, <1>4, <1>5, <1>6 DEF EndpointNext

\* In particular the variables are of the declared types: a row's changes are areas.
LEMMA CallFits ==
  ASSUME CallInv, audited \in BOOLEAN
  PROVE  EndpointTypeOK /\ RoleEffects /\ ChangesAudited
<1>1. CASE call = NoCall /\ changed = {}
  BY <1>1 DEF EndpointTypeOK, RoleEffects, ChangesAudited
<1>2. CASE call \in CallKind
  <2> DEFINE row == call.route
  <2>0. call # NoCall
    BY <1>2 DEF CallKind, NoCall
  <2>1. row \in Handler /\ call.caller \in Caller /\ withAuth(call.caller, row)
    BY <1>2, <2>0 DEF CallKind, CallInv
  <2>2. Fits(row) /\ changed \in {{}, row.does, row.torn}
    BY <2>0, <2>1, AllFit DEF CallInv
  <2>3. call.phase = "done" => /\ changed = row.does
                               /\ ~audited => row.audit \notin {"ok", "always"}
    BY <2>0 DEF CallInv
  <2>4. Behind(row.cap) \subseteq Permitted(call.caller)
    BY <2>1, RolesReach
  <2> HIDE DEF row
  <2>5. changed \subseteq Behind(row.cap)
    BY <2>2 DEF Fits
  <2>6. Behind(row.cap) \subseteq Area
    BY DEF Behind, Area
  <2>7. EndpointTypeOK
    BY <1>2, <2>5, <2>6 DEF EndpointTypeOK, CallKind
  <2>8. RoleEffects
    BY <2>4, <2>5 DEF RoleEffects
  <2>9. ChangesAudited
    <3> SUFFICES ASSUME call.phase = "done", ~audited
                 PROVE  changed \subseteq Bookkeeping \cup {"session"}
      BY DEF ChangesAudited
    <3>1. row.audit = "never"
      BY <2>2, <2>3 DEF Fits
    <3>2. changed \subseteq {"session", "target", "feed"}
      BY <2>2, <2>3, <3>1 DEF Fits
    <3>3. QED
      BY <3>2 DEF Bookkeeping
  <2>10. QED
    BY <2>7, <2>8, <2>9
<1>3. QED
  BY <1>1, <1>2 DEF CallInv

LEMMA CallsHold == EndpointSpec => [](EndpointTypeOK /\ RoleEffects /\ ChangesAudited)
<1>1. CallInv /\ audited \in BOOLEAN /\ [EndpointNext]_endpointVars
        => (CallInv /\ audited \in BOOLEAN)'
  BY CallNext
<1>2. CallInv /\ audited \in BOOLEAN => EndpointTypeOK /\ RoleEffects /\ ChangesAudited
  BY CallFits
<1>3. QED
  BY <1>1, <1>2, CallInit, PTL DEF EndpointSpec

\* A request is served with a row of the table and changes areas that the table knows,
\* whatever components this server was built with.
THEOREM EndpointTypes == EndpointSpec => []EndpointTypeOK
BY CallsHold, PTL

\* No request, whoever sends it and wherever its handler fails, changes more than
\* withAuth grants its caller.
THEOREM RolesKeepBounds == EndpointSpec => []RoleEffects
BY CallsHold, PTL

\* No handler answers that it is done with a change, other than of the bookkeeping and
\* of the session, without an entry in the audit log.
THEOREM DoneIsAudited == EndpointSpec => []ChangesAudited
BY CallsHold, PTL

-----------------------------------------------------------------------------
(* The request recorder: types.                                             *)

ShownRec == [recs : Seq(LogRecord), opts : RecOptions, live : BOOLEAN]
StreamRec == {StreamClosed} \cup [open : {TRUE}, start : 0..LogMax, seq : 0..LogMax,
                                  got : Seq(1..LogMax)]

TrafficTyped == TrafficTypeOK /\ shown \in ShownRec /\ stream \in StreamRec

LEMMA StreamKinds ==
  ASSUME NEW r \in StreamRec
  PROVE  /\ r.open \in BOOLEAN
         /\ r.open => /\ r \in [open : {TRUE}, start : 0..LogMax, seq : 0..LogMax,
                                got : Seq(1..LogMax)]
                      /\ r.start \in Nat /\ r.seq \in Nat /\ r.got \in Seq(1..LogMax)
<1>1. CASE r = StreamClosed
  BY <1>1 DEF StreamClosed
<1>2. CASE r \in [open : {TRUE}, start : 0..LogMax, seq : 0..LogMax, got : Seq(1..LogMax)]
  <2>1. r.open = TRUE /\ r.start \in 0..LogMax /\ r.seq \in 0..LogMax /\ r.got \in Seq(1..LogMax)
    BY <1>2
  <2>2. 0..LogMax \subseteq Nat
    BY TrafficAssumption
  <2>3. QED
    BY <1>2, <2>1, <2>2
<1>3. QED
  BY <1>1, <1>2 DEF StreamRec

\* The policy takes from a record's path what the options do not allow.
LEMMA PolicyApplies ==
  ASSUME recOpts \in RecOptions, NEW rec \in LogRecord
  PROVE  /\ applyPolicy(rec) \in LogRecord /\ applyPolicy(rec).n = rec.n
         /\ applyPolicy(rec).scoped = rec.scoped
         /\ recOpts.mode \in {"off", "stats"} => applyPolicy(rec).path = "none"
         /\ recOpts.redact /\ applyPolicy(rec).path = "raw" =>
              recOpts.mode = "full" \/ (recOpts.mode = "debug" /\ scopeLive /\ rec.scoped)
<1>1. recOpts.mode \in LogModes /\ recOpts.redact \in BOOLEAN
  BY TrafficAssumption
<1>2. /\ Masked(rec) \in LogRecord /\ Masked(rec).path # "raw" /\ Masked(rec).n = rec.n
      /\ Masked(rec).scoped = rec.scoped
  BY DEF Masked, LogRecord, Paths
<1>3. CASE recOpts.mode \in {"off", "stats"}
  <2>1. applyPolicy(rec) = [rec EXCEPT !.path = "none"]
    BY <1>3 DEF applyPolicy
  <2>2. QED
    BY <1>3, <2>1 DEF LogRecord, Paths
<1>4. CASE recOpts.mode = "full"
  <2>1. applyPolicy(rec) = rec
    BY <1>4 DEF applyPolicy
  <2>2. QED
    BY <1>4, <2>1
<1>5. CASE recOpts.mode = "debug"
  <2>1. applyPolicy(rec) = IF scopeLive /\ rec.scoped THEN rec ELSE Masked(rec)
    BY <1>5 DEF applyPolicy
  <2>2. QED
    BY <1>2, <1>5, <2>1
<1>6. CASE recOpts.mode = "redacted"
  <2>1. applyPolicy(rec) = IF recOpts.redact THEN Masked(rec) ELSE rec
    BY <1>6 DEF applyPolicy
  <2>2. QED
    BY <1>2, <1>6, <2>1
<1>7. QED
  BY <1>1, <1>3, <1>4, <1>5, <1>6 DEF LogModes

\* What a reader is shown of some records.
LEMMA ShownType ==
  ASSUME recOpts \in RecOptions, scopeLive \in BOOLEAN, NEW recs \in Seq(LogRecord), Shows(recs)
  PROVE  shown' \in ShownRec
<1>1. Len(recs) \in Nat /\ DOMAIN recs = 1..Len(recs)
      /\ \A k \in DOMAIN recs : recs[k] \in LogRecord
  OBVIOUS
<1>2. [k \in 1..Len(recs) |-> applyPolicy(recs[k])] \in Seq(LogRecord)
  BY <1>1, PolicyApplies
<1>3. ShownRecs(recs) \in Seq(LogRecord)
  BY <1>1, <1>2 DEF ShownRecs
<1>4. QED
  BY <1>3 DEF Shows, ShownRec

-----------------------------------------------------------------------------
(* The ring holds the last records in their order.                          *)

\* Before the next slot are the newest records; behind it, once the ring has wrapped,
\* those of the round before.
SlotsHold ==
  /\ ringNext <= total
  /\ ~ringFull => total = ringNext
  /\ ringFull => RingSize <= total
  /\ \A i \in 0..RingSize - 1 :
       /\ i < ringNext => ring[i] \in LogRecord /\ ring[i].n = total - ringNext + 1 + i
       /\ i >= ringNext /\ ringFull =>
            ring[i] \in LogRecord /\ ring[i].n = total - ringNext + 1 + i - RingSize
       /\ i >= ringNext /\ ~ringFull => ring[i] = NoRecord

LEMMA NextSlot ==
  ASSUME NEW i \in 0..RingSize - 1
  PROVE  (i + 1) % RingSize = IF i + 1 = RingSize THEN 0 ELSE i + 1
<1>1. RingSize \in Nat \ {0} /\ i \in Nat
  BY TrafficAssumption
<1>2. QED
  BY <1>1

\* Log overwrites the oldest record.
LEMMA LogHolds ==
  ASSUME TrafficTyped, SlotsHold, NEW scoped \in BOOLEAN, LogRequest(scoped)
  PROVE  /\ SlotsHold' /\ ring' \in [0..RingSize - 1 -> LogRecord \cup {NoRecord}]
         /\ ringNext' \in 0..RingSize - 1 /\ ringFull' \in BOOLEAN /\ total' \in 0..LogMax
         /\ total' = total + 1
<1> DEFINE rec == [n |-> total + 1, path |-> "raw", scoped |-> scoped]
<1>1. /\ ring \in [0..RingSize - 1 -> LogRecord \cup {NoRecord}]
      /\ ringNext \in 0..RingSize - 1 /\ ringFull \in BOOLEAN /\ total \in 0..LogMax
      /\ recOpts \in RecOptions /\ RingSize \in Nat \ {0} /\ LogMax \in Nat
  BY TrafficAssumption DEF TrafficTyped, TrafficTypeOK
<1>2. /\ total < LogMax /\ total' = total + 1
      /\ ring' = [ring EXCEPT ![ringNext] = applyPolicy(rec)]
      /\ ringNext' = (ringNext + 1) % RingSize /\ ringFull' = (ringFull \/ ringNext' = 0)
  BY DEF LogRequest
<1>3. rec \in LogRecord
  BY <1>1, <1>2 DEF LogRecord, Paths
<1>4. applyPolicy(rec) \in LogRecord /\ applyPolicy(rec).n = total + 1
  BY <1>1, <1>3, PolicyApplies
<1>5. ringNext' = IF ringNext + 1 = RingSize THEN 0 ELSE ringNext + 1
  BY <1>1, <1>2, NextSlot
<1> DEFINE new == applyPolicy(rec)
<1>6. new \in LogRecord /\ new.n = total + 1 /\ ring' = [ring EXCEPT ![ringNext] = new]
  BY <1>2, <1>4
<1> HIDE DEF rec, new
<1>7. /\ ring' \in [0..RingSize - 1 -> LogRecord \cup {NoRecord}]
      /\ ringNext' \in 0..RingSize - 1 /\ ringFull' \in BOOLEAN /\ total' \in 0..LogMax
  BY <1>1, <1>2, <1>5, <1>6
<1>8. CASE ringNext + 1 = RingSize
  <2>1. ringNext' = 0 /\ ringFull'
    BY <1>2, <1>5, <1>8
  <2>2. RingSize <= total' /\ ringNext' <= total'
    BY <1>1, <1>2, <1>8, <2>1 DEF SlotsHold
  <2>3. ASSUME NEW i \in 0..RingSize - 1
        PROVE  ring'[i] \in LogRecord /\ ring'[i].n = total' - ringNext' + 1 + i - RingSize
    <3>1. CASE i = ringNext
      BY <1>1, <1>2, <1>6, <1>8, <2>1, <3>1
    <3>2. CASE i # ringNext
      <4>1. i < ringNext /\ ring'[i] = ring[i]
        BY <1>1, <1>6, <1>8, <3>2
      <4>2. ring[i] \in LogRecord /\ ring[i].n = total - ringNext + 1 + i
        BY <4>1 DEF SlotsHold
      <4>3. QED
        BY <1>1, <1>2, <1>8, <2>1, <4>1, <4>2
    <3>3. QED
      BY <3>1, <3>2
  <2>4. \A i \in 0..RingSize - 1 : ~(i < ringNext')
    BY <2>1
  <2>5. SlotsHold'
    BY <2>1, <2>2, <2>3, <2>4 DEF SlotsHold
  <2>6. QED
    BY <1>2, <1>7, <2>5
<1>9. CASE ringNext + 1 # RingSize
  <2>1. ringNext' = ringNext + 1 /\ ringFull' = ringFull
    BY <1>1, <1>2, <1>5, <1>9
  <2>2. ringNext' <= total' /\ (~ringFull' => total' = ringNext') /\ (ringFull' => RingSize <= total')
    BY <1>1, <1>2, <2>1 DEF SlotsHold
  <2>3. ASSUME NEW i \in 0..RingSize - 1
        PROVE  /\ i < ringNext' => ring'[i] \in LogRecord /\ ring'[i].n = total' - ringNext' + 1 + i
               /\ i >= ringNext' /\ ringFull' =>
                    ring'[i] \in LogRecord /\ ring'[i].n = total' - ringNext' + 1 + i - RingSize
               /\ i >= ringNext' /\ ~ringFull' => ring'[i] = NoRecord
    <3>1. CASE i = ringNext
      BY <1>1, <1>2, <1>6, <2>1, <3>1
    <3>2. CASE i # ringNext
      <4>1. ring'[i] = ring[i] /\ (i < ringNext' => i < ringNext) /\ (i >= ringNext' => i >= ringNext)
            /\ total' - ringNext' = total - ringNext
        BY <1>1, <1>2, <1>6, <2>1, <3>2
      <4>2. /\ i < ringNext => ring[i] \in LogRecord /\ ring[i].n = total - ringNext + 1 + i
            /\ i >= ringNext /\ ringFull =>
                 ring[i] \in LogRecord /\ ring[i].n = total - ringNext + 1 + i - RingSize
            /\ i >= ringNext /\ ~ringFull => ring[i] = NoRecord
        BY DEF SlotsHold
      <4>3. QED
        BY <2>1, <4>1, <4>2
    <3>3. QED
      BY <3>1, <3>2
  <2>4. SlotsHold'
    BY <2>2, <2>3 DEF SlotsHold
  <2>5. QED
    BY <1>2, <1>7, <2>4
<1>10. QED
  BY <1>8, <1>9

\* What the ring holds, oldest first: the last Len(Buffered) records in their order.
LEMMA BufferedInOrder ==
  ASSUME TrafficTyped, SlotsHold
  PROVE  /\ Buffered \in Seq(LogRecord) /\ Len(Buffered) = IF ringFull THEN RingSize ELSE total
         /\ \A k \in 1..Len(Buffered) : Buffered[k].n = total - Len(Buffered) + k
<1>1. /\ ringNext \in 0..RingSize - 1 /\ ringFull \in BOOLEAN /\ total \in Nat
      /\ RingSize \in Nat \ {0}
  BY TrafficAssumption DEF TrafficTyped, TrafficTypeOK
<1> DEFINE new == [k \in 1..(ringNext - 0) |-> ring[0 + k - 1]]
           old == [k \in 1..(RingSize - ringNext) |-> ring[ringNext + k - 1]]
<1>2. new \in Seq(LogRecord) /\ Len(new) = ringNext
      /\ \A k \in 1..ringNext : new[k].n = total - ringNext + k
  <2>1. ASSUME NEW k \in 1..ringNext
        PROVE  ring[0 + k - 1] \in LogRecord /\ ring[0 + k - 1].n = total - ringNext + k
    <3>1. k - 1 \in 0..RingSize - 1 /\ k - 1 < ringNext /\ 0 + k - 1 = k - 1
      BY <1>1
    <3>2. ring[k - 1] \in LogRecord /\ ring[k - 1].n = total - ringNext + 1 + (k - 1)
      BY <3>1 DEF SlotsHold
    <3>3. QED
      BY <1>1, <3>1, <3>2
  <2>2. ringNext - 0 = ringNext /\ ringNext \in Nat
    BY <1>1
  <2>3. QED
    BY <2>1, <2>2
<1>3. CASE ~ringFull
  <2>1. Buffered = new /\ total = ringNext
    BY <1>3 DEF Buffered, SlotsHold
  <2>2. QED
    BY <1>1, <1>2, <1>3, <2>1
<1>4. CASE ringFull
  <2>1. Buffered = old \o new
    BY <1>4 DEF Buffered
  <2>2. old \in Seq(LogRecord) /\ Len(old) = RingSize - ringNext
        /\ \A k \in 1..RingSize - ringNext : old[k].n = total - RingSize + k
    <3>1. ASSUME NEW k \in 1..RingSize - ringNext
          PROVE  ring[ringNext + k - 1] \in LogRecord
                 /\ ring[ringNext + k - 1].n = total - RingSize + k
      <4>1. ringNext + k - 1 \in 0..RingSize - 1 /\ ringNext + k - 1 >= ringNext
        BY <1>1
      <4>2. /\ ring[ringNext + k - 1] \in LogRecord
            /\ ring[ringNext + k - 1].n = total - ringNext + 1 + (ringNext + k - 1) - RingSize
        BY <1>4, <4>1 DEF SlotsHold
      <4>3. QED
        BY <1>1, <4>2
    <3>2. RingSize - ringNext \in Nat
      BY <1>1
    <3>3. QED
      BY <3>1, <3>2
  <2> HIDE DEF new, old
  <2>3. Buffered \in Seq(LogRecord) /\ Len(Buffered) = RingSize
    <3>1. new \in Seq(LogRecord) /\ old \in Seq(LogRecord)
      BY <1>2, <2>2
    <3>2. old \o new \in Seq(LogRecord) /\ Len(old \o new) = Len(old) + Len(new)
      BY <3>1, ConcatProperties
    <3>3. QED
      BY <1>1, <1>2, <2>1, <2>2, <3>2
  <2>4. ASSUME NEW k \in 1..RingSize PROVE Buffered[k].n = total - RingSize + k
    <3>1. CASE k <= RingSize - ringNext
      BY <1>1, <1>2, <2>1, <2>2, <3>1
    <3>2. CASE k > RingSize - ringNext
      <4>0. /\ k - (RingSize - ringNext) \in 1..ringNext
            /\ ~(k <= Len(old)) /\ k \in 1..Len(old) + Len(new)
        BY <1>1, <1>2, <2>2, <3>2
      <4>1. Buffered[k] = new[k - (RingSize - ringNext)] /\ k - (RingSize - ringNext) \in 1..ringNext
        BY <1>2, <2>1, <2>2, <4>0, ConcatProperties
      <4>2. new[k - (RingSize - ringNext)].n = total - ringNext + (k - (RingSize - ringNext))
        BY <1>2, <4>1
      <4>3. QED
        BY <1>1, <4>1, <4>2
    <3>3. QED
      BY <1>1, <3>1, <3>2
  <2>5. QED
    BY <1>4, <2>3, <2>4
<1>5. QED
  BY <1>3, <1>4

\* The last count of them.
LEMMA LastInOrder ==
  ASSUME TrafficTyped, SlotsHold, NEW count \in 1..total
  PROVE  LET recs == LastOf(Buffered, count)
         IN  /\ recs \in Seq(LogRecord) /\ Len(recs) <= count
             /\ Len(recs) = count \/ Len(recs) = Len(Buffered)
             /\ \A k \in 1..Len(recs) : recs[k].n = total - Len(recs) + k
<1> DEFINE buf == Buffered
           len == Len(buf)
           recs == LastOf(buf, count)
<1>1. buf \in Seq(LogRecord) /\ len \in Nat /\ \A k \in 1..len : buf[k].n = total - len + k
  BY BufferedInOrder
<1>2. total \in Nat /\ count \in Nat
  BY DEF TrafficTyped, TrafficTypeOK
<1> HIDE DEF buf
<1>3. CASE count < len
  <2>1. LastOf(buf, count) = SubSeq(buf, len - count + 1, len)
    BY <1>3 DEF LastOf
  <2>2. len - count + 1 \in 1..len /\ len - (len - count + 1) + 1 = count
    BY <1>1, <1>2, <1>3
  <2>3. /\ SubSeq(buf, len - count + 1, len) \in Seq(LogRecord)
        /\ Len(SubSeq(buf, len - count + 1, len)) = count
        /\ \A k \in 1..count : SubSeq(buf, len - count + 1, len)[k] = buf[len - count + k]
    BY <1>1, <1>2, <2>2
  <2>4. \A k \in 1..count : buf[len - count + k].n = total - count + k
    <3>1. \A k \in 1..count : len - count + k \in 1..len
      BY <1>1, <1>2, <1>3
    <3>2. \A k \in 1..count : buf[len - count + k].n = total - len + (len - count + k)
      BY <1>1, <3>1
    <3>3. QED
      BY <1>1, <1>2, <3>2
  <2>5. \A k \in 1..count : recs[k].n = total - count + k
    BY <2>1, <2>3, <2>4
  <2>6. recs \in Seq(LogRecord) /\ Len(recs) = count
    BY <2>1, <2>3
  <2> HIDE DEF recs
  <2>7. QED
    BY <1>2, <2>5, <2>6 DEF buf, recs
<1>4. CASE ~(count < len)
  <2>1. LastOf(buf, count) = buf
    BY <1>4 DEF LastOf
  <2>2. QED
    BY <1>1, <1>2, <1>4, <2>1 DEF buf
<1>5. QED
  BY <1>3, <1>4

-----------------------------------------------------------------------------
(* The event stream.                                                        *)

\* What an open stream has sent, and which records it has already lost for its next turn:
\* those that are no longer among the last RingSize.
StreamSent(str, lost) ==
  /\ str.start <= str.seq
  /\ \A j, k \in DOMAIN str.got : j < k => str.got[j] < str.got[k]
  /\ {str.got[k] : k \in DOMAIN str.got} = {n \in str.start + 1..str.seq : n \notin lost}

StreamLost(str, count, lost) ==
  /\ str.seq <= count
  /\ \A n \in str.seq + 1..count : n \in lost <=> n <= count - RingSize

StreamInv ==
  /\ TrafficTyped /\ SlotsHold
  /\ overwrote \subseteq 1..total
  /\ stream.open => StreamSent(stream, overwrote) /\ StreamLost(stream, total, overwrote)

LEMMA StreamInvTypes ==
  ASSUME StreamInv
  PROVE  /\ TrafficTyped /\ SlotsHold /\ total \in 0..LogMax /\ total \in Nat
         /\ RingSize \in Nat \ {0} /\ LogMax \in Nat /\ recOpts \in RecOptions
         /\ scopeLive \in BOOLEAN /\ stream \in StreamRec
         /\ stream.open => /\ stream.start \in Nat /\ stream.seq \in Nat /\ stream.seq <= total
                           /\ stream.got \in Seq(1..LogMax)
<1>1. TrafficTyped /\ SlotsHold /\ stream \in StreamRec
  BY DEF StreamInv, TrafficTyped
<1>2. /\ total \in 0..LogMax /\ recOpts \in RecOptions /\ scopeLive \in BOOLEAN
      /\ RingSize \in Nat \ {0} /\ LogMax \in Nat
  BY <1>1, TrafficAssumption DEF TrafficTyped, TrafficTypeOK
<1>3. total \in Nat
  BY <1>2
<1>4. stream.open => stream.seq <= total
  BY DEF StreamInv, StreamLost
<1>5. QED
  BY <1>1, <1>2, <1>3, <1>4, StreamKinds

\* The record that Log overwrites is lost to an open stream that has not sent it.
LEMMA LogLoses ==
  ASSUME StreamInv, NEW scoped \in BOOLEAN, LogRequest(scoped)
  PROVE  StreamInv'
<1>1. /\ SlotsHold' /\ ring' \in [0..RingSize - 1 -> LogRecord \cup {NoRecord}]
      /\ ringNext' \in 0..RingSize - 1 /\ ringFull' \in BOOLEAN /\ total' \in 0..LogMax
      /\ total' = total + 1
  BY LogHolds DEF StreamInv
<1> DEFINE old == ring[ringNext]
<1>2. /\ UNCHANGED <<recOpts, scopeLive, shown, stream>>
      /\ overwrote' = IF stream.open /\ old # NoRecord /\ old.n > stream.seq
                      THEN overwrote \cup {old.n} ELSE overwrote
  BY DEF LogRequest
<1>3. /\ total \in Nat /\ RingSize \in Nat \ {0} /\ ringNext \in 0..RingSize - 1
      /\ ringFull \in BOOLEAN /\ LogMax \in Nat
  BY StreamInvTypes DEF TrafficTyped, TrafficTypeOK
<1>4. IF ringFull THEN old # NoRecord /\ old.n = total + 1 - RingSize /\ old.n \in 1..total
      ELSE old = NoRecord /\ total + 1 <= RingSize
  <2>1. CASE ringFull
    <3>1. old \in LogRecord /\ old.n = total - ringNext + 1 + ringNext - RingSize
      BY <1>3, <2>1 DEF StreamInv, SlotsHold
    <3>2. old # NoRecord /\ old.n \in 1..LogMax
      BY <3>1, NoRecordAssumption DEF LogRecord
    <3>3. QED
      BY <1>3, <2>1, <3>1, <3>2
  <2>2. CASE ~ringFull
    BY <1>3, <2>2 DEF StreamInv, SlotsHold
  <2>3. QED
    BY <2>1, <2>2
<1> HIDE DEF old
<1>5. overwrote' \subseteq 1..total'
  <2>1. overwrote \subseteq 1..total /\ 1..total \subseteq 1..total'
    BY <1>1, <1>3 DEF StreamInv
  <2>2. CASE overwrote' = overwrote
    BY <2>1, <2>2
  <2>3. CASE overwrote' # overwrote
    <3>1. overwrote' = overwrote \cup {old.n} /\ old # NoRecord
      BY <1>2, <2>3
    <3>2. old.n \in 1..total
      BY <1>3, <1>4, <3>1
    <3>3. QED
      BY <2>1, <3>1, <3>2
  <2>4. QED
    BY <2>2, <2>3
<1>6. TrafficTyped'
  <2>1. overwrote' \subseteq 1..LogMax
    BY <1>1, <1>3, <1>5
  <2>2. QED
    BY <1>1, <1>2, <2>1 DEF StreamInv, TrafficTyped, TrafficTypeOK
<1>7. ASSUME stream.open
      PROVE  StreamSent(stream, overwrote') /\ StreamLost(stream, total', overwrote')
  <2>1. /\ stream.seq \in Nat /\ stream.seq <= total /\ stream.start \in Nat
        /\ StreamSent(stream, overwrote) /\ StreamLost(stream, total, overwrote)
        /\ overwrote \subseteq 1..total
    BY <1>7, StreamInvTypes DEF StreamInv
  <2>2. \A n \in stream.start + 1..stream.seq : n \in overwrote' <=> n \in overwrote
    BY <1>2, <1>3, <1>4, <2>1
  <2>3. StreamSent(stream, overwrote')
    BY <2>1, <2>2 DEF StreamSent
  <2>4. ASSUME NEW n \in stream.seq + 1..total'
        PROVE  n \in overwrote' <=> n <= total' - RingSize
    <3>1. n \in Nat /\ n > stream.seq /\ (n <= total => (n \in overwrote <=> n <= total - RingSize))
          /\ (n > total => n = total + 1 /\ n \notin overwrote)
      BY <1>1, <1>3, <2>1 DEF StreamLost
    <3>2. CASE ringFull
      <4>1. n \in overwrote' <=> n \in overwrote \/ n = total + 1 - RingSize
        <5>1. old # NoRecord /\ old.n = total + 1 - RingSize
          BY <1>4, <3>2
        <5>2. overwrote' = IF total + 1 - RingSize > stream.seq
                           THEN overwrote \cup {total + 1 - RingSize} ELSE overwrote
          BY <1>2, <1>7, <5>1
        <5>3. QED
          BY <1>3, <2>1, <3>1, <5>2
      <4>2. QED
        BY <1>1, <1>3, <3>1, <4>1
    <3>3. CASE ~ringFull
      <4>1. overwrote' = overwrote /\ total + 1 <= RingSize
        BY <1>2, <1>4, <3>3
      <4>2. n > 0 /\ ~(n <= total' - RingSize) /\ ~(n <= total - RingSize)
        BY <1>1, <1>3, <2>1, <3>1, <4>1
      <4>3. QED
        BY <1>3, <3>1, <4>1, <4>2
    <3>4. QED
      BY <1>3, <3>2, <3>3
  <2>5. QED
    BY <1>1, <1>3, <2>1, <2>3, <2>4 DEF StreamLost
<1>8. QED
  BY <1>1, <1>2, <1>5, <1>6, <1>7 DEF StreamInv

\* Each turn of the stream sends the records since its cursor that the ring still holds.
LEMMA TickSends ==
  ASSUME StreamInv, StreamTick
  PROVE  StreamInv'
<1> DEFINE recs == LastOf(Buffered, total - stream.seq)
           nums == [k \in DOMAIN recs |-> recs[k].n]
<1>1. /\ stream.open /\ stream.seq < total /\ Shows(recs)
      /\ stream' = [stream EXCEPT !.seq = total, !.got = @ \o nums]
      /\ UNCHANGED <<ring, ringNext, ringFull, total, recOpts, scopeLive, overwrote>>
  BY DEF StreamTick
<1>2. /\ TrafficTyped /\ SlotsHold /\ total \in 0..LogMax /\ total \in Nat
      /\ RingSize \in Nat \ {0} /\ LogMax \in Nat /\ recOpts \in RecOptions /\ scopeLive \in BOOLEAN
      /\ stream.start \in Nat /\ stream.seq \in Nat /\ stream.got \in Seq(1..LogMax)
      /\ stream \in [open : {TRUE}, start : 0..LogMax, seq : 0..LogMax, got : Seq(1..LogMax)]
  BY <1>1, StreamInvTypes, StreamKinds
<1>3. total - stream.seq \in 1..total
  BY <1>1, <1>2
<1>4. /\ recs \in Seq(LogRecord) /\ Len(recs) <= total - stream.seq
      /\ Len(recs) = total - stream.seq \/ Len(recs) = Len(Buffered)
      /\ \A k \in 1..Len(recs) : recs[k].n = total - Len(recs) + k
  BY <1>2, <1>3, LastInOrder
<1> DEFINE len == Len(recs)
<1> HIDE DEF recs
<1>5. len \in Nat /\ len <= total - stream.seq /\ DOMAIN recs = 1..len
  BY <1>4
<1>6. nums \in Seq(1..LogMax) /\ Len(nums) = len /\ \A k \in 1..len : nums[k] = total - len + k
  <2>1. \A k \in 1..len : recs[k].n = total - len + k /\ total - len + k \in 1..LogMax
    BY <1>2, <1>4, <1>5
  <2>2. nums = [k \in 1..len |-> recs[k].n] /\ len \in Nat
    BY <1>5
  <2>3. \A k \in 1..len : recs[k].n \in 1..LogMax
    BY <2>1
  <2> HIDE DEF len
  <2>4. nums \in Seq(1..LogMax) /\ Len(nums) = len
    BY <2>2, <2>3
  <2>5. QED
    BY <2>1, <2>2, <2>4
<1>7. len = total - stream.seq \/ (len = RingSize /\ ringFull)
  <2>1. Len(Buffered) = IF ringFull THEN RingSize ELSE total
    BY <1>2, BufferedInOrder
  <2>2. CASE Len(recs) = Len(Buffered) /\ ~ringFull
    <3>1. len = total /\ len <= total - stream.seq
      BY <1>5, <2>1, <2>2
    <3>2. QED
      BY <1>2, <3>1
  <2>3. QED
    BY <1>4, <2>1, <2>2
<1> HIDE DEF nums, len
<1> DEFINE received == stream.got \o nums
           last == Len(stream.got)
<1>8. /\ stream'.open /\ stream'.start = stream.start /\ stream'.seq = total /\ stream'.got = received
      /\ stream' \in StreamRec
  <2>1. received \in Seq(1..LogMax)
    BY <1>2, <1>6
  <2>2. stream' = [open |-> TRUE, start |-> stream.start, seq |-> total, got |-> received]
    BY <1>1, <1>2
  <2>3. QED
    BY <1>2, <2>1, <2>2 DEF StreamRec
<1>9. /\ last \in Nat /\ Len(received) = last + len /\ DOMAIN received = 1..last + len
      /\ \A k \in 1..last : received[k] = stream.got[k]
      /\ \A k \in last + 1..last + len : received[k] = total - len + (k - last)
  <2>1. stream.got \in Seq(1..LogMax) /\ nums \in Seq(1..LogMax) /\ Len(nums) = len
    BY <1>2, <1>6
  <2>2. /\ last \in Nat /\ Len(received) = last + len /\ DOMAIN received = 1..last + len
        /\ \A k \in 1..last : received[k] = stream.got[k]
        /\ \A k \in last + 1..last + len : received[k] = nums[k - last]
    BY <1>5, <2>1
  <2>3. \A k \in last + 1..last + len : nums[k - last] = total - len + (k - last)
    BY <1>5, <1>6, <2>2
  <2>4. QED
    BY <2>2, <2>3
<1> HIDE DEF received, last
<1>10. /\ \A j, k \in 1..last : j < k => received[j] < received[k]
       /\ {received[k] : k \in 1..last} = {n \in stream.start + 1..stream.seq : n \notin overwrote}
       /\ stream.start <= stream.seq
  <2>1. DOMAIN stream.got = 1..last
    BY <1>2 DEF last
  <2>2. StreamSent(stream, overwrote)
    BY <1>1 DEF StreamInv
  <2>3. QED
    BY <1>9, <2>1, <2>2 DEF StreamSent
<1>11. \A k \in 1..last : received[k] \in Nat /\ received[k] <= stream.seq
  <2>1. \A k \in 1..last : received[k] \in stream.start + 1..stream.seq
    BY <1>10
  <2>2. QED
    BY <1>2, <2>1
<1>12. \A k \in last + 1..last + len : received[k] \in Nat /\ received[k] > stream.seq
  BY <1>2, <1>5, <1>9
<1>13. ASSUME NEW j \in DOMAIN received, NEW k \in DOMAIN received, j < k PROVE received[j] < received[k]
  <2>1. j \in 1..last + len /\ k \in 1..last + len
    BY <1>9
  <2>2. CASE k <= last
    BY <1>9, <1>10, <1>13, <2>1, <2>2
  <2>3. CASE j <= last /\ k > last
    <3>1. j \in 1..last /\ k \in last + 1..last + len
      BY <1>5, <1>9, <2>1, <2>3
    <3>2. QED
      BY <1>2, <1>11, <1>12, <3>1
  <2>4. CASE j > last
    <3>1. j \in last + 1..last + len /\ k \in last + 1..last + len
      BY <1>5, <1>9, <1>13, <2>1, <2>4
    <3>2. QED
      BY <1>2, <1>5, <1>9, <1>13, <3>1
  <2>5. QED
    BY <1>5, <1>9, <2>1, <2>2, <2>3, <2>4
<1>14. ASSUME NEW n \in stream.seq + 1..total
       PROVE  n \notin overwrote <=> \E k \in last + 1..last + len : received[k] = n
  <2>1. n \in Nat /\ (n \in overwrote <=> n <= total - RingSize)
    BY <1>1, <1>2 DEF StreamInv, StreamLost
  <2>2. n > total - len => \E k \in last + 1..last + len : received[k] = n
    <3>1. SUFFICES ASSUME n > total - len PROVE \E k \in last + 1..last + len : received[k] = n
      OBVIOUS
    <3>2. last + (n - (total - len)) \in last + 1..last + len
      BY <1>2, <1>5, <1>9, <2>1, <3>1
    <3>3. received[last + (n - (total - len))] = n
      BY <1>2, <1>5, <1>9, <2>1, <3>2
    <3>4. QED
      BY <3>2, <3>3
  <2>3. (\E k \in last + 1..last + len : received[k] = n) => n > total - len
    BY <1>2, <1>5, <1>9
  <2>4. n > total - len <=> n > total - RingSize
    <3>1. CASE len = RingSize
      BY <3>1
    <3>2. CASE len = total - stream.seq /\ len # RingSize
      <4>1. len <= RingSize
        <5>1. Len(Buffered) = IF ringFull THEN RingSize ELSE total
          BY <1>2, BufferedInOrder
        <5>2. len <= Len(Buffered)
          BY <1>2, <1>4 DEF len, recs, LastOf
        <5>3. ~ringFull => total <= RingSize
          BY <1>2 DEF SlotsHold, TrafficTyped, TrafficTypeOK
        <5>4. QED
          BY <1>2, <1>5, <5>1, <5>2, <5>3
      <4>2. n > total - len
        BY <1>2, <2>1, <3>2
      <4>3. QED
        BY <1>2, <1>5, <2>1, <4>1, <4>2
    <3>3. QED
      BY <1>7, <3>1, <3>2
  <2>5. QED
    BY <1>2, <2>1, <2>2, <2>3, <2>4
<1>15. {received[k] : k \in DOMAIN received} = {n \in stream.start + 1..total : n \notin overwrote}
  <2>1. ASSUME NEW k \in DOMAIN received
        PROVE  received[k] \in stream.start + 1..total /\ received[k] \notin overwrote
    <3>1. CASE k \in 1..last
      <4>1. received[k] \in stream.start + 1..stream.seq /\ received[k] \notin overwrote
        BY <1>10, <3>1
      <4>2. QED
        BY <1>1, <1>2, <4>1
    <3>2. CASE k \in last + 1..last + len
      <4>1. received[k] \in stream.seq + 1..total
        BY <1>2, <1>5, <1>9, <1>12, <3>2
      <4>2. received[k] \in stream.start + 1..total
        BY <1>2, <1>10, <4>1
      <4>3. QED
        BY <1>14, <3>2, <4>1, <4>2
    <3>3. QED
      BY <1>5, <1>9, <3>1, <3>2
  <2>2. ASSUME NEW n \in stream.start + 1..total, n \notin overwrote
        PROVE  \E k \in DOMAIN received : received[k] = n
    <3>1. CASE n <= stream.seq
      <4>1. n \in {received[k] : k \in 1..last}
        BY <1>2, <1>10, <2>2, <3>1
      <4>2. 1..last \subseteq DOMAIN received
        BY <1>5, <1>9
      <4>3. QED
        BY <4>1, <4>2
    <3>2. CASE n > stream.seq
      <4>1. n \in stream.seq + 1..total
        BY <1>2, <3>2
      <4>2. PICK k \in last + 1..last + len : received[k] = n
        BY <1>14, <2>2, <4>1
      <4>3. k \in DOMAIN received
        BY <1>5, <1>9
      <4>4. QED
        BY <4>2, <4>3
    <3>3. QED
      BY <1>2, <3>1, <3>2
  <2>3. QED
    BY <2>1, <2>2
<1>16. StreamSent(stream', overwrote) /\ StreamLost(stream', total, overwrote)
  <2> DEFINE new == stream'
  <2>1. new.start = stream.start /\ new.seq = total /\ new.got = received
    BY <1>8
  <2> HIDE DEF new
  <2>2. new.start <= new.seq
    BY <1>1, <1>2, <1>10, <2>1
  <2>3. \A n \in new.seq + 1..total : n \in overwrote <=> n <= total - RingSize
    BY <1>2, <2>1
  <2>4. StreamSent(new, overwrote)
    BY <1>13, <1>15, <2>1, <2>2 DEF StreamSent
  <2>5. StreamLost(new, total, overwrote)
    BY <1>2, <2>1, <2>3 DEF StreamLost
  <2>6. QED
    BY <2>4, <2>5 DEF new
<1>17. shown' \in ShownRec
  BY <1>1, <1>2, <1>4, ShownType
<1>18. TrafficTyped'
  <2>1. shown'.recs \in Seq(LogRecord) /\ shown'.opts \in RecOptions /\ shown'.live \in BOOLEAN
    BY <1>17 DEF ShownRec
  <2>2. /\ stream'.start \in 0..LogMax /\ stream'.seq \in 0..LogMax
        /\ stream'.got \in Seq(1..LogMax)
    BY <1>8, StreamKinds
  <2>3. QED
    BY <1>1, <1>8, <1>17, <2>1, <2>2 DEF StreamInv, TrafficTyped, TrafficTypeOK
<1>19. SlotsHold' /\ overwrote' \subseteq 1..total'
  BY <1>1 DEF StreamInv, SlotsHold
<1>20. StreamSent(stream', overwrote') /\ StreamLost(stream', total', overwrote')
  BY <1>1, <1>16
<1>21. StreamSent(stream, overwrote)' /\ StreamLost(stream, total, overwrote)'
  BY <1>20 DEF StreamSent, StreamLost
<1>22. QED
  BY <1>18, <1>19, <1>21 DEF StreamInv

LEMMA TrafficInitInv == TrafficInit => StreamInv
<1> SUFFICES ASSUME TrafficInit PROVE StreamInv
  OBVIOUS
<1>1. RingSize \in Nat \ {0} /\ LogMax \in Nat
  BY TrafficAssumption
<1>2. shown.recs = <<>> /\ <<>> \in Seq(LogRecord)
  BY DEF TrafficInit
<1>3. shown \in ShownRec
  BY <1>2 DEF TrafficInit, ShownRec
<1>4. stream \in StreamRec /\ ~stream.open
  BY DEF TrafficInit, StreamRec, StreamClosed
<1>5. TrafficTyped
  BY <1>1, <1>2, <1>3, <1>4 DEF TrafficInit, TrafficTyped, TrafficTypeOK
<1>6. SlotsHold
  BY <1>1 DEF TrafficInit, SlotsHold
<1>7. QED
  BY <1>4, <1>5, <1>6 DEF TrafficInit, StreamInv

\* The steps that leave the ring, the stream and what it has lost alone.
LEMMA OthersKeep ==
  ASSUME StreamInv, UNCHANGED <<ring, ringNext, ringFull, total, stream, overwrote>>,
         recOpts' \in RecOptions, scopeLive' \in BOOLEAN, shown' \in ShownRec
  PROVE  StreamInv'
<1>1. TrafficTyped'
  BY DEF StreamInv, TrafficTyped, TrafficTypeOK, ShownRec
<1>2. SlotsHold'
  BY DEF StreamInv, SlotsHold
<1>3. QED
  BY <1>1, <1>2 DEF StreamInv, StreamSent, StreamLost

\* A stream that opens or ends: there is nothing that it has sent or lost.
LEMMA StreamOpensAndEnds ==
  ASSUME StreamInv, StreamStart \/ StreamEnds
  PROVE  StreamInv'
<1>1. /\ UNCHANGED <<ring, ringNext, ringFull, total, recOpts, scopeLive, shown>>
      /\ overwrote' = {}
  BY DEF StreamStart, StreamEnds
<1>2. SlotsHold'
  BY <1>1 DEF StreamInv, SlotsHold
<1>3. total \in 0..LogMax /\ total \in Nat /\ RingSize \in Nat \ {0}
  BY StreamInvTypes
<1>4. CASE StreamStart
  <2> DEFINE new == [open |-> TRUE, start |-> total, seq |-> total, got |-> <<>>]
  <2>1. stream' = new
    BY <1>4 DEF StreamStart
  <2>2. new \in StreamRec
    BY <1>3 DEF StreamRec
  <2>3. /\ new.start = total /\ new.seq = total /\ new.got = <<>> /\ DOMAIN new.got = {}
        /\ new.got \in Seq(1..LogMax)
    OBVIOUS
  <2> HIDE DEF new
  <2>4. TrafficTyped'
    BY <1>1, <1>3, <2>1, <2>2, <2>3 DEF StreamInv, TrafficTyped, TrafficTypeOK
  <2>5. StreamSent(new, {}) /\ StreamLost(new, total, {})
    BY <1>3, <2>3 DEF StreamSent, StreamLost
  <2>6. StreamSent(stream', overwrote') /\ StreamLost(stream', total', overwrote')
    BY <1>1, <2>1, <2>5
  <2>7. StreamSent(stream, overwrote)' /\ StreamLost(stream, total, overwrote)'
    BY <2>6 DEF StreamSent, StreamLost
  <2>8. QED
    BY <1>1, <1>2, <2>4, <2>7 DEF StreamInv
<1>5. CASE StreamEnds
  <2>1. stream' = StreamClosed /\ stream' \in StreamRec /\ ~stream'.open
    BY <1>5 DEF StreamEnds, StreamRec, StreamClosed
  <2>2. TrafficTyped'
    BY <1>1, <2>1 DEF StreamInv, TrafficTyped, TrafficTypeOK
  <2>3. QED
    BY <1>1, <1>2, <2>1, <2>2 DEF StreamInv
<1>6. QED
  BY <1>4, <1>5

LEMMA TrafficNextInv ==
  ASSUME StreamInv, [TrafficNext]_trafficVars
  PROVE  StreamInv'
<1>1. /\ recOpts \in RecOptions /\ scopeLive \in BOOLEAN /\ shown \in ShownRec
      /\ TrafficTyped /\ SlotsHold
  BY StreamInvTypes DEF TrafficTyped
<1>2. CASE UNCHANGED trafficVars
  BY <1>1, <1>2, OthersKeep DEF trafficVars
<1>3. ASSUME NEW opts \in RecOptions, SetOptions(opts) PROVE StreamInv'
  BY <1>1, <1>3, OthersKeep DEF SetOptions
<1>4. CASE ScopeExpires
  BY <1>1, <1>4, OthersKeep DEF ScopeExpires
<1>5. CASE Snapshot
  <2>1. Buffered \in Seq(LogRecord)
    BY <1>1, BufferedInOrder
  <2>2. shown' \in ShownRec
    BY <1>1, <1>5, <2>1, ShownType DEF Snapshot
  <2>3. QED
    BY <1>1, <1>5, <2>2, OthersKeep DEF Snapshot
<1>6. QED
  BY <1>2, <1>3, <1>4, <1>5, LogLoses, TickSends, StreamOpensAndEnds DEF TrafficNext

\* The ring, the options, the last view and the stream have the values that the recorder
\* gives them.
THEOREM TrafficTypes == TrafficSpec => []TrafficTypeOK
<1>1. StreamInv => TrafficTypeOK
  BY DEF StreamInv, TrafficTyped
<1>2. StreamInv /\ [TrafficNext]_trafficVars => StreamInv'
  BY TrafficNextInv
<1>3. QED
  BY <1>1, <1>2, TrafficInitInv, PTL DEF TrafficSpec

\* handleTrafficStream sends every record logged since it was opened once and in order,
\* but those that the ring overwrote between two of its turns, whatever the size of the
\* ring and however often it wraps: the ring holds the last records in their order, and
\* the cursor is a number of the records logged and not a place in the ring.
THEOREM StreamIsExact == TrafficSpec => []StreamExact
<1>1. StreamInv => StreamExact
  BY DEF StreamInv, StreamExact, StreamSent
<1>2. StreamInv /\ [TrafficNext]_trafficVars => StreamInv'
  BY TrafficNextInv
<1>3. QED
  BY <1>1, <1>2, TrafficInitInv, PTL DEF TrafficSpec

\* A reader sees each record through the policy of the options it is read under.
LEMMA ShowsRedacted ==
  ASSUME recOpts \in RecOptions, NEW recs \in Seq(LogRecord), Shows(recs)
  PROVE  ViewsRedacted'
<1>1. /\ shown'.recs = ShownRecs(recs) /\ shown'.opts = recOpts /\ shown'.live = scopeLive
  BY DEF Shows
<1>2. DOMAIN recs = 1..Len(recs) /\ \A k \in DOMAIN recs : recs[k] \in LogRecord
  OBVIOUS
<1>3. CASE recOpts.redact \/ recOpts.mode \in {"stats", "off"}
  <2>1. shown'.recs = [k \in DOMAIN recs |-> applyPolicy(recs[k])]
    BY <1>1, <1>3 DEF ShownRecs
  <2>2. ASSUME NEW k \in DOMAIN recs
        PROVE  LET rec == applyPolicy(recs[k])
               IN  /\ recOpts.mode \in {"off", "stats"} => rec.path = "none"
                   /\ recOpts.redact /\ rec.path = "raw" =>
                        recOpts.mode = "full" \/ (recOpts.mode = "debug" /\ scopeLive /\ rec.scoped)
    BY <1>2, PolicyApplies
  <2>3. QED
    BY <1>1, <2>1, <2>2 DEF ViewsRedacted
<1>4. CASE ~(recOpts.redact \/ recOpts.mode \in {"stats", "off"})
  BY <1>1, <1>4 DEF ViewsRedacted
<1>5. QED
  BY <1>3, <1>4

\* The traffic page and the stream never show more of a record than the options of the
\* moment allow: a record logged before a reload tightened them has the policy applied to
\* it once more when it is read.
THEOREM ViewsAreRedacted == TrafficSpec => []ViewsRedacted
<1> DEFINE ViewInv == StreamInv /\ ViewsRedacted
<1>1. TrafficInit => ViewInv
  BY TrafficInitInv DEF TrafficInit, ViewsRedacted
<1>2. ViewInv /\ [TrafficNext]_trafficVars => ViewInv'
  <2> SUFFICES ASSUME ViewInv, [TrafficNext]_trafficVars PROVE ViewInv'
    OBVIOUS
  <2>1. StreamInv'
    BY TrafficNextInv
  <2>2. recOpts \in RecOptions /\ TrafficTyped /\ SlotsHold
    BY StreamInvTypes
  <2>3. ASSUME UNCHANGED shown PROVE ViewsRedacted'
    BY <2>3 DEF ViewsRedacted
  <2>4. CASE Snapshot
    <3>1. Buffered \in Seq(LogRecord)
      BY <2>2, BufferedInOrder
    <3>2. ViewsRedacted'
      BY <2>2, <2>4, <3>1, ShowsRedacted DEF Snapshot
    <3>3. QED
      BY <2>1, <3>2
  <2>5. CASE StreamTick
    <3>1. total - stream.seq \in 1..total
      BY <2>5, StreamInvTypes DEF StreamTick
    <3>2. LastOf(Buffered, total - stream.seq) \in Seq(LogRecord)
      BY <2>2, <3>1, LastInOrder
    <3>3. ViewsRedacted'
      BY <2>2, <2>5, <3>2, ShowsRedacted DEF StreamTick
    <3>4. QED
      BY <2>1, <3>3
  <2>6. QED
    BY <2>1, <2>3, <2>4, <2>5
    DEF TrafficNext, trafficVars, LogRequest, SetOptions, ScopeExpires, StreamStart, StreamEnds
<1>3. ViewInv => ViewsRedacted
  OBVIOUS
<1>4. QED
  BY <1>1, <1>2, <1>3, PTL DEF TrafficSpec

-----------------------------------------------------------------------------
(* The composition of the components around the request path.               *)

\* A step of the whole is a step of one component, which leaves the others alone.
LEMMA OneMoves ==
  ASSUME [MCNext]_mcVars
  PROVE  /\ [GuardNext]_guardVars
         /\ [AdminNext]_adminVars
         /\ [EndpointNext]_endpointVars
         /\ [FeedNext]_feedVars
         /\ [RegistrationNext]_registrationVars
         /\ [CatNext]_catVars
         /\ [PolicyNext]_policyVars
         /\ [ConfigNext]_configVars
         /\ [TrafficNext]_trafficVars
         /\ [UnmatchedNext]_unmatchedVars
         /\ [IssuerNext]_issuerVars
         /\ [PassNext]_passVars
         /\ [InitialNext]_initialVars
         /\ [Next]_vars
<1>1. CASE UNCHANGED mcVars
  BY <1>1 DEF mcVars
<1>2. CASE MCNext
  BY <1>2 DEF MCNext
<1>3. QED
  BY <1>1, <1>2

\* The composition implements the specification of each of its components, so that what is
\* proved of a component alone holds of it among the others.
THEOREM ComponentsImplemented ==
  MCSpec => /\ GuardSpec
            /\ AdminSpec
            /\ EndpointSpec
            /\ FeedSpec
            /\ RegistrationSpec
            /\ CatSpec
            /\ PolicySpec
            /\ ConfigSpec
            /\ TrafficSpec
            /\ UnmatchedSpec
            /\ IssuerSpec
            /\ PassSpec
            /\ InitialSpec
            /\ Spec
<1>1. MCInit => /\ GuardInit /\ AdminInit /\ EndpointInit /\ FeedInit /\ RegistrationInit
                /\ CatInit /\ PolicyInit /\ ConfigInit /\ TrafficInit /\ UnmatchedInit
                /\ IssuerInit /\ PassInit /\ InitialInit /\ Init
  BY DEF MCInit
<1>2. QED
  BY <1>1, OneMoves, PTL
  DEF MCSpec, GuardSpec, AdminSpec, EndpointSpec, FeedSpec, RegistrationSpec, CatSpec,
      PolicySpec, ConfigSpec, TrafficSpec, UnmatchedSpec, IssuerSpec, PassSpec, InitialSpec, Spec

\* In the composition every variable of every part always has the values that its module
\* declares for it.
THEOREM ControlPlaneTypes == MCSpec => []ControlPlaneTypeOK
<1>1. MCSpec => []GuardTypeOK /\ []AdminTypeOK /\ []EndpointTypeOK /\ []FeedTypeOK
  BY ComponentsImplemented, GuardTypes, AdminTypes, EndpointTypes, FeedTypes
<1>2. MCSpec => []RegistrationTypeOK /\ []CatTypeOK /\ []PolicyTypeOK /\ []ConfigTypeOK
  BY ComponentsImplemented, RegistrationTypes, CatalogTypes, PolicyTypes, ConfigTypes
<1>3. MCSpec => []TrafficTypeOK /\ []UnmatchedTypeOK /\ []IssuerTypeOK /\ []PassTypeOK
  BY ComponentsImplemented, TrafficTypes, UnmatchedTypes, IssuerTypes, PassTypes
<1>4. MCSpec => []InitialTypeOK /\ []TypeOK
  BY ComponentsImplemented, InitialTypes, StateFileTypes
<1>5. ( /\ GuardTypeOK /\ AdminTypeOK /\ EndpointTypeOK /\ FeedTypeOK
        /\ RegistrationTypeOK /\ CatTypeOK /\ PolicyTypeOK /\ ConfigTypeOK
        /\ TrafficTypeOK /\ UnmatchedTypeOK /\ IssuerTypeOK /\ PassTypeOK /\ InitialTypeOK
        /\ TypeOK )
      => ControlPlaneTypeOK
  BY Zenon DEF ControlPlaneTypeOK
<1>6. QED
  BY <1>1, <1>2, <1>3, <1>4, <1>5, PTL
=============================================================================
