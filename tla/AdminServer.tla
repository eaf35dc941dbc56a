------------------------------ MODULE AdminServer ------------------------------
(***************************************************************************)
(* The accounts and sessions of the admin server: login with a password or  *)
(* over OIDC, logout, password change, and the administrator's create,      *)
(* delete and password reset, each a request that is between two of its     *)
(* lock sections while others run.  Store mutates its memory first and then *)
(* saves (one atomic file replacement, see StateFile); a save can fail, and *)
(* every audit entry saves again.                                           *)
(*                                                                         *)
(* A password is right or wrong.  A session is ghost-marked: "revoked" when *)
(* the account it belongs to was deleted or had its password reset, so that *)
(* destroyUser owes its removal; "excused" when the code cannot know of it: *)
(* a login that had read the account before, a save that failed and ended   *)
(* the handler, a create that overwrote an account made meanwhile.          *)
(***************************************************************************)
EXTENDS AdminRoles, FiniteSets

CONSTANTS UserName,   \* account names
          RootName,   \* the name of the bootstrap account, "admin"
          GrantRole,  \* roles given to new accounts
          SSOName,    \* names in the identity provider's tokens
          GroupRole,  \* the configured roles of its groups
          SessionId,  \* bound on the sessions alive at a time
          Client      \* concurrent requests

ASSUME AdminAssumption ==
  /\ RootName \in UserName /\ SSOName \subseteq UserName /\ GrantRole \subseteq Role
  /\ \A g \in DOMAIN GroupRole : GroupRole[g] \in Role

VARIABLES users,    \* Store.data.Users: role and must-change flag by name
          saved,    \* the accounts in the store's file
          sessions, \* sessionManager.sessions
          req,      \* what each request is doing
          disowned  \* ghost: a delete or a create took effect against an actor or
                    \* an account that had changed since the handler looked

adminVars == <<users, saved, sessions, req, disowned>>

AccountRec == [role : Role, must : BOOLEAN]
SessionRec == [user : UserName, role : Role, local : BOOLEAN,
               mark : {"fresh", "revoked", "excused"}]
AdminIdle == [pc |-> "idle"]
RequestRec ==
  {AdminIdle} \cup [pc : {"audit"}]
  \cup [pc : {"login"}, user : UserName, role : Role, mark : {"fresh", "excused"}]
  \cup [pc : {"create"}, target : UserName, role : Role]
  \cup [pc : {"delete"}, target : UserName, actor : UserName, local : BOOLEAN]
  \cup [pc : {"reset", "destroy", "self"}, target : UserName]

AdminTypeOK ==
  /\ DOMAIN users \subseteq UserName /\ \A u \in DOMAIN users : users[u] \in AccountRec
  /\ DOMAIN saved \subseteq UserName /\ \A u \in DOMAIN saved : saved[u] \in AccountRec
  /\ DOMAIN sessions \subseteq SessionId
  /\ \A s \in DOMAIN sessions : sessions[s] \in SessionRec
  /\ req \in [Client -> RequestRec]
  /\ disowned \in BOOLEAN

-----------------------------------------------------------------------------
NoAccounts == [u \in {} |-> [role |-> "admin", must |-> TRUE]]
NoSessions == [s \in {} |-> [user |-> RootName, role |-> "admin", local |-> TRUE,
                             mark |-> "fresh"]]

With(f, x, v) == [y \in DOMAIN f \cup {x} |-> IF y = x THEN v ELSE f[y]]
Without(f, x) == [y \in DOMAIN f \ {x} |-> f[y]]

\* bootstrap: an empty store gets one administrator who must change the password.
Bootstrapped(accounts) ==
  IF DOMAIN accounts = {}
  THEN With(accounts, RootName, [role |-> "admin", must |-> TRUE])
  ELSE accounts

Reply(c) == req' = [req EXCEPT ![c] = AdminIdle]
Proceed(c, r) == req' = [req EXCEPT ![c] = r]

\* save: the file gets the accounts as they are in memory, or stays.
SaveOK == saved' = users'
SaveFails == UNCHANGED saved

\* The sessions and logins of an account that has changed under them.
MarkSessions(name, mark) ==
  sessions' = [s \in DOMAIN sessions |->
                 IF sessions[s].user = name THEN [sessions[s] EXCEPT !.mark = mark]
                 ELSE sessions[s]]

ExcuseFresh(name) ==
  sessions' = [s \in DOMAIN sessions |->
                 IF sessions[s].user = name /\ sessions[s].mark = "fresh"
                 THEN [sessions[s] EXCEPT !.mark = "excused"] ELSE sessions[s]]

ExcuseLogins(c, name, r) ==
  req' = [d \in Client |->
            IF d = c THEN r
            ELSE IF req[d].pc = "login" /\ req[d].user = name
                 THEN [req[d] EXCEPT !.mark = "excused"] ELSE req[d]]

\* mustChangeBlocked
MustChange(user) == user \in DOMAIN users /\ users[user].must

\* withAuth: a live session, and the capability; an account that must change its
\* password can only do that or log out.
Authorized(s, capability) ==
  /\ s \in DOMAIN sessions
  /\ ~MustChange(sessions[s].user)
  /\ Can(sessions[s].role, capability)

NewSession(s, user, role, local, mark) ==
  /\ s \notin DOMAIN sessions
  /\ sessions' = With(sessions, s, [user |-> user, role |-> role, local |-> local,
                                    mark |-> mark])

-----------------------------------------------------------------------------
(* handleLogin: the account is copied, the password verified, then a session *)
(* is made from the copy.                                                    *)
LoginRight(c, u) ==
  /\ req[c] = AdminIdle /\ u \in DOMAIN users
  /\ Proceed(c, [pc |-> "login", user |-> u, role |-> users[u].role, mark |-> "fresh"])
  /\ UNCHANGED <<users, saved, sessions, disowned>>

LoginSession(c, s) ==
  /\ req[c].pc = "login"
  /\ NewSession(s, req[c].user, req[c].role, TRUE, req[c].mark)
  /\ Proceed(c, [pc |-> "audit"])
  /\ UNCHANGED <<users, saved, disowned>>

(* handleOIDCCallback, after handleOIDCLogin has sent the browser away with its *)
(* cookies and kept nothing: the user need not have an account; the role comes  *)
(* from the groups, and without one the login is refused.                       *)
OIDCCallback(c, s, u, groups) ==
  /\ req[c] = AdminIdle
  /\ \E role \in MapGroupsToRole(groups, GroupRole) : NewSession(s, u, role, FALSE, "fresh")
  /\ Proceed(c, [pc |-> "audit"])
  /\ UNCHANGED <<users, saved, disowned>>

\* A wrong password, or OIDC groups that map to no role: only an audit entry.
LoginRefused(c) ==
  /\ req[c] = AdminIdle
  /\ Proceed(c, [pc |-> "audit"])
  /\ UNCHANGED <<users, saved, sessions, disowned>>

(* handleUserCreate: Get, then Upsert, which replaces an account of that name *)
(* created in between.                                                        *)
UserCreate(c, s, name, role) ==
  /\ req[c] = AdminIdle /\ Authorized(s, "users.manage")
  /\ name \notin DOMAIN users /\ role \in GrantRole
  /\ Proceed(c, [pc |-> "create", target |-> name, role |-> role])
  /\ UNCHANGED <<users, saved, sessions, disowned>>

Upsert(c) ==
  LET name == req[c].target
      replaces == name \in DOMAIN users
  IN  /\ req[c].pc = "create"
      /\ users' = With(users, name, [role |-> req[c].role, must |-> FALSE])
      /\ \/ SaveOK /\ ExcuseLogins(c, name, [pc |-> "audit"])
         \/ SaveFails /\ ExcuseLogins(c, name, AdminIdle)
      /\ disowned' = (disowned \/ replaces)
      /\ ExcuseFresh(name)

\* mutant: an administrator may delete its own account
UserDeleteSelf(c, s, name) ==
  /\ req[c] = AdminIdle /\ Authorized(s, "users.manage")
  /\ Proceed(c, [pc |-> "delete", target |-> name, actor |-> sessions[s].user,
                 local |-> sessions[s].local])
  /\ UNCHANGED <<users, saved, sessions, disowned>>

(* handleUserDelete *)
UserDelete(c, s, name) ==
  /\ req[c] = AdminIdle /\ Authorized(s, "users.manage")
  /\ name # sessions[s].user
  /\ Proceed(c, [pc |-> "delete", target |-> name, actor |-> sessions[s].user,
                 local |-> sessions[s].local])
  /\ UNCHANGED <<users, saved, sessions, disowned>>

\* The account of the request's actor is still an administrator's.
ActorIsAdmin(c) ==
  /\ req[c].local /\ req[c].actor \in DOMAIN users
  /\ users[req[c].actor].role = "admin"

Delete(c) ==
  LET name == req[c].target
  IN  /\ req[c].pc = "delete"
      /\ users' = Without(users, name)
      /\ \/ /\ SaveOK /\ MarkSessions(name, "revoked")
            /\ ExcuseLogins(c, name, [pc |-> "destroy", target |-> name])
         \/ SaveFails /\ ExcuseFresh(name) /\ ExcuseLogins(c, name, AdminIdle)
      /\ disowned' = (disowned \/ ~ActorIsAdmin(c))

(* handleUserSetPassword *)
UserSetPassword(c, s, name) ==
  /\ req[c] = AdminIdle /\ Authorized(s, "users.manage")
  /\ Proceed(c, [pc |-> "reset", target |-> name])
  /\ UNCHANGED <<users, saved, sessions, disowned>>

SetPassword(c) ==
  LET name == req[c].target
  IN  /\ req[c].pc = "reset" /\ name \in DOMAIN users
      /\ users' = [users EXCEPT ![name].must = FALSE]
      /\ \/ /\ SaveOK /\ MarkSessions(name, "revoked")
            /\ ExcuseLogins(c, name, [pc |-> "destroy", target |-> name])
         \/ SaveFails /\ ExcuseFresh(name) /\ ExcuseLogins(c, name, AdminIdle)
      /\ UNCHANGED disowned

SetPasswordNotFound(c) ==
  /\ req[c].pc \in {"reset", "self"} /\ req[c].target \notin DOMAIN users
  /\ Reply(c)
  /\ UNCHANGED <<users, saved, sessions, disowned>>

\* mutant: the sessions of the account are kept
DestroyNothing(c) ==
  /\ req[c].pc = "destroy"
  /\ Proceed(c, [pc |-> "audit"])
  /\ UNCHANGED <<users, saved, sessions, disowned>>

\* destroyUser, after Delete or SetPassword
DestroyUser(c) ==
  /\ req[c].pc = "destroy"
  /\ sessions' = [s \in {t \in DOMAIN sessions : sessions[t].user # req[c].target} |->
                    sessions[s]]
  /\ Proceed(c, [pc |-> "audit"])
  /\ UNCHANGED <<users, saved, disowned>>

(* handleChangePassword: the caller's own password; sessions are kept.        *)
ChangePassword(c, s) ==
  /\ req[c] = AdminIdle /\ s \in DOMAIN sessions
  /\ sessions[s].user \in DOMAIN users
  /\ Proceed(c, [pc |-> "self", target |-> sessions[s].user])
  /\ UNCHANGED <<users, saved, sessions, disowned>>

SetOwnPassword(c) ==
  /\ req[c].pc = "self" /\ req[c].target \in DOMAIN users
  /\ users' = [users EXCEPT ![req[c].target].must = FALSE]
  /\ \/ SaveOK /\ Proceed(c, [pc |-> "audit"])
     \/ SaveFails /\ Reply(c)
  /\ UNCHANGED <<sessions, disowned>>

\* Store.Audit saves the accounts along with the entry and ignores an error.
Audit(c) ==
  /\ req[c].pc = "audit"
  /\ Reply(c)
  /\ UNCHANGED <<users, sessions, disowned>>
  /\ SaveOK \/ SaveFails

\* handleLogout, and the idle timeout in sessionManager.get
SessionEnds(s) ==
  /\ s \in DOMAIN sessions
  /\ sessions' = Without(sessions, s)
  /\ UNCHANGED <<users, saved, req, disowned>>

\* The process dies or stops at any time and is started again: OpenStore, New.
AdminRestart ==
  /\ users' = Bootstrapped(saved)
  /\ SaveOK \/ SaveFails
  /\ sessions' = NoSessions
  /\ req' = [c \in Client |-> AdminIdle]
  /\ UNCHANGED disowned

AdminInit ==
  /\ users = Bootstrapped(NoAccounts)
  /\ saved \in {NoAccounts, users}
  /\ sessions = NoSessions
  /\ req = [c \in Client |-> AdminIdle]
  /\ disowned = FALSE

AdminNext ==
  \/ \E c \in Client :
       \/ \E u \in UserName : LoginRight(c, u)
       \/ LoginRefused(c)
       \/ \E s \in SessionId : LoginSession(c, s)
       \/ \E s \in SessionId, u \in SSOName, g \in SUBSET DOMAIN GroupRole :
            OIDCCallback(c, s, u, g)
       \/ \E s \in SessionId, u \in UserName, r \in GrantRole : UserCreate(c, s, u, r)
       \/ Upsert(c)
       \/ \E s \in SessionId, u \in UserName : UserDelete(c, s, u)
       \/ Delete(c)
       \/ \E s \in SessionId, u \in UserName : UserSetPassword(c, s, u)
       \/ SetPassword(c) \/ SetPasswordNotFound(c)
       \/ DestroyUser(c)
       \/ \E s \in SessionId : ChangePassword(c, s)
       \/ SetOwnPassword(c)
       \/ Audit(c)
  \/ \E s \in SessionId : SessionEnds(s)
  \/ AdminRestart

AdminSpec == AdminInit /\ [][AdminNext]_adminVars

-----------------------------------------------------------------------------
\* A session never outlives its account's credentials: once an administrator's
\* delete or password reset is answered, no session of that name opened before it
\* is left, and a session opened with a password always carries the role of an
\* account that exists.  Excepted are the sessions marked "excused".
SessionsCurrent ==
  \A s \in DOMAIN sessions :
    /\ sessions[s].mark = "revoked" =>
         \E c \in Client : req[c].pc = "destroy" /\ req[c].target = sessions[s].user
    /\ sessions[s].mark = "fresh" /\ sessions[s].local =>
         /\ sessions[s].user \in DOMAIN users
         /\ users[sessions[s].user].role = sessions[s].role

HasAdmin(accounts) == \E u \in DOMAIN accounts : accounts[u].role = "admin"

\* The accounts never run out of administrators, in memory or in a file that is
\* not empty (an empty one is bootstrapped): the check that nobody deletes the own
\* account is enough, as long as the deleting administrator still has one.
AdminRemains ==
  \/ disowned
  \/ HasAdmin(users) /\ (DOMAIN saved # {} => HasAdmin(saved))

=============================================================================
