---------------------------- MODULE AdminEndpoints ----------------------------
(***************************************************************************)
(* The routes of the admin API (admin.go, Handler) and what each handler    *)
(* may change, as a table, and the life of one request through it: withAuth, *)
(* the handler's own refusals, its operation, its audit entry.  What the    *)
(* operations do is modelled in the modules of their components; here they  *)
(* are reduced to the areas of the system's state that they change:         *)
(*   policy   the files of policy.d        running  the rules in force      *)
(*   config   the configuration file       temp     temporary allows        *)
(*   catalog  the rule catalog             managed  sources, overrides, ... *)
(*   agh      AdGuard Home's own state     users    the accounts            *)
(*   self     the caller's own password    session  the caller's session    *)
(*   target   the cached address of the feed's target                       *)
(*   feed     the feed's history and the automatic emergency switch         *)
(***************************************************************************)
EXTENDS AdminRoles

CONSTANT Dependency \* the optional components that this server was built with

ASSUME EndpointAssumption == "none" \in Dependency

Area == {"policy", "config", "catalog", "agh", "self", "target", "running", "temp",
         "managed", "users", "session", "feed"}

-----------------------------------------------------------------------------
(* A route: the capability it requires ("" for any session, "public" for     *)
(* none), the component it cannot do without, what it changes, what it may   *)
(* have changed when it answers with an error, and when it writes to the     *)
(* audit log: "ok" after success, "always" after an error as well, "never".  *)
Route(cap, dep, does, torn, audit) ==
  [cap |-> cap, dep |-> dep, does |-> does, torn |-> torn, audit |-> audit]

View(cap, dep) == Route(cap, dep, {}, {}, "never")
Poll(cap, dep, does) == Route(cap, dep, does, does, "never")
Edit(cap, dep, does) == Route(cap, dep, does, does, "ok")

\* The session.
handleAuthInfo == View("public", "none")
handleLogin == Route("public", "none", {"session"}, {}, "always")
handleOIDCLogin == View("public", "oidc")
handleOIDCCallback == Route("public", "oidc", {"session"}, {}, "ok")
handleLogout == Route("", "none", {"session"}, {}, "never")
handleMe == View("", "none")
handleChangePassword == Edit("", "none", {"self"})

\* Views.
handleDashboard == View("dashboard.view", "none")
handleTraffic == View("traffic.view", "none")
handleTrafficStream == View("traffic.view", "none")
handleCuration == View("policy.view", "none")
handlePolicyList == View("policy.view", "none")
handlePolicyGet == View("policy.view", "none")
handleCatalogList == View("catalog.view", "none")
handleRuleCatalogList == View("catalog.view", "none")
handleRuleCatalogGet == View("catalog.view", "rules")
handleAGHSyncStatus == View("catalog.view", "rules")
handleTriageContext == View("traffic.view", "none")
handleAnalyticsSummary == View("traffic.view", "none")
handleAnalyticsDomains == View("traffic.view", "none")
handleAnalyticsRules == View("traffic.view", "none")
handleAnalyticsCatalog == View("catalog.view", "none")
writeCatalogAnalyticsSlice == View("catalog.view", "none")
handleConfigGet == View("config.view", "none")
handleAudit == View("audit.view", "none")
handleUserList == View("users.manage", "none")

\* Changes of the policy, the configuration and the rule catalog.
handlePolicyPut == Edit("policy.edit", "none", {"policy"})
handleConfigPut == Edit("config.edit", "none", {"config"})
handleReload == Route("apply.reload", "reload", {"running"}, {}, "ok")
handleTempAllow == Route("allow.temp", "none", {"temp"}, {}, "ok")
handlePermanentAllow == Edit("policy.edit", "none", {"policy"})
handleSiteOverride == Edit("policy.edit", "none", {"policy"})
handleRuleCatalogReview == Edit("catalog.edit", "rules", {"catalog"})
handleRuleCatalogPromote == Edit("catalog.edit", "rules", {"catalog"})
handleRuleCatalogDowngrade == Edit("catalog.edit", "rules", {"catalog"})
handleRuleCatalogMarkCNAME == Edit("catalog.edit", "rules", {"catalog"})
handleAGHRewriteCandidate == Route("agh.manage", "rules", {}, {}, "ok")
handleAGHSyncRun == Route("agh.manage", "aghsync", {"catalog"}, {}, "always")
handleKillSwitch == Edit("killswitch.execute", "killswitch", {"agh"})
handleUserCreate == Edit("users.manage", "none", {"users"})
handleUserDelete == Edit("users.manage", "none", {"users"})
handleUserSetPassword == Edit("users.manage", "none", {"users"})

\* Managed rewrites: views.  Status, the target's settings and the previews resolve
\* the target's name and keep the answer; the export is a generation of the feed.
handleAGHManagedSources == View("catalog.view", "managed")
handleAGHManagedSourceEntries == View("catalog.view", "managed")
handleAGHManagedSourcePendingDiff == View("catalog.view", "managed")
handleAGHManagedCatalog == View("catalog.view", "managed")
handleAGHManagedCatalogFacets == View("catalog.view", "managed")
handleAGHManagedConflicts == View("catalog.view", "managed")
handleAGHManagedRollbacks == View("catalog.view", "managed")
handleAGHManagedHistory == View("catalog.view", "managed")
handleAGHManagedSchedulerConfig == View("catalog.view", "managed")
handleAGHManagedSourcePreview == View("agh.manage", "managed")
handleAGHManagedFeedStatus == Poll("catalog.view", "managed", {"target"})
handleAGHManagedTargetConfig == Poll("catalog.view", "managed", {"target"})
handleAGHManagedAGHStatus == Poll("catalog.view", "managed", {"target"})
handleAGHManagedFeedPreview == Poll("catalog.view", "managed", {"target"})
handleAGHManagedFeedExport == Poll("catalog.view", "managed", {"target", "feed"})
handleAGHManagedFeed == Poll("public", "managed", {"target", "feed"})

\* Managed rewrites: changes.
handleAGHManagedSourceUpsert == Edit("agh.manage", "managed", {"managed"})
handleAGHManagedSourceDelete == Edit("agh.manage", "managed", {"managed"})
handleAGHManagedSourceSync == Edit("agh.manage", "managed", {"managed"})
handleAGHManagedSourceApprove == Edit("agh.manage", "managed", {"managed"})
handleAGHManagedSourceReject == Edit("agh.manage", "managed", {"managed"})
handleAGHManagedCatalogPatch == Edit("agh.manage", "managed", {"managed"})
handleAGHManagedCatalogBulkPatch == Edit("agh.manage", "managed", {"managed"})
handleAGHManagedConflictResolve == Edit("agh.manage", "managed", {"managed"})
handleAGHManagedRollbackApply == Edit("agh.manage", "managed", {"managed"})
handleAGHManagedEmergencyEmpty == Edit("agh.manage", "managed", {"managed"})
handleAGHManagedPreset == Edit("agh.manage", "managed", {"managed", "target"})
handleAGHManagedSchedulerConfigPut == Edit("config.edit", "managed", {"config"})
handleAGHManagedRefreshTarget ==
  Route("agh.manage", "managed", {"target"}, {"target"}, "always")

\* mutant: the settings of the feed's target ask for the right to view them only
TargetConfigPutByViewer == Edit("config.view", "managed", {"config", "target"})

handleAGHManagedTargetConfigPut == Edit("config.edit", "managed", {"config", "target"})

\* mutant: no audit entry when AdGuard Home has refreshed its filters
RefreshUnaudited == Route("agh.manage", "none", {"agh"}, {"agh"}, "never")

handleAGHManagedRefreshAGH == Route("agh.manage", "none", {"agh"}, {"agh"}, "always")
handleAGHManagedRegisterAGH ==
  Route("agh.manage", "managed", {"agh", "target"}, {"agh", "target"}, "always")

-----------------------------------------------------------------------------
\* Handler(): the handlers that a route leads to.  Those with equal rows are one
\* element, because nothing here tells them apart.
Handler ==
  {handleAuthInfo, handleLogin, handleOIDCLogin, handleOIDCCallback, handleLogout,
   handleMe, handleChangePassword, handleDashboard, handleTraffic, handleTrafficStream,
   handleCuration, handlePolicyList, handlePolicyGet, handleCatalogList,
   handleRuleCatalogList, handleRuleCatalogGet, handleAGHSyncStatus,
   handleTriageContext, handleAnalyticsSummary, handleAnalyticsDomains,
   handleAnalyticsRules, handleAnalyticsCatalog, writeCatalogAnalyticsSlice,
   handleConfigGet, handleAudit, handleUserList, handlePolicyPut, handleConfigPut,
   handleReload, handleTempAllow, handlePermanentAllow, handleSiteOverride,
   handleRuleCatalogReview, handleRuleCatalogPromote, handleRuleCatalogDowngrade,
   handleRuleCatalogMarkCNAME, handleAGHRewriteCandidate, handleAGHSyncRun,
   handleKillSwitch, handleUserCreate, handleUserDelete, handleUserSetPassword,
   handleAGHManagedSources, handleAGHManagedSourceEntries,
   handleAGHManagedSourcePendingDiff, handleAGHManagedCatalog,
   handleAGHManagedCatalogFacets, handleAGHManagedConflicts, handleAGHManagedRollbacks,
   handleAGHManagedHistory, handleAGHManagedSchedulerConfig,
   handleAGHManagedSourcePreview, handleAGHManagedFeedStatus,
   handleAGHManagedTargetConfig, handleAGHManagedAGHStatus,
   handleAGHManagedFeedPreview, handleAGHManagedFeedExport, handleAGHManagedFeed,
   handleAGHManagedSourceUpsert, handleAGHManagedSourceDelete,
   handleAGHManagedSourceSync, handleAGHManagedSourceApprove,
   handleAGHManagedSourceReject, handleAGHManagedCatalogPatch,
   handleAGHManagedCatalogBulkPatch, handleAGHManagedConflictResolve,
   handleAGHManagedRollbackApply, handleAGHManagedEmergencyEmpty,
   handleAGHManagedPreset, handleAGHManagedSchedulerConfigPut,
   handleAGHManagedRefreshTarget, handleAGHManagedTargetConfigPut,
   handleAGHManagedRefreshAGH, handleAGHManagedRegisterAGH}

\* What an account that must change its password may still call.
MustChangeExempt == {handleMe, handleChangePassword, handleLogout}

VARIABLES call,    \* the request: who calls what, and how far it is
          changed, \* ghost: the areas it has changed
          audited  \* ghost: it has written to the audit log

endpointVars == <<call, changed, audited>>

Caller == [role : Role, must : BOOLEAN] \cup {[role |-> "anonymous", must |-> FALSE]}
NoCall == [phase |-> "idle"]

EndpointTypeOK ==
  /\ call \in {NoCall} \cup
       [phase : {"work", "ok", "error", "done", "failed"}, caller : Caller, route : Handler]
  /\ changed \subseteq Area
  /\ audited \in BOOLEAN

EndpointInit == call = NoCall /\ changed = {} /\ audited = FALSE

\* withAuth: a session, the must-change rule and the capability.  A request that is
\* refused here, or without its CSRF token, changes nothing and is left out.
withAuth(caller, route) ==
  \/ route.cap = "public"
  \/ /\ caller.role \in Role
     /\ caller.must => route \in MustChangeExempt
     /\ route.cap # "" => Can(caller.role, route.cap)

Dispatch(caller, route) ==
  /\ call.phase \in {"idle", "done", "failed"}
  /\ withAuth(caller, route) /\ route.dep \in Dependency
  /\ call' = [phase |-> "work", caller |-> caller, route |-> route]
  /\ changed' = {} /\ audited' = FALSE

Finish(phase) == call' = [call EXCEPT !.phase = phase]

\* The handler refuses the body (decodeJSON, limitBody) or a name before it works.
Refuse ==
  /\ call.phase = "work" /\ Finish("failed")
  /\ UNCHANGED <<changed, audited>>

Operate ==
  /\ call.phase = "work" /\ Finish("ok")
  /\ changed' = call.route.does
  /\ UNCHANGED audited

\* The operation answers with an error, before or after its change took effect (a
\* store changes its memory and then fails to save; a file is truncated and then
\* not written; AdGuard Home does what it is asked and the reply is lost).
OperateFails ==
  /\ call.phase = "work" /\ Finish("error")
  /\ changed' \in {{}, call.route.torn}
  /\ UNCHANGED audited

\* Store.Audit and the reply
AnswerCall ==
  /\ call.phase \in {"ok", "error"}
  /\ Finish(IF call.phase = "ok" THEN "done" ELSE "failed")
  /\ audited' = \/ call.route.audit = "always"
                \/ call.route.audit = "ok" /\ call.phase = "ok"
  /\ UNCHANGED changed

EndpointNext ==
  \/ \E caller \in Caller, route \in Handler : Dispatch(caller, route)
  \/ Refuse \/ Operate \/ OperateFails \/ AnswerCall

EndpointSpec == EndpointInit /\ [][EndpointNext]_endpointVars

-----------------------------------------------------------------------------
\* The bookkeeping of the feed, which reading it changes too.
Bookkeeping == {"target", "feed"}

\* What a caller may bring about: anyone can log in and fetch the feed; a viewer
\* further changes only the own password and session; an editor also the policy, the
\* rule catalog, temporary allows and a reload; an account that must change its
\* password nothing else than that.
Permitted(caller) ==
  Bookkeeping \cup {"session"} \cup
  CASE caller.role = "anonymous" -> {}
    [] caller.must -> {"self"}
    [] caller.role = "viewer" -> {"self"}
    [] caller.role = "editor" -> {"self", "policy", "catalog", "temp", "running"}
    [] OTHER -> Area

\* No role reaches more of the state than it should through any of the routes.
RoleEffects == call # NoCall => changed \subseteq Permitted(call.caller)

\* Every change of the system (the feed's bookkeeping and a logout aside) that a
\* handler reports as done is in the audit log.
ChangesAudited ==
  call.phase = "done" /\ ~audited => changed \subseteq Bookkeeping \cup {"session"}

=============================================================================
