------------------------------ MODULE AdminRoles ------------------------------
(***************************************************************************)
(* The role-based access control of the admin API: the capabilities of each *)
(* role (store.go) and the role an OIDC login receives from the identity    *)
(* provider's groups (oidc.go).                                             *)
(***************************************************************************)
EXTENDS Naturals

ViewerCaps ==
  {"dashboard.view", "traffic.view", "policy.view", "catalog.view", "mimic.view",
   "config.view", "audit.view"}

EditorCaps ==
  {"dashboard.view", "traffic.view", "policy.view", "policy.edit", "catalog.view",
   "catalog.edit", "mimic.view", "mimic.edit", "config.view", "apply.reload",
   "allow.temp"}

AdminCaps ==
  ViewerCaps \cup EditorCaps \cup
  {"traffic.view_full", "config.edit", "agh.manage", "killswitch.execute",
   "users.manage"}

roleCaps == [admin |-> AdminCaps, editor |-> EditorCaps, viewer |-> ViewerCaps]

Role == DOMAIN roleCaps

Can(role, capability) == role \in Role /\ capability \in roleCaps[role]

\* The admin role wins over editor, editor over viewer; a role name outside the
\* three has rank zero and is only chosen when nothing better is mapped.
RoleRank(role) == CASE role = "viewer" -> 1 [] role = "editor" -> 2
                    [] role = "admin" -> 3 [] OTHER -> 0

\* The roles MapGroupsToRole may return for a user in groups: none when no group
\* is mapped, else one of the highest rank (the first in the order of the groups).
MapGroupsToRole(groups, roleMap) ==
  LET mapped == {roleMap[g] : g \in groups \cap DOMAIN roleMap}
  IN  {r \in mapped : \A q \in mapped : RoleRank(q) <= RoleRank(r)}

=============================================================================
