------------------------------- MODULE Access -------------------------------
(***************************************************************************)
(* Who may do what: the role catalogue (internal/domain/rbac), the          *)
(* decision on a request (authapp), and the tenants' role grants            *)
(* (tenantapp over mysql/rbac_repository).                                  *)
(*                                                                          *)
(* An account is the set of its roles, each a pair <<role, scope>>: the     *)
(* scope is a tenant, or Global for a role held platform-wide.  A grant is  *)
(* a triple <<subject, role, scope>>.                                       *)
(***************************************************************************)
EXTENDS Integers, FiniteSets

CONSTANTS Subjects, Tenants, Global, None

VARIABLE grants

----------------------------------------------------------------------------
\* The catalogue: the roles and what each may do.

AllActions == {"create", "read", "update", "delete", "list", "admin"}
WriteActions == {"create", "read", "update", "delete", "list"}
ReadActions == {"read", "list"}

TenantResources == {"project", "execution", "scenario", "run", "schedule", "report"}

\* A permission is <<resource, actions>>; "*" stands for every one of either.
RoleNames == {"service_provider_admin", "tenant_admin", "tenant_editor",
              "tenant_viewer", "campaign_manager"}

DefaultCatalog ==
    [role \in RoleNames |->
        CASE role = "service_provider_admin" -> {<<"*", {"*"}>>}
          [] role = "tenant_admin" ->
                (TenantResources \X {AllActions}) \cup {<<"tenant", {"admin"}>>}
          [] role = "tenant_editor" ->
                ((TenantResources \ {"report"}) \X {WriteActions})
                    \cup {<<"report", ReadActions>>}
          [] role = "tenant_viewer" -> TenantResources \X {ReadActions}
          [] role = "campaign_manager" ->
                ({"project", "execution", "schedule", "report"} \X {ReadActions})
                    \cup {<<"campaign", AllActions>>}]

TenantScoped(role) == role # "service_provider_admin"

Grants(permission, resource, action) ==
    /\ permission[1] \in {"*", resource}
    /\ permission[2] \cap {"*", action} # {}

Can(role, resource, action) ==
    \E p \in DefaultCatalog[role] : Grants(p, resource, action)

Authorize(acct, resource, action, tenantID) ==
    \E held \in acct :
        /\ held[2] = Global \/ (tenantID # None /\ held[2] = tenantID)
        /\ Can(held[1], resource, action)

\* The flat map that /api/me returns: every permission of every role held.
Permissions(acct) ==
    UNION {DefaultCatalog[held[1]] : held \in acct}

HasGlobalRole(acct, role) == <<role, Global>> \in acct
TenantIDs(acct) == {held[2] : held \in acct} \ {Global}

----------------------------------------------------------------------------
\* Grants.

\* What the provider vouches for, and what the grants table adds to it.
RolesFor(subject) == {<<g[2], g[3]>> : g \in {x \in grants : x[1] = subject}}

mergeGrants(acct, roles) == acct \cup roles

\* A role is granted in its own scope only, and in a tenant that exists.
validateGrant(role, scope, tenants) ==
    /\ role \in RoleNames
    /\ TenantScoped(role) <=> scope # Global
    /\ scope # Global => scope \in tenants

\* INSERT IGNORE and DELETE: granting twice and revoking what is not held are
\* no-ops.
AssignRole(subject, role, scope) == grants' = grants \cup {<<subject, role, scope>>}
RevokeRole(subject, role, scope) == grants' = grants \ {<<subject, role, scope>>}
=============================================================================
