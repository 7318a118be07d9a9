-------------------------------- MODULE Api ---------------------------------
(***************************************************************************)
(* Requests on the HTTP API of a deployment with RBAC on: each caller's    *)
(* request is authenticated, then goes through its handler's steps, one    *)
(* storage access at a time, interleaved with the others'.  The rows live  *)
(* in slots: slots 1 and 2 belong to the two tenants, what sits in slot 3  *)
(* belongs to no tenant (a template, a project from before tenants         *)
(* existed).  A row's children sit in its own slot.  What services do to   *)
(* their rows beyond creating and deleting them is modelled elsewhere.     *)
(***************************************************************************)
EXTENDS Access, Handlers, Functions

CONSTANTS
    Callers,        \* requests under way at once
    Subject,        \* [Callers -> Subjects]
    Persona,        \* [Subjects -> the accounts the provider may vouch for]
    MayCall,        \* [Callers -> SUBSET Routes]
    Slots,          \* [Callers -> the slots the request may name, Bad among them]
    Grantable,      \* roles named by grant and revoke requests
    Starts,         \* the possible <<cookies, grants>> at the start
    Faulty,         \* the callers whose storage accesses may fail
    Expired,        \* the share links that have expired at the start
    Bad             \* an id that does not parse

VARIABLES
    gone,           \* the rows deleted since the start
    made,           \* the rows created, as <<kind, tenant>>
    cookie,         \* subject -> the account its session cookie vouches for
    expired,        \* share links past their expiry
    req             \* caller -> its request

vars == <<grants, gone, made, cookie, expired, req>>

SlotTenant(slot) == IF slot \in Tenants THEN slot ELSE None

OwnedKinds == {"project", "scenario", "execution", "run", "schedule", "job",
               "campaign", "slo", "webhook", "share"}

InitialRows == (OwnedKinds \X Tenants) \cup ({"tenant"} \X Tenants)
                \cup ({"project", "scenario"} \X {3})

Rows == InitialRows \ gone
TenantOf(row) == SlotTenant(row[2])

Idle == [pc |-> "idle", todo |-> <<>>, ids |-> <<>>, role |-> None, acct |-> {}, loaded |-> None,
         status |-> 0, did |-> {}, shows |-> {}, audited |-> FALSE, failed |-> "",
         late |-> FALSE]

Init ==
    /\ \E start \in Starts : cookie = start[1] /\ grants = start[2]
    /\ gone = {} /\ made = {}
    /\ expired = Expired
    /\ req = [q \in Callers |-> Idle]

\* Requests interleave where they touch what they share: a request that is at
\* a step of its own (a check of its input, a decision on its account) takes
\* it before another one moves.
LocalOps == {"configured", "body", "id", "name", "ask", "audit"}
Local(q) == /\ req[q].pc = "open"
            /\ req[q].todo = <<>> \/ Head(req[q].todo).op \in LocalOps

----------------------------------------------------------------------------
\* The middleware.

IdKinds(todo) ==
    {s.kind : s \in {x \in Range(todo) : x.op \in {"id", "name"}}} \ {"role"}

\* The path of a tenant's administration names the tenant before its id is
\* checked.
Inputs(q, todo) ==
    {f \in [IdKinds(todo) -> Slots[q]] :
        /\ "share" \in IdKinds(todo) => f["share"] # Bad
        /\ \A k \in IdKinds(todo) \ {"project", "scenario", "tenant"} : f[k] # 3}

NamesRole(todo) == \E s \in Range(todo) : s.op = "name" /\ s.kind = "role"

\* The account a request acts with: what its cookie vouches for and what the
\* grants table says at this moment.
Authenticate(subject) ==
    IF cookie[subject] = None THEN None
    ELSE mergeGrants(cookie[subject], RolesFor(subject))

authenticate(q) ==
    /\ req[q].pc = "idle"
    /\ \A other \in Callers : ~Local(other)
    /\ \E todo \in MayCall[q] : \E ids \in Inputs(q, todo) :
       \E role \in IF NamesRole(todo) THEN Grantable ELSE {None} :
        LET account == Authenticate(Subject[q])
            open == [Idle EXCEPT !.pc = "open", !.todo = todo, !.ids = ids, !.role = role,
                        !.late = todo = sharedReport /\ ids["share"] \in expired]
        IN  \/ /\ todo \in PublicRoutes
               /\ req' = [req EXCEPT ![q] = open]
            \/ /\ todo \notin PublicRoutes
               /\ account # None
               /\ req' = [req EXCEPT ![q] = [open EXCEPT !.acct = account]]
            \/ /\ todo \notin PublicRoutes
               /\ account = None \/ q \in Faulty
               /\ req' = [req EXCEPT ![q] = [open EXCEPT !.pc = "answered",
                                                         !.status = 401]]
    /\ UNCHANGED <<grants, gone, made, cookie, expired>>

----------------------------------------------------------------------------
\* The steps of a handler.

At(q, op) == /\ req[q].pc = "open"
             /\ req[q].todo # <<>>
             /\ Head(req[q].todo).op = op
             /\ Local(q) \/ \A other \in Callers : ~Local(other)

Now(q) == Head(req[q].todo)

\* Pass the request on, with what the step learned or did.
Pass(q, change(_)) ==
    req' = [req EXCEPT ![q] = change([@ EXCEPT !.todo = Tail(@)])]

Refuse(q, status) ==
    req' = [req EXCEPT ![q] = [@ EXCEPT !.pc = "answered", !.status = status,
                                        !.failed = Now(q).op]]

Same(r) == r

\* The errors a service may return: 409 stands for the statuses respondError
\* gives the errors it knows (400, 404, 409, 429).
respondError(q) == q \in Faulty /\ \E status \in {409, 500} : Refuse(q, status)

StorageFails(q) == q \in Faulty /\ Refuse(q, 500)

Row(q, kind, via) == <<via, req[q].ids[kind]>>

Gate(q) ==
    /\ At(q, "configured") \/ At(q, "body") \/ At(q, "id") \/ At(q, "name")
    /\ LET s == Now(q) IN
       \/ /\ s.op = "id" => req[q].ids[s.kind] # Bad
          /\ Pass(q, Same)
       \/ s.op = "configured" /\ Refuse(q, 404)
       \/ s.op = "body" /\ Refuse(q, 400)
       \/ s.op = "id" /\ req[q].ids[s.kind] = Bad /\ Refuse(q, 400)
    /\ UNCHANGED <<grants, gone, made, cookie, expired>>

\* Everything a 200 answer carries is remembered as the tenants it belongs to.
Loading(q) ==
    /\ At(q, "load")
    /\ LET row == Row(q, Now(q).kind, Now(q).via) IN
       \/ /\ row \in Rows
          /\ LET Learn(r) == [r EXCEPT !.loaded = TenantOf(row), !.shows = @ \cup {TenantOf(row)}]
             IN  Pass(q, Learn)
       \/ row \notin Rows /\ Refuse(q, 404)
       \/ StorageFails(q)
    /\ UNCHANGED <<grants, gone, made, cookie, expired>>

authorize(q) ==
    /\ At(q, "authorize")
    /\ LET s == Now(q)
           row == Row(q, s.kind, s.via)
       IN  \/ /\ row \in Rows
              /\ Authorize(req[q].acct, s.what, s.action, TenantOf(row))
              /\ Pass(q, Same)
           \/ /\ row \in Rows
              /\ ~Authorize(req[q].acct, s.what, s.action, TenantOf(row))
              /\ Refuse(q, 403)
           \/ row \notin Rows /\ Refuse(q, 404)
           \/ StorageFails(q)
    /\ UNCHANGED <<grants, gone, made, cookie, expired>>

\* The path's tenant, or none when the path has none or it does not parse.
NamedTenant(q) ==
    IF "tenant" \in DOMAIN req[q].ids THEN SlotTenant(req[q].ids["tenant"]) ELSE None

AskedTenant(q, which) ==
    CASE which = "loaded" -> req[q].loaded
      [] which = "tenant" -> NamedTenant(q)
      [] which = "platform" -> None

Asking(q) ==
    /\ At(q, "ask")
    /\ LET s == Now(q) IN
       IF Authorize(req[q].acct, s.what, s.action, AskedTenant(q, s.kind))
       THEN Pass(q, Same)
       ELSE Refuse(q, 403)
    /\ UNCHANGED <<grants, gone, made, cookie, expired>>

\* The participating project is the one in the campaign's slot; a project that
\* cannot be loaded counts as one the caller may not read.
Participant(q) ==
    /\ At(q, "participant")
    /\ LET project == Row(q, "campaign", "project") IN
       IF \/ Authorize(req[q].acct, "campaign", "read", req[q].loaded)
          \/ /\ project \in Rows
             /\ Authorize(req[q].acct, "project", "read", TenantOf(project))
       THEN Pass(q, Same)
       ELSE Refuse(q, 403)
    /\ UNCHANGED <<grants, gone, made, cookie, expired>>

Unexpiring(q) ==
    /\ At(q, "unexpired")
    /\ IF req[q].ids["share"] \in expired THEN Refuse(q, 404) ELSE Pass(q, Same)
    /\ UNCHANGED <<grants, gone, made, cookie, expired>>

\* Reads below a row: what is there belongs to the row's tenant.
Reading(q) ==
    /\ At(q, "read")
    /\ LET kind == Now(q).kind
           tenant == IF kind \in DOMAIN req[q].ids THEN SlotTenant(req[q].ids[kind])
                                                   ELSE None
           Learn(r) == [r EXCEPT !.shows = @ \cup {tenant}]
       IN  \/ Pass(q, Learn)
           \/ respondError(q)
    /\ UNCHANGED <<grants, gone, made, cookie, expired>>

\* Platform-wide lists come after a platform-wide permission; the others show
\* the provider's administrators every row, anyone else the rows of the
\* tenants they hold a role in.
PlatformKinds == {"usage", "template", "tenant"}

visibleTenants(acct) ==
    IF HasGlobalRole(acct, "service_provider_admin") THEN Tenants \cup {None}
                                                    ELSE TenantIDs(acct)

Listing(q) ==
    /\ At(q, "list")
    /\ LET kind == Now(q).kind
           seen == IF kind \in PlatformKinds THEN Tenants \cup {None}
                   ELSE {TenantOf(r) : r \in {x \in Rows :
                            /\ x[1] = kind
                            /\ TenantOf(x) \in visibleTenants(req[q].acct)}}
           Learn(r) == [r EXCEPT !.shows = @ \cup seen]
       IN  Pass(q, Learn) \/ StorageFails(q)
    /\ UNCHANGED <<grants, gone, made, cookie, expired>>

\* An effect is <<verb, kind, tenant>>.
Doing(q, effect) ==
    LET Remember(r) == [r EXCEPT !.did = @ \cup {effect}] IN Pass(q, Remember)

Creating(q) ==
    /\ Now(q).what = "create"
    /\ LET kind == Now(q).kind
           via == Now(q).via
           tenant == IF via = "platform" THEN Global ELSE SlotTenant(req[q].ids[via])
       IN  /\ made' = made \cup {<<kind, tenant>>}
           /\ Doing(q, <<"create", kind, tenant>>)
    /\ UNCHANGED <<grants, gone, cookie>>

\* The statement names the row and the row it must belong to.
Changing(q) ==
    /\ Now(q).what \in {"update", "annotate", "deploy", "trigger", "stop", "purge"}
    /\ Now(q).via # "platform"
    /\ LET row == Row(q, Now(q).kind, Now(q).kind) IN
       /\ row \in Rows
       /\ req[q].ids[Now(q).kind] = req[q].ids[Now(q).via]
       /\ Doing(q, <<Now(q).what, Now(q).kind, TenantOf(row)>>)
    /\ UNCHANGED <<grants, gone, made, cookie>>

Deleting(q) ==
    /\ Now(q).what = "delete"
    /\ Now(q).via # "platform"
    /\ LET row == Row(q, Now(q).kind, Now(q).kind) IN
       /\ row \in Rows
       /\ req[q].ids[Now(q).kind] = req[q].ids[Now(q).via]
       /\ gone' = gone \cup {row}
       /\ Doing(q, <<"delete", Now(q).kind, TenantOf(row)>>)
    /\ UNCHANGED <<grants, made, cookie>>

\* Clusters and the kill switch belong to the platform.
Operating(q) ==
    /\ Now(q).via = "platform"
    /\ Now(q).kind \in {"cluster", "system"}
    /\ Now(q).what # "create"
    /\ Doing(q, <<Now(q).what, Now(q).kind, Global>>)
    /\ UNCHANGED <<grants, gone, made, cookie>>

\* The grants named are those of the first caller.
Grantee == CHOOSE s \in Subjects : TRUE

Granting(q) ==
    /\ Now(q).kind = "grant"
    /\ LET role == req[q].role
           scope == IF Now(q).via = "platform" THEN Global ELSE req[q].ids["tenant"]
           tenants == {r[2] : r \in {x \in Rows : x[1] = "tenant"}}
       IN  /\ \/ /\ Now(q).what = "assign"
                 /\ validateGrant(role, scope, tenants)
                 /\ AssignRole(Grantee, role, scope)
              \/ /\ Now(q).what = "revoke"
                 /\ RevokeRole(Grantee, role, scope)
           /\ Doing(q, <<Now(q).what, "grant", scope>>)
    /\ UNCHANGED <<gone, made, cookie>>

\* The session cookie is the caller's to keep or to drop.
Signing(q) ==
    /\ Now(q).kind = "session"
    /\ \/ /\ Now(q).what = "issue"
          /\ \E acct \in Persona[Subject[q]] : cookie' = [cookie EXCEPT ![Subject[q]] = acct]
       \/ Now(q).what = "clear" /\ cookie' = [cookie EXCEPT ![Subject[q]] = None]
    /\ Doing(q, <<Now(q).what, "session", Global>>)
    /\ UNCHANGED <<grants, gone, made>>

ServiceCall(q) ==
    /\ At(q, "do")
    /\ \/ Creating(q) \/ Changing(q) \/ Deleting(q)
       \/ Operating(q) \/ Granting(q) \/ Signing(q)
       \/ respondError(q) /\ UNCHANGED <<grants, gone, made, cookie>>
    /\ UNCHANGED expired

\* A record that fails is dropped.
Auditing(q) ==
    /\ At(q, "audit")
    /\ LET Recorded(r) == [r EXCEPT !.audited = TRUE] IN Pass(q, Recorded)
    /\ UNCHANGED <<grants, gone, made, cookie, expired>>

Answer(q) ==
    /\ req[q].pc = "open" /\ req[q].todo = <<>>
    /\ req' = [req EXCEPT ![q].pc = "answered", ![q].status = 200]
    /\ UNCHANGED <<grants, gone, made, cookie, expired>>

----------------------------------------------------------------------------
\* Time passes: a share link a request is about expires.  A session that has
\* expired is one the caller does not have.

ShareExpires ==
    /\ \E q \in Callers :
        /\ req[q].pc = "open" /\ "share" \in DOMAIN req[q].ids
        /\ expired' = expired \cup {req[q].ids["share"]}
    /\ UNCHANGED <<grants, gone, made, cookie, req>>

Next ==
    \/ \E q \in Callers :
        \/ authenticate(q) \/ Gate(q) \/ Loading(q) \/ authorize(q) \/ Asking(q)
        \/ Participant(q) \/ Unexpiring(q) \/ Reading(q) \/ Listing(q)
        \/ ServiceCall(q) \/ Auditing(q) \/ Answer(q)
    \/ ShareExpires

Spec == Init /\ [][Next]_vars

----------------------------------------------------------------------------
\* Properties.

\* What must be held to change a row: a changing permission on the resource it
\* belongs to.  A run's annotations and links only need its report.
Owner(kind) ==
    CASE kind \in {"project", "webhook", "slo"} -> "project"
      [] kind = "scenario" -> "scenario"
      [] kind = "execution" -> "execution"
      [] kind = "schedule" -> "schedule"
      [] kind \in {"run", "share"} -> "report"
      [] kind = "campaign" -> "campaign"
      [] kind \in {"tenant", "grant"} -> "tenant"
      [] OTHER -> "system"

ChangingActions(kind) ==
    CASE Owner(kind) = "report" -> {"read"}
      [] Owner(kind) \in {"tenant", "system"} -> {"admin"}
      [] OTHER -> {"create", "update", "delete"}

MayChange(acct, kind, tenant) ==
    \E held \in acct : \E action \in ChangingActions(kind) :
        /\ held[2] \in {Global, tenant}
        /\ Can(held[1], Owner(kind), action)

\* Nothing changes in a tenant unless the account, as authenticated, holds
\* there (or platform-wide) a role that may change what was changed: whatever
\* route was taken, whatever ids it named and whatever other requests did
\* meanwhile (the authorize* helpers of httpapi before every service call).
EffectsPermitted ==
    \A q \in Callers : \A effect \in req[q].did :
        effect[2] = "session" \/ MayChange(req[q].acct, effect[2], effect[3])

\* Accounts that only read (viewers, and campaign managers outside their
\* campaigns) change nothing but a run's star, note and links.
ReadersOnlyAnnotate ==
    \A q \in Callers : \A effect \in req[q].did :
        (\A held \in req[q].acct : held[1] \in {"tenant_viewer", "campaign_manager"}) =>
            \/ effect[2] \in {"run", "share", "session"}
            \/ effect[2] = "campaign" /\ <<"campaign_manager", effect[3]>> \in req[q].acct

\* An answered request showed rows of the account's own tenants only, unless
\* the account holds a platform-wide role or the request came with a share
\* link (visibleProjects, listAllCampaigns and the authorize* helpers).
ReadsWithinTenant ==
    \A q \in Callers :
        (/\ req[q].status = 200
         /\ "share" \notin DOMAIN req[q].ids
         /\ \A held \in req[q].acct : held[2] # Global)
            => req[q].shows \subseteq TenantIDs(req[q].acct)

\* A request that was refused changed nothing, unless the change was made and
\* only reading it back failed (createTenant, abortCampaign, setDigestConfig
\* and the calibration triggers answer with what they read back).
RefusedMeansUndone ==
    \A q \in Callers :
        req[q].status >= 400 /\ req[q].did # {} => req[q].failed \in {"load", "read"}

\* A tenant's grants, statuses and quotas, the clusters and the kill switch are
\* recorded in the audit log whenever the request succeeded (handlers.audit).
AdministrationAudited ==
    \A q \in Callers :
        (/\ req[q].status = 200
         /\ \E effect \in req[q].did : Owner(effect[2]) \in {"tenant", "system"}
                                        /\ effect[2] # "session")
            => req[q].audited

\* A tenant-scoped role is only ever granted in a tenant that exists, and the
\* provider's role only platform-wide (tenantapp.validateGrant).
GrantsScoped ==
    \A g \in grants :
        /\ TenantScoped(g[2]) <=> g[3] # Global
        /\ g[3] # Global => <<"tenant", g[3]>> \in Rows

\* A share link that had expired when the request arrived opens nothing
\* (sharedReport answers it like an unknown token).
ExpiredLinkIsDead ==
    \A q \in Callers : req[q].late => req[q].status # 200

Resources == TenantResources \cup {"campaign", "tenant", "system"}

\* The flat map /api/me hands to the SPA lists exactly what the account may do
\* somewhere: in one of its tenants or platform-wide.
PermissionsSomewhere ==
    \A q \in Callers : req[q].pc = "open" /\ req[q].todo = me => \A resource \in Resources, action \in AllActions :
        (\E p \in Permissions(req[q].acct) : Grants(p, resource, action))
            <=> \E t \in Tenants \cup {None} :
                    Authorize(req[q].acct, resource, action, t)

\* The gates and audits of the handlers taken together: whatever routes two callers
\* take at once, a request changes and shows only what its account may change and
\* see, and its answer and the audit log tell what it did.
RequestsPermitted ==
    /\ EffectsPermitted /\ ReadersOnlyAnnotate /\ ReadsWithinTenant
    /\ GrantsScoped /\ ExpiredLinkIsDead /\ PermissionsSomewhere
    /\ RefusedMeansUndone /\ AdministrationAudited
=============================================================================
