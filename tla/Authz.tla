------------------------------- MODULE Authz -------------------------------
(***************************************************************************)
(* pkg/authz: who may do what.  A principal is [user, tenant, admin]; a    *)
(* resource is [kind, tenant, project, creator] with project = NoProject   *)
(* for a personal one.  Decide is the only place where a call is allowed   *)
(* or refused; everything it needs besides its arguments is the caller's   *)
(* role in the resource's project.  Error texts are left out.              *)
(***************************************************************************)
EXTENDS Naturals

CONSTANT NoProject        \* the empty project id: a personal resource

\* Roles are ordered by what they allow (authz.Role, roleLevel).
RoleNone   == 0
RoleMember == 1
RoleAdmin  == 2
RoleOwner  == 3

roleAtLeast(got, want) == got >= want

\* The least role for every project:* action.
projectActionRole ==
    [project_read |-> RoleMember, project_update |-> RoleOwner, project_delete |-> RoleOwner,
     manage_members |-> RoleAdmin, manage_plugins |-> RoleAdmin, manage_rules |-> RoleAdmin,
     transfer_owner |-> RoleOwner]

\* The least role for an action on a session that belongs to a project.
sessionProjectActionRole ==
    [session_read |-> RoleMember, session_use |-> RoleMember,
     session_delete |-> RoleAdmin, session_move |-> RoleAdmin]

\* Mutant: what one created oneself one may delete but not move.
memberCreatorAllowed_DeleteOnly(a) == a = "session_delete"

\* The actions a plain member may take on what he created himself.
memberCreatorAllowed(a) == a \in {"session_delete", "session_move"}

decideSession(p, a, r, role) ==
    IF r.project # NoProject
    THEN /\ a \in DOMAIN sessionProjectActionRole
         /\ \/ roleAtLeast(role, sessionProjectActionRole[a])
            \/ memberCreatorAllowed(a) /\ r.creator = p.user
    ELSE a \in DOMAIN sessionProjectActionRole /\ r.creator = p.user

\* Probes are personal: only the one who registered it.
decideProbe(p, a, r) ==
    /\ a \in {"probe_read", "probe_use", "probe_control", "probe_manage"}
    /\ r.creator = p.user

\* Plugins and leases: the project's inside one, the creator's outside.
decideProjectScoped(p, a, r, role) ==
    \/ a = "plugin_read"
    \/ /\ a \in {"plugin_use", "lease_use", "lease_release"}
       /\ IF r.project # NoProject THEN roleAtLeast(role, RoleMember) ELSE r.creator = p.user
    \/ /\ a = "plugin_manage"
       /\ IF r.project # NoProject THEN roleAtLeast(role, RoleAdmin) ELSE r.creator = p.user

\* Other tenants never, global administrators always, then the role in the
\* project, then the creator.
Decide(p, a, r, role) ==
    /\ p.tenant = r.tenant
    /\ \/ p.admin
       \/ a \in DOMAIN projectActionRole /\ roleAtLeast(role, projectActionRole[a])
       \/ /\ a \notin DOMAIN projectActionRole
          /\ \/ r.kind = "session" /\ decideSession(p, a, r, role)
             \/ r.kind \in {"plugin", "lease"} /\ decideProjectScoped(p, a, r, role)
             \/ r.kind = "probe" /\ decideProbe(p, a, r)

\* One creates access codes for oneself; claiming one needs no identity.
AccessCodeActionAllowed(p, a, creator) ==
    p.admin \/ (a = "code_create" /\ creator = p.user) \/ a = "code_claim"

=============================================================================
