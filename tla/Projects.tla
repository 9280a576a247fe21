------------------------------ MODULE Projects ------------------------------
(***************************************************************************)
(* gt-mcp's projects: the tables projects and project_members, the tool    *)
(* handlers that change them and the moves of sessions between projects.   *)
(*                                                                         *)
(* A project keeps its members twice: in the table project_members, which  *)
(* every permission is decided on, and in a JSON column of its own row.    *)
(* A handler loads and authorises in one step (projectForAction) and writes*)
(* in later ones, so a write may use a copy that is out of date; each SQL  *)
(* statement or transaction is one step.  A role in either place is        *)
(* RoleNone when the user is not there.  Names, descriptions, games, ports,*)
(* rules and time stamps are display data and left out.                    *)
(***************************************************************************)
EXTENDS Authz, FiniteSets

CONSTANTS
    Users,          \* names that may appear in a project
    NoOne,          \* the empty name
    GlobalAdmins,   \* names whose token carries ":admin"
    ProjectIds,
    Sessions,       \* finished capture sessions that may be moved
    ProjCallers,    \* tool calls in progress at one time
    MaxProjCalls,   \* bound: calls in all
    MaxRestarts     \* bound: restarts of gt-mcp

ASSUME ProjAssumption == GlobalAdmins \subseteq Users /\ NoProject \notin ProjectIds

VARIABLES
    rows,        \* projects: p -> [live, owner, json, plugins]
    tbl,         \* project_members: p -> user -> role
    sess,        \* sessions: s -> [creator, project]
    pcalls,      \* calls in progress: caller -> [op, by, p, user, role, copy, ...]
    everIn,      \* ghost: users someone entitled to it has put into the project
    removed,     \* ghost: users removed from the project and not added since
    projBudget   \* [calls, restarts] left

projVars == <<rows, tbl, sess, pcalls, everIn, removed, projBudget>>

Nobody == [u \in Users |-> RoleNone]
NoRow == [live |-> FALSE, owner |-> NoOne, json |-> Nobody, plugins |-> {}]
NoCopy == [owner |-> NoOne, members |-> Nobody, plugins |-> {}]
ProjIdle == [op |-> "none", by |-> NoOne, p |-> NoProject, user |-> NoOne, role |-> RoleNone, copy |-> NoCopy,
             s |-> NoOne]

ProjInit ==
    /\ rows = [p \in ProjectIds |-> NoRow]
    /\ tbl = [p \in ProjectIds |-> Nobody]
    /\ sess \in [Sessions -> [creator : Users, project : {NoProject}]]
    /\ pcalls = [c \in ProjCallers |-> ProjIdle]
    /\ everIn = [p \in ProjectIds |-> {}]
    /\ removed = [p \in ProjectIds |-> {}]
    /\ projBudget = [calls |-> MaxProjCalls, restarts |-> MaxRestarts]

-----------------------------------------------------------------------------
\* What the store answers.

authzPrincipal(u) == [user |-> u, tenant |-> "default", admin |-> u \in GlobalAdmins]
projectResource == [kind |-> "project", tenant |-> "default", project |-> NoProject, creator |-> NoOne]
sessionResource(s) == [kind |-> "session", tenant |-> "default", project |-> sess[s].project, creator |-> sess[s].creator]

\* The owner's role is in the row, everyone else's in the table.
RoleOf(p, u) ==
    IF ~rows[p].live THEN RoleNone
    ELSE IF rows[p].owner = u THEN RoleOwner ELSE tbl[p][u]

CanOnProject(u, a, p) == Decide(authzPrincipal(u), a, projectResource, RoleOf(p, u))

CanOnSession(u, a, s) ==
    Decide(authzPrincipal(u), a, sessionResource(s),
           IF sess[s].project = NoProject THEN RoleNone ELSE RoleOf(sess[s].project, u))

\* Mutant: who asks to change the project is not checked.
projectForAction_ReadOnlyChecked(u, a, p) == rows[p].live /\ (a = "project_read" => CanOnProject(u, a, p))

\* The project is there and the caller may do a with it: everything else is
\* answered "not found".
projectForAction(u, a, p) == rows[p].live /\ CanOnProject(u, a, p)

\* Get: the row, with the members of the table.
Get(p) == [owner |-> rows[p].owner, members |-> tbl[p], plugins |-> rows[p].plugins]

\* list_projects and everything derived from it filters on the JSON column.
visibleTo(p, u) == rows[p].owner = u \/ rows[p].json[u] # RoleNone
ListVisible(u, all) == {p \in ProjectIds : rows[p].live /\ (all \/ visibleTo(p, u))}

\* The sessions list_sessions and get_project show to u.
visibleSessionFilter(u) ==
    IF u \in GlobalAdmins THEN Sessions
    ELSE {s \in Sessions : sess[s].creator = u \/ sess[s].project \in ListVisible(u, FALSE)}
handleGetProject(u, p) ==
    IF projectForAction(u, "project_read", p) THEN {s \in Sessions : sess[s].project = p} ELSE {}

\* Owners whose plugins u may name: those of the projects he sees.
pluginOwnersFor(u) == UNION {rows[p].plugins : p \in ListVisible(u, FALSE)} \ {u}

\* What get_project tells the user interface the caller may do.
projectCapabilities(u, p) ==
    {a \in DOMAIN projectActionRole \ {"project_read"} : CanOnProject(u, a, p)}

-----------------------------------------------------------------------------
\* The SQL statements.

Update(p, copy) ==
    /\ rows' = IF rows[p].live
               THEN [rows EXCEPT ![p] = [live |-> TRUE, owner |-> copy.owner,
                                         json |-> copy.members, plugins |-> copy.plugins]]
               ELSE rows
    /\ tbl' = [tbl EXCEPT ![p] = copy.members]

AddMember(p, u, r) == tbl' = [tbl EXCEPT ![p][u] = r]
RemoveMember(p, u) == tbl' = [tbl EXCEPT ![p][u] = RoleNone]
TransferOwner(p, new) == rows' = [rows EXCEPT ![p].owner = new]

-----------------------------------------------------------------------------
\* The handlers.  A call that is refused changes nothing and is not a step.

Returns(c) == pcalls' = [pcalls EXCEPT ![c] = ProjIdle]

Spend == projBudget.calls > 0 /\ projBudget' = [projBudget EXCEPT !.calls = @ - 1]

handleCreateProject(u, p) ==
    /\ Spend
    /\ ~rows[p].live /\ everIn[p] = {}          \* newProjectID: never used before
    /\ rows' = [rows EXCEPT ![p] = [NoRow EXCEPT !.live = TRUE, !.owner = u]]
    /\ everIn' = [everIn EXCEPT ![p] = {u}]
    /\ UNCHANGED <<tbl, sess, pcalls, removed>>

\* The first half of every other project handler.
Enter(c, op, a, u, p, user, role) ==
    /\ Spend
    /\ pcalls[c] = ProjIdle
    /\ projectForAction(u, a, p)
    /\ pcalls' = [pcalls EXCEPT ![c] = [ProjIdle EXCEPT !.op = op, !.by = u, !.p = p, !.user = user,
                                                        !.role = role, !.copy = Get(p)]]
    /\ UNCHANGED <<rows, tbl, sess, removed>>

\* Ghost: the caller is entitled to put somebody into p.
Entitled(u, p) == u \in GlobalAdmins \/ RoleOf(p, u) \in {RoleAdmin, RoleOwner}

EnterPlain(c, op, a, u, p) == Enter(c, op, a, u, p, u, RoleNone) /\ UNCHANGED everIn

EnterAddMember(c, u, p, user, role) ==
    /\ user # rows[p].owner
    /\ Enter(c, "add", "manage_members", u, p, user, role)
    /\ everIn' = [everIn EXCEPT ![p] = IF Entitled(u, p) THEN @ \cup {user} ELSE @]

EnterRemoveMember(c, u, p, user) ==
    /\ user # rows[p].owner
    /\ Enter(c, "remove", "manage_members", u, p, user, RoleNone)
    /\ UNCHANGED everIn

EnterTransfer(c, u, p, user) ==
    /\ user # rows[p].owner
    /\ Enter(c, "transfer", "transfer_owner", u, p, user, RoleNone)
    /\ UNCHANGED everIn

handleUpdateProject(c) ==
    LET k == pcalls[c] IN
    /\ k.op = "update"
    /\ Update(k.p, k.copy)
    /\ Returns(c)
    /\ UNCHANGED <<sess, everIn, removed, projBudget>>

\* The entries without an owner get the caller's name.
handleSetProjectPlugins(c) ==
    LET k == pcalls[c] IN
    /\ k.op = "plugins"
    /\ \E named \in SUBSET {k.copy.owner} : Update(k.p, [k.copy EXCEPT !.plugins = named \cup {k.by}])
    /\ Returns(c)
    /\ UNCHANGED <<sess, everIn, removed, projBudget>>

\* Rules are display data: what is left is the rewrite of the rest.
handleSetProjectRules(c) ==
    LET k == pcalls[c] IN
    /\ k.op = "rules"
    /\ Update(k.p, k.copy)
    /\ Returns(c)
    /\ UNCHANGED <<sess, everIn, removed, projBudget>>

handleDeleteProject(c) ==
    LET k == pcalls[c] IN
    /\ k.op = "delete"
    /\ rows' = [rows EXCEPT ![k.p].live = FALSE]
    /\ tbl' = [tbl EXCEPT ![k.p] = Nobody]
    /\ Returns(c)
    /\ UNCHANGED <<sess, everIn, removed, projBudget>>

handleAddProjectMember(c) ==
    LET k == pcalls[c] IN
    /\ k.op = "add"
    /\ AddMember(k.p, k.user, k.role)
    /\ removed' = [removed EXCEPT ![k.p] = @ \ {k.user}]
    /\ Returns(c)
    /\ UNCHANGED <<rows, sess, everIn, projBudget>>

handleRemoveProjectMember(c) ==
    LET k == pcalls[c] IN
    /\ k.op = "remove"
    /\ RemoveMember(k.p, k.user)
    /\ removed' = [removed EXCEPT ![k.p] = IF tbl[k.p][k.user] # RoleNone THEN @ \cup {k.user} ELSE @]
    /\ Returns(c)
    /\ UNCHANGED <<rows, sess, everIn, projBudget>>

\* transfer_project_owner: the new owner is a member, then a compare-and-set,
\* then the two member rows, each of which may fail and is only logged.
handleTransferProjectOwner(c) ==
    LET k == pcalls[c] IN
    \/ /\ k.op = "transfer"
       /\ pcalls' = [pcalls EXCEPT ![c] = IF RoleOf(k.p, k.user) \in {RoleAdmin, RoleMember}
                                          THEN [k EXCEPT !.op = "cas"] ELSE ProjIdle]
       /\ UNCHANGED <<rows, tbl, sess, everIn, removed, projBudget>>
    \/ /\ k.op = "cas"
       /\ IF rows[k.p].live /\ rows[k.p].owner = k.copy.owner
          THEN TransferOwner(k.p, k.user) /\ pcalls' = [pcalls EXCEPT ![c].op = "demote"]
          ELSE Returns(c) /\ UNCHANGED rows
       /\ UNCHANGED <<tbl, sess, everIn, removed, projBudget>>
    \/ /\ k.op = "demote"
       /\ \/ AddMember(k.p, k.copy.owner, RoleAdmin) /\ removed' = [removed EXCEPT ![k.p] = @ \ {k.copy.owner}]
          \/ UNCHANGED <<tbl, removed>>
       /\ pcalls' = [pcalls EXCEPT ![c].op = "drop"]
       /\ UNCHANGED <<rows, sess, everIn, projBudget>>
    \/ /\ k.op = "drop"
       /\ RemoveMember(k.p, k.user) \/ UNCHANGED tbl
       /\ Returns(c)
       /\ UNCHANGED <<rows, sess, everIn, removed, projBudget>>

\* move_session_to_project: the checks, then one UPDATE.
EnterMove(c, u, s, p) ==
    /\ Spend
    /\ pcalls[c] = ProjIdle
    /\ CanOnSession(u, "session_move", s)
    /\ p # NoProject => projectForAction(u, "project_read", p)
    /\ pcalls' = [pcalls EXCEPT ![c] = [ProjIdle EXCEPT !.op = "move", !.by = u, !.s = s, !.p = p]]
    /\ UNCHANGED <<rows, tbl, sess, everIn, removed>>

MoveSessionToProject(s, p) == [sess EXCEPT ![s].project = p]
moveSessionToProject(c) ==
    LET k == pcalls[c] IN
    /\ k.op = "move"
    /\ sess' = MoveSessionToProject(k.s, k.p)
    /\ Returns(c)
    /\ UNCHANGED <<rows, tbl, everIn, removed, projBudget>>

\* Every start of gt-mcp inserts into the table the members the JSON column
\* has and the table has not (INSERT OR IGNORE).  Calls in progress are lost.
migrateMembersJSONToTable ==
    tbl' = [p \in ProjectIds |->
               IF ~rows[p].live THEN tbl[p]
               ELSE [u \in Users |-> IF tbl[p][u] = RoleNone THEN rows[p].json[u] ELSE tbl[p][u]]]

ProjRestart ==
    /\ projBudget.restarts > 0
    /\ projBudget' = [projBudget EXCEPT !.restarts = @ - 1]
    /\ pcalls' = [c \in ProjCallers |-> ProjIdle]
    /\ migrateMembersJSONToTable
    /\ UNCHANGED <<rows, sess, everIn, removed>>

ProjEnter(c, u) ==
    \/ \E p \in ProjectIds :
          \/ EnterPlain(c, "update", "project_update", u, p)
          \/ EnterPlain(c, "delete", "project_delete", u, p)
          \/ EnterPlain(c, "plugins", "manage_plugins", u, p)
          \/ EnterPlain(c, "rules", "manage_rules", u, p)
          \/ \E user \in Users : \/ \E r \in {RoleMember, RoleAdmin} : EnterAddMember(c, u, p, user, r)
                                 \/ EnterRemoveMember(c, u, p, user)
                                 \/ EnterTransfer(c, u, p, user)
    \/ \E s \in Sessions, p \in ProjectIds \cup {NoProject} : EnterMove(c, u, s, p)

ProjFinish(c) ==
    \/ handleUpdateProject(c) \/ handleDeleteProject(c)
    \/ handleSetProjectPlugins(c) \/ handleSetProjectRules(c)
    \/ handleAddProjectMember(c) \/ handleRemoveProjectMember(c)
    \/ handleTransferProjectOwner(c) \/ moveSessionToProject(c)

ProjNext ==
    \/ \E u \in Users, p \in ProjectIds : handleCreateProject(u, p)
    \/ \E c \in ProjCallers : (\E u \in Users : ProjEnter(c, u)) \/ ProjFinish(c)
    \/ ProjRestart

ProjSpec == ProjInit /\ [][ProjNext]_projVars

-----------------------------------------------------------------------------
\* Whoever may read a project, a session in it or its plugins' owners, or finds
\* it listed, was put into it by its creator, by one of its administrators or by
\* a global administrator: whatever calls overlap, copies are out of date,
\* ownership changes hands or gt-mcp restarts (project_store.go, authz.go).
OnlyInvited ==
    \A u \in Users \ GlobalAdmins :
        /\ \A p \in ProjectIds :
              /\ projectForAction(u, "project_read", p) => u \in everIn[p]
              /\ p \in ListVisible(u, FALSE) => u \in everIn[p]
              /\ handleGetProject(u, p) # {} \/ projectCapabilities(u, p) # {} => u \in everIn[p]
        /\ pluginOwnersFor(u) \subseteq UNION {rows[p].plugins : p \in {q \in ProjectIds : u \in everIn[q]}}
        /\ \A s \in Sessions :
              \/ sess[s].creator = u
              \/ sess[s].project # NoProject /\ u \in everIn[sess[s].project]
              \/ ~CanOnSession(u, "session_read", s) /\ s \notin visibleSessionFilter(u)

\* Somebody remove_project_member has removed has no role until he is added
\* again (project_store.go keeps both places in step, "write both").
RemovedStaysOut ==
    \A p \in ProjectIds : \A u \in removed[p] : rows[p].live => RoleOf(p, u) = RoleNone

=============================================================================
