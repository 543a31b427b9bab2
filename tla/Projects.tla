------------------------------ MODULE Projects ------------------------------
(* Projects, their members and what they own (archon/api.py, project_rbac.py,  *)
(* db/repo.py), for callers whom someone else has authenticated: an action     *)
(* takes the caller's global role and user.                                    *)
(*                                                                            *)
(* Every request checks first and writes later.  What holds a deleted project  *)
(* and new rows apart in the end are the foreign keys: members go with their   *)
(* project, servers and keys (0010_projects.sql) and proposals                 *)
(* (0012_proposals_project_scope.sql) forbid that it goes.  A project          *)
(* re-created under its slug is another project.                               *)
EXTENDS Naturals, FiniteSets

CONSTANTS
    People,         \* users who can be members
    Requests,       \* requests under way at once
    MaxProjects,    \* bound on projects ever created
    MemberRoles,    \* roles that members are given
    NoOne           \* no user, no role

ASSUME ProjectsAssumption ==
    /\ NoOne \notin People /\ MaxProjects \in Nat \ {0}
    /\ MemberRoles \subseteq {"viewer", "poweruser", "admin"}

(* PROJECT_ROLE_RANK.                                                          *)
ProjectRank == [viewer |-> 10, poweruser |-> 20, admin |-> 30]
Kinds == {"server", "key", "proposal"}

VARIABLES
    project,        \* the project under the slug, by its number, or 0
    created,        \* projects created so far
    member,         \* project_members of the slug's projects: [project, role]
    owner,          \* the project a server, a key, a proposal belongs to, or 0
    request         \* requests under way: [pc, project, user, role, kind]

pvars == <<project, created, member, owner, request>>

NotMember == [project |-> 0, role |-> NoOne]
Done == [pc |-> "idle", project |-> 0, user |-> NoOne, role |-> NoOne, kind |-> "server"]

ProjectsInit ==
    /\ project = 1 /\ created = 1
    /\ member = [u \in People |-> NotMember]
    /\ owner = [k \in Kinds |-> 0]
    /\ request = [q \in Requests |-> Done]

------------------------------------------------------------------------------
(* resolve_project_role: global admins have every project; others what their   *)
(* membership says, if it says a role there is.                                *)
ResolveProjectRole(role, u, p) ==
    IF role = "admin" THEN "admin"
    ELSE IF u \in People /\ member[u].project = p /\ member[u].role \in DOMAIN ProjectRank
         THEN member[u].role ELSE NoOne

(* require_project_role.                                                       *)
RequireProjectRole(role, u, p, minimum) ==
    LET r == ResolveProjectRole(role, u, p)
    IN  r \in DOMAIN ProjectRank /\ ProjectRank[r] >= ProjectRank[minimum]

Take(q, rec) ==
    /\ request[q].pc = "idle"
    /\ request' = [request EXCEPT ![q] = rec]
Finish(q) == request' = [request EXCEPT ![q] = Done]
ProjectStep(q, pc) == request' = [request EXCEPT ![q].pc = pc]

(* create_project.                                                             *)
CreateProject(q, role) ==
    /\ role = "admin" /\ project = 0 /\ created < MaxProjects
    /\ request[q].pc = "idle"
    /\ created' = created + 1 /\ project' = created + 1
    /\ UNCHANGED <<member, owner, request>>

(* delete_project: the project, its servers, its keys.                         *)
DeleteStart(q, role) ==
    /\ role = "admin" /\ project # 0
    /\ Take(q, [Done EXCEPT !.pc = "servers", !.project = project])
    /\ UNCHANGED <<project, created, member, owner>>

DeleteCheck(q, kind, next) ==
    /\ IF owner[kind] = request[q].project THEN Finish(q) ELSE ProjectStep(q, next)
    /\ UNCHANGED <<project, created, member, owner>>

DeleteServers(q) == request[q].pc = "servers" /\ DeleteCheck(q, "server", "keys")
DeleteKeys(q) == request[q].pc = "keys" /\ DeleteCheck(q, "key", "get")

(* ProjectRepo.delete looks the slug up again, then deletes by number.         *)
DeleteGet(q) ==
    /\ request[q].pc = "get"
    /\ IF project = 0 THEN Finish(q)
       ELSE request' = [request EXCEPT ![q].pc = "delete", ![q].project = project]
    /\ UNCHANGED <<project, created, member, owner>>

DeletableAlways(p) == p # 0

(* The database's answer to a DELETE of a project: nothing refers to it.       *)
Deletable(p) == \A k \in Kinds : owner[k] # p
(* ... and to an INSERT that names one: it exists.                             *)
Referable(p) == p = project

DeleteRow(q) ==
    /\ request[q].pc = "delete"
    /\ LET p == request[q].project
       IN  IF Referable(p) /\ Deletable(p)
           THEN /\ project' = 0
                /\ member' = [u \in People |-> IF member[u].project = p THEN NotMember ELSE member[u]]
           ELSE UNCHANGED <<project, member>>
    /\ Finish(q)
    /\ UNCHANGED <<created, owner>>

------------------------------------------------------------------------------
(* upsert_project_member and remove_project_member: the caller's role, the     *)
(* project and the user first, the row later.                                  *)
MemberStart(q, role, u, target, new) ==
    /\ project # 0 /\ RequireProjectRole(role, u, project, "admin")
    /\ new = NoOne => member[target].project = project
    /\ Take(q, [Done EXCEPT !.pc = IF new = NoOne THEN "remove" ELSE "upsert",
                            !.project = project, !.user = target, !.role = new])
    /\ UNCHANGED <<project, created, member, owner>>

MemberUpsert(q) ==
    /\ request[q].pc = "upsert"
    /\ member' = IF Referable(request[q].project)
                 THEN [member EXCEPT ![request[q].user] = [project |-> request[q].project, role |-> request[q].role]]
                 ELSE member
    /\ Finish(q)
    /\ UNCHANGED <<project, created, owner>>

MemberRemove(q) ==
    /\ request[q].pc = "remove"
    /\ member' = IF member[request[q].user].project = request[q].project
                 THEN [member EXCEPT ![request[q].user] = NotMember] ELSE member
    /\ Finish(q)
    /\ UNCHANGED <<project, created, owner>>

(* create_server and create_key: _resolve_project_id, the caller's role there, *)
(* then the INSERT.  A proposal takes the project of the server it is about.   *)
OwnStart(q, role, u, kind) ==
    /\ LET p == IF kind = "proposal" THEN owner["server"] ELSE project
       IN  /\ p # 0
           /\ RequireProjectRole(role, u, p, IF kind = "proposal" THEN "poweruser" ELSE "admin")
           /\ Take(q, [Done EXCEPT !.pc = "own", !.project = p, !.kind = kind])
    /\ UNCHANGED <<project, created, member, owner>>

OwnInsert(q) ==
    /\ request[q].pc = "own"
    /\ owner' = IF owner[request[q].kind] = 0 /\ Referable(request[q].project)
                THEN [owner EXCEPT ![request[q].kind] = request[q].project] ELSE owner
    /\ Finish(q)
    /\ UNCHANGED <<project, created, member>>

(* A server or a key is deleted by an admin of its project; proposals stay.    *)
Disown(q, role, u, kind) ==
    /\ kind # "proposal" /\ owner[kind] # 0 /\ request[q].pc = "idle"
    /\ RequireProjectRole(role, u, owner[kind], "admin")
    /\ owner' = [owner EXCEPT ![kind] = 0]
    /\ UNCHANGED <<project, created, member, request>>

(* A request dies.                                                             *)
RequestDies(q) ==
    /\ request[q].pc # "idle"
    /\ Finish(q)
    /\ UNCHANGED <<project, created, member, owner>>

------------------------------------------------------------------------------
ProjectsTypeOK ==
    /\ project \in 0..MaxProjects /\ created \in 1..MaxProjects
    /\ member \in [People -> [project : 0..MaxProjects, role : MemberRoles \cup {NoOne}]]
    /\ owner \in [Kinds -> 0..MaxProjects]
    /\ request \in [Requests ->
          [pc : {"idle", "servers", "keys", "get", "delete", "upsert", "remove", "own"},
           project : 0..MaxProjects, user : People \cup {NoOne}, role : MemberRoles \cup {NoOne},
           kind : Kinds]]

(* No server, key, proposal or membership is left pointing at a project that   *)
(* is gone, or at another one re-created under its slug, whichever requests    *)
(* checked before and wrote after (delete_project: "refuse rather than         *)
(* orphan").                                                                   *)
NothingOrphaned ==
    /\ \A k \in Kinds : owner[k] # 0 => owner[k] = project
    /\ \A u \in People : member[u].project # 0 => member[u].project = project
=============================================================================
