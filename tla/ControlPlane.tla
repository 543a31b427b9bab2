---------------------------- MODULE ControlPlane ----------------------------
(* The control plane: accounts and sessions (Sessions) decide who a caller of  *)
(* the projects API (Projects) is.  A caller is authenticated when a request   *)
(* begins; what changes about them while it runs no longer matters to it.      *)
EXTENDS Sessions, Projects

vars == <<svars, pvars>>

Spend == ops < MaxOps /\ ops' = ops + 1 /\ UNCHANGED <<accounts, session, attempt, handler, ghosts>>
Free == UNCHANGED svars

(* The requests of the projects API that a caller begins.                      *)
ProjectRequest(x) ==
    LET role == RoleOf(x)
        u == UserOf(x)
    IN  /\ Spend
        /\ role \in Roles
        /\ \E q \in Requests :
              \/ CreateProject(q, role) \/ DeleteStart(q, role)
              \/ \E target \in People, new \in MemberRoles \cup {NoOne} :
                    /\ users[target].there
                    /\ MemberStart(q, role, u, target, new)
              \/ \E kind \in Kinds : OwnStart(q, role, u, kind) \/ Disown(q, role, u, kind)

(* Their later steps ask nothing more about the caller.                        *)
ProjectWork ==
    \/ \E q \in Requests :
          /\ Free
          /\ \/ DeleteServers(q) \/ DeleteKeys(q) \/ DeleteGet(q) \/ DeleteRow(q)
             \/ MemberUpsert(q) \/ MemberRemove(q) \/ OwnInsert(q)
    \/ \E q \in Requests : Spend /\ RequestDies(q)

Next ==
    \/ SessionsNext /\ UNCHANGED pvars
    \/ \E x \in Callers : ProjectRequest(x)
    \/ ProjectWork

Init == SessionsInit /\ ProjectsInit
Spec == Init /\ [][Next]_vars

TypeOK == SessionsTypeOK /\ ProjectsTypeOK
=============================================================================
