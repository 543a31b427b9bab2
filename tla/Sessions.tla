------------------------------ MODULE Sessions ------------------------------
(* Control-plane accounts and session cookies: first-run setup, password and   *)
(* OIDC login, password change and logout-all (archon/setup.py), the cookie    *)
(* check on every request (archon/admin_auth.py, sessions.py, rbac.py) and the *)
(* role and enabled changes of the users API (archon/api.py) over UserRepo.    *)
(*                                                                            *)
(* A session is valid while three numbers in it equal three that are stored:   *)
(* the signing secret, the global session version and the user's own version.  *)
(* Whoever ends sessions raises a version, one of several statements of a      *)
(* handler, while logins read the same numbers one at a time.                  *)
(*                                                                            *)
(* Only logins with the right password are taken: the others change nothing.   *)
(* Cookies do not age.                                                         *)
EXTENDS Naturals, FiniteSets

CONSTANTS
    Users,          \* usernames, one of them Admin
    Admin,          \* the username setup creates
    Federated,      \* users who may also come from the identity provider
    Ids,            \* session cookies that can be issued, and logins under way
    Grantable,      \* roles that requests and group mappings give
    Attempts,       \* values of `state` in OIDC logins
    Handlers,       \* requests that change accounts, under way at once
    MaxOps,         \* bound on such requests, one that dies half way counting twice
    BreakGlass,     \* ACROPOLIS_ADMIN_TOKEN is set
    Jit,            \* oidc jit_provisioning
    Anyone,         \* the caller with no session
    None            \* no user, no attempt, no role

ASSUME SessionsAssumption ==
    /\ Admin \in Users /\ Federated \subseteq Users \ {Admin}
    /\ Grantable \subseteq {"viewer", "operator", "admin"}
    /\ BreakGlass \in BOOLEAN /\ Jit \in BOOLEAN
    /\ Anyone \notin Ids /\ None \notin Users /\ None \notin Attempts
    /\ MaxOps \in Nat

(* ROLE_RANK.                                                                  *)
Rank == [viewer |-> 10, operator |-> 20, admin |-> 30]
Roles == DOMAIN Rank

VARIABLES
    hash,           \* the settings hold admin_password_hash
    secret,         \* session_secret: 0 for none, else which setup wrote it
    version,        \* session_version
    users,          \* the users table: [there, role, enabled, sv, pw]
    session,        \* cookies and logins under way: [pc, user, secret, gv, sv]
    attempt,        \* AttemptStore: "free", "waiting" or "gone"
    handler,        \* requests under way: [pc, user, role, before, n, sv, out]
    ended,          \* ghost: sessions of a user ended by a request that has returned
    endedAll,       \* ghost: sessions ended by a logout-all that has returned
    lost,           \* ghost: the session version was put back to a lower one
    winners,        \* ghost: setups that reported success
    cutShort,       \* ghost: a setup died between its two writes
    record,         \* ghost: each user's role as first stored, then as user.role_change events say
    raced,          \* ghost: users with two role changes at once, or one cut short
    ops             \* requests begun, and requests dead

accounts == <<hash, secret, version, users>>
ghosts == <<ended, endedAll, lost, winners, cutShort, record, raced>>
svars == <<accounts, session, attempt, handler, ghosts, ops>>

NoRow == [there |-> FALSE, role |-> None, enabled |-> FALSE, sv |-> 0, pw |-> FALSE]
Unused == [pc |-> "none", user |-> None, secret |-> 0, gv |-> 0, sv |-> 0]
Failed == [Unused EXCEPT !.pc = "failed"]
Idle == [pc |-> "idle", user |-> None, role |-> None, before |-> None, n |-> 0, sv |-> 0, out |-> {}]

(* A new instance, or one set up by Admin with the other local users created.  *)
SessionsInit ==
    /\ \/ hash = FALSE /\ secret = 0 /\ users = [u \in Users |-> NoRow]
       \/ /\ hash = TRUE /\ secret = 1
          /\ users = [u \in Users |->
                IF u \in Federated THEN NoRow
                ELSE [there |-> TRUE, role |-> IF u = Admin THEN "admin" ELSE "viewer",
                      enabled |-> TRUE, sv |-> 0, pw |-> TRUE]]
    /\ version = 0
    /\ session = [s \in Ids |-> Unused]
    /\ attempt = [a \in Attempts |-> "free"]
    /\ handler = [h \in Handlers |-> Idle]
    /\ ended = {} /\ endedAll = {} /\ lost = FALSE
    /\ winners = 0 /\ cutShort = FALSE
    /\ record = [u \in Users |-> users[u].role] /\ raced = {}
    /\ ops = 0

------------------------------------------------------------------------------
VerifiesUserOnly(s) ==
    /\ session[s].pc = "open"
    /\ session[s].secret = secret
    /\ session[s].sv = users[session[s].user].sv

(* verify_session_token with the user's row and the settings of the moment:    *)
(* signature, global version, the user's version.                              *)
Verifies(s) ==
    /\ session[s].pc = "open"
    /\ session[s].secret = secret
    /\ session[s].gv = version
    /\ session[s].sv = users[session[s].user].sv

(* require_admin for a cookie.  Its reads are several statements; a request    *)
(* that begins after a change has returned sees the change in all of them.     *)
Accepts(s) ==
    /\ hash /\ secret # 0
    /\ Verifies(s)
    /\ users[session[s].user].there
    /\ users[session[s].user].enabled

(* The role require_admin gives a caller: the admin token, the open instance   *)
(* before setup, or the live row of a cookie's user.                           *)
RoleOf(x) ==
    IF x = Anyone THEN IF BreakGlass \/ ~hash THEN "admin" ELSE None
    ELSE IF Accepts(x) THEN users[session[x].user].role ELSE None

Callers == Ids \cup {Anyone}

(* require_role.                                                               *)
RequireRole(x, minimum) ==
    /\ RoleOf(x) \in Roles
    /\ Rank[RoleOf(x)] >= Rank[minimum]

UserOf(x) == IF x = Anyone THEN None ELSE session[x].user

------------------------------------------------------------------------------
(* UserRepo, one statement or transaction each.                                *)
Create(u, role, pw) ==
    users' = [users EXCEPT ![u] = [there |-> TRUE, role |-> role, enabled |-> TRUE, sv |-> 0, pw |-> pw]]
UpdateRole(u, role) == users' = [users EXCEPT ![u].role = role]
SetEnabled(u, on) == users' = [users EXCEPT ![u].enabled = on]
SetPasswordHash(u) == users' = [users EXCEPT ![u].pw = TRUE]
BumpSessionVersion(u) == users' = [users EXCEPT ![u].sv = @ + 1]

At(h, pc) == handler[h].pc = pc
Goto(h, pc) == handler' = [handler EXCEPT ![h].pc = pc]
Return(h) == handler' = [handler EXCEPT ![h] = Idle]
Ready(h) == At(h, "idle") /\ ops < MaxOps
Begin(h, rec) ==
    /\ ops' = ops + 1
    /\ handler' = [handler EXCEPT ![h] = rec]

(* The sessions of a user whose row has been read, open or about to be.        *)
SessionsOf(u) == {s \in Ids : session[s].user = u /\ session[s].pc \in {"secret", "version", "open"}}
Open(s, u, sec, gv, sv) ==
    /\ session[s].pc = "none"
    /\ session' = [session EXCEPT ![s] =
          [pc |-> "open", user |-> u, secret |-> sec, gv |-> gv, sv |-> sv]]

------------------------------------------------------------------------------
(* complete_setup: the check, the settings in one transaction, the user row.   *)
SetupCheck(h) ==
    /\ ~hash
    /\ Begin(h, [Idle EXCEPT !.pc = "setup_store", !.n = ops + 2])
    /\ UNCHANGED <<accounts, session, attempt, ghosts>>

SetupStoreOnly(h) ==
    /\ At(h, "setup_store")
    /\ hash' = TRUE /\ secret' = handler[h].n
    /\ Return(h)
    /\ UNCHANGED <<version, users, session, attempt, ghosts, ops>>

SetupStore(h) ==
    /\ At(h, "setup_store")
    /\ hash' = TRUE /\ secret' = handler[h].n
    /\ Goto(h, "setup_create")
    /\ UNCHANGED <<version, users, session, attempt, ghosts, ops>>

SetupUpserts(h, s) ==
    /\ At(h, "setup_create")
    /\ Create(Admin, "admin", TRUE)
    /\ Open(s, Admin, handler[h].n, 0, 0)
    /\ winners' = winners + 1 /\ record' = [record EXCEPT ![Admin] = "admin"]
    /\ Return(h)
    /\ UNCHANGED <<hash, secret, version, attempt, ended, endedAll, lost, cutShort, raced, ops>>

SetupWins(h, s) ==
    /\ At(h, "setup_create") /\ ~users[Admin].there
    /\ Create(Admin, "admin", TRUE)
    /\ Open(s, Admin, handler[h].n, 0, 0)
    /\ winners' = winners + 1 /\ record' = [record EXCEPT ![Admin] = "admin"]
    /\ Return(h)
    /\ UNCHANGED <<hash, secret, version, attempt, ended, endedAll, lost, cutShort, raced, ops>>

(* UsernameConflictError, which the handler does not catch.                    *)
SetupConflicts(h) ==
    /\ At(h, "setup_create") /\ users[Admin].there
    /\ Return(h)
    /\ UNCHANGED <<accounts, session, attempt, ghosts, ops>>

------------------------------------------------------------------------------
(* login: the user's row, against whose hash the password is verified; the     *)
(* secret; the global version.                                                 *)
LoginRow(s, u) ==
    /\ session[s].pc = "none" /\ hash
    /\ users[u].there /\ users[u].pw /\ users[u].enabled
    /\ session' = [session EXCEPT ![s] = [Unused EXCEPT !.pc = "secret", !.user = u, !.sv = users[u].sv]]
    /\ UNCHANGED <<accounts, attempt, handler, ghosts, ops>>

(* login and the OIDC callback end alike.                                      *)
ReadSecret(s) ==
    /\ session[s].pc = "secret"
    /\ session' = [session EXCEPT ![s] =
          IF secret = 0 THEN Failed ELSE [@ EXCEPT !.pc = "version", !.secret = secret]]
    /\ UNCHANGED <<accounts, attempt, handler, ghosts, ops>>

ReadVersionsLate(s) ==
    /\ session[s].pc = "version"
    /\ session' = [session EXCEPT ![s].pc = "open", ![s].gv = version, ![s].sv = users[session[s].user].sv]
    /\ UNCHANGED <<accounts, attempt, handler, ghosts, ops>>

ReadVersion(s) ==
    /\ session[s].pc = "version"
    /\ session' = [session EXCEPT ![s].pc = "open", ![s].gv = version]
    /\ UNCHANGED <<accounts, attempt, handler, ghosts, ops>>

(* oidc_login: AttemptStore.create.                                            *)
OidcLogin(a) ==
    /\ attempt[a] = "free"
    /\ attempt' = [attempt EXCEPT ![a] = "waiting"]
    /\ UNCHANGED <<accounts, session, handler, ghosts, ops>>

(* An attempt is swept, or evicted by newer ones.                              *)
AttemptGone(a) ==
    /\ attempt[a] = "waiting"
    /\ attempt' = [attempt EXCEPT ![a] = "gone"]
    /\ UNCHANGED <<accounts, session, handler, ghosts, ops>>

(* oidc_callback: AttemptStore.pop, then the provider says who it is.          *)
OidcCallback(s, a, u) ==
    /\ session[s].pc = "none" /\ attempt[a] = "waiting"
    /\ attempt' = [attempt EXCEPT ![a] = "gone"]
    /\ session' = [session EXCEPT ![s] = [Unused EXCEPT !.pc = "subject", !.user = u]]
    /\ UNCHANGED <<accounts, handler, ghosts, ops>>

(* The exchange, the claims, the nonce or the allowlist fails.                 *)
OidcFails(s) ==
    /\ session[s].pc \in {"subject", "jit"}
    /\ session' = [session EXCEPT ![s] = Failed]
    /\ UNCHANGED <<accounts, attempt, handler, ghosts, ops>>

(* get_by_subject.                                                             *)
OidcSubject(s) ==
    LET row == users[session[s].user]
    IN  /\ session[s].pc = "subject"
        /\ \/ row.there /\ row.enabled
              /\ session' = [session EXCEPT ![s].pc = "secret", ![s].sv = row.sv]
           \/ ~row.there /\ Jit
              /\ session' = [session EXCEPT ![s].pc = "jit"]
        /\ UNCHANGED <<accounts, attempt, handler, ghosts, ops>>

OidcJitUnmapped(s, role) ==
    LET u == session[s].user
    IN  /\ session[s].pc = "jit"
        /\ \/ ~users[u].there /\ Create(u, "group", FALSE) /\ record' = [record EXCEPT ![u] = "group"]
           \/ users[u].there /\ users[u].enabled /\ UNCHANGED <<users, record>>
        /\ session' = [session EXCEPT ![s].pc = "secret", ![s].sv = users[u].sv]
        /\ UNCHANGED <<hash, secret, version, attempt, handler, ended, endedAll, lost, winners,
                       cutShort, raced, ops>>

(* get_or_create_from_oidc: of two first logins of a subject, the one whose    *)
(* INSERT fails takes the row of the other.                                    *)
OidcJit(s, role) ==
    LET u == session[s].user
    IN  /\ session[s].pc = "jit"
        /\ \/ ~users[u].there /\ Create(u, role, FALSE) /\ record' = [record EXCEPT ![u] = role]
           \/ users[u].there /\ users[u].enabled /\ UNCHANGED <<users, record>>
        /\ session' = [session EXCEPT ![s].pc = "secret", ![s].sv = users[u].sv]
        /\ UNCHANGED <<hash, secret, version, attempt, handler, ended, endedAll, lost, winners,
                       cutShort, raced, ops>>

------------------------------------------------------------------------------
(* change_password: whose password, by the cookie or Admin; the global version *)
(* read, then written one higher; the hash; the user's version; a new cookie.  *)
PwRow(h, u) ==
    /\ hash
    /\ Begin(h, [Idle EXCEPT !.pc = "pw_version", !.user = IF users[u].there THEN u ELSE None,
                             !.out = SessionsOf(u)])
    /\ UNCHANGED <<accounts, session, attempt, ghosts>>

PwVersion(h) ==
    /\ At(h, "pw_version")
    /\ handler' = [handler EXCEPT ![h].pc = "pw_store", ![h].n = version + 1]
    /\ UNCHANGED <<accounts, session, attempt, ghosts, ops>>

(* The session version is read and written back in two statements.             *)
StoreVersion(h) ==
    /\ version' = handler[h].n
    /\ lost' = (lost \/ handler[h].n < version)

PwStore(h) ==
    /\ At(h, "pw_store")
    /\ StoreVersion(h)
    /\ Goto(h, IF handler[h].user = None THEN "pw_open" ELSE "pw_hash")
    /\ UNCHANGED <<hash, secret, users, session, attempt, ended, endedAll, winners, cutShort,
                   record, raced, ops>>

PwHash(h) ==
    /\ At(h, "pw_hash")
    /\ SetPasswordHash(handler[h].user)
    /\ Goto(h, "pw_bump")
    /\ UNCHANGED <<hash, secret, version, session, attempt, ghosts, ops>>

PwBump(h) ==
    /\ At(h, "pw_bump")
    /\ BumpSessionVersion(handler[h].user)
    /\ handler' = [handler EXCEPT ![h].pc = "pw_open", ![h].sv = users[handler[h].user].sv + 1]
    /\ UNCHANGED <<hash, secret, version, session, attempt, ghosts, ops>>

(* The caller's new cookie.  One that names no user is never accepted.         *)
PwOpen(h, s) ==
    /\ At(h, "pw_open")
    /\ IF handler[h].user = None
       THEN UNCHANGED <<session, ended>>
       ELSE /\ Open(s, handler[h].user, secret, handler[h].n, handler[h].sv)
            /\ ended' = ended \cup handler[h].out
    /\ Return(h)
    /\ UNCHANGED <<accounts, attempt, endedAll, lost, winners, cutShort, record, raced, ops>>

(* logout_all.                                                                 *)
LogoutRead(h) ==
    /\ Begin(h, [Idle EXCEPT !.pc = "logout_store", !.n = version + 1,
                             !.out = {s \in Ids : session[s].pc = "open"}])
    /\ UNCHANGED <<accounts, session, attempt, ghosts>>

LogoutStore(h) ==
    /\ At(h, "logout_store")
    /\ StoreVersion(h)
    /\ endedAll' = endedAll \cup handler[h].out
    /\ Return(h)
    /\ UNCHANGED <<hash, secret, users, session, attempt, ended, winners, cutShort, record, raced,
                   ops>>

------------------------------------------------------------------------------
(* create_user.                                                                *)
CreateStart(h, x, u, role) ==
    /\ RequireRole(x, "admin") /\ u \notin Federated
    /\ Begin(h, [Idle EXCEPT !.pc = "create", !.user = u, !.role = role])
    /\ UNCHANGED <<accounts, session, attempt, ghosts>>

CreateInsert(h) ==
    /\ At(h, "create")
    /\ IF users[handler[h].user].there
       THEN UNCHANGED <<users, record>>
       ELSE /\ Create(handler[h].user, handler[h].role, TRUE)
            /\ record' = [record EXCEPT ![handler[h].user] = handler[h].role]
    /\ Return(h)
    /\ UNCHANGED <<hash, secret, version, session, attempt, ended, endedAll, lost, winners, cutShort,
                   raced, ops>>

ChangingRole(h) == handler[h].pc \in {"role_update", "role_bump", "role_event"}

(* update_user_role: the row as it was, the new role, the version, the event.  *)
RoleStart(h, x, u, role) ==
    /\ RequireRole(x, "admin") /\ users[u].there
    /\ Begin(h, [Idle EXCEPT !.pc = "role_update", !.user = u, !.role = role,
                             !.before = users[u].role, !.out = SessionsOf(u)])
    /\ raced' = IF \E g \in Handlers : ChangingRole(g) /\ handler[g].user = u
                THEN raced \cup {u} ELSE raced
    /\ UNCHANGED <<accounts, session, attempt, ended, endedAll, lost, winners, cutShort, record>>

RoleUpdate(h) ==
    /\ At(h, "role_update")
    /\ UpdateRole(handler[h].user, handler[h].role)
    /\ Goto(h, "role_bump")
    /\ UNCHANGED <<hash, secret, version, session, attempt, ghosts, ops>>

RoleBump(h) ==
    /\ At(h, "role_bump")
    /\ BumpSessionVersion(handler[h].user)
    /\ Goto(h, "role_event")
    /\ UNCHANGED <<hash, secret, version, session, attempt, ghosts, ops>>

RoleEventOfRow(h) ==
    /\ At(h, "role_event")
    /\ record' = IF users[handler[h].user].role # handler[h].role
                 THEN [record EXCEPT ![handler[h].user] = handler[h].role] ELSE record
    /\ ended' = ended \cup handler[h].out
    /\ Return(h)
    /\ UNCHANGED <<accounts, session, attempt, endedAll, lost, winners, cutShort, raced, ops>>

RoleEvent(h) ==
    /\ At(h, "role_event")
    /\ record' = IF handler[h].before # handler[h].role
                 THEN [record EXCEPT ![handler[h].user] = handler[h].role] ELSE record
    /\ ended' = ended \cup handler[h].out
    /\ Return(h)
    /\ UNCHANGED <<accounts, session, attempt, endedAll, lost, winners, cutShort, raced, ops>>

(* update_user_enabled: never for oneself, and only a disabling bumps.         *)
EnabledStart(h, x, u, on) ==
    /\ RequireRole(x, "admin") /\ users[u].there
    /\ on \/ UserOf(x) # u
    /\ Begin(h, [Idle EXCEPT !.pc = IF on THEN "enable" ELSE "disable", !.user = u,
                             !.out = SessionsOf(u)])
    /\ UNCHANGED <<accounts, session, attempt, ghosts>>

Enable(h) ==
    /\ At(h, "enable")
    /\ SetEnabled(handler[h].user, TRUE)
    /\ Return(h)
    /\ UNCHANGED <<hash, secret, version, session, attempt, ghosts, ops>>

Disable(h) ==
    /\ At(h, "disable")
    /\ SetEnabled(handler[h].user, FALSE)
    /\ Goto(h, "disable_bump")
    /\ UNCHANGED <<hash, secret, version, session, attempt, ghosts, ops>>

DisableBump(h) ==
    /\ At(h, "disable_bump")
    /\ BumpSessionVersion(handler[h].user)
    /\ ended' = ended \cup handler[h].out
    /\ Return(h)
    /\ UNCHANGED <<hash, secret, version, session, attempt, endedAll, lost, winners, cutShort, record,
                   raced, ops>>

------------------------------------------------------------------------------
(* A request dies where it is: cancelled, or its process killed.               *)
Crash(h) ==
    /\ handler[h].pc # "idle" /\ ops < MaxOps
    /\ ops' = ops + 1
    /\ cutShort' = (cutShort \/ At(h, "setup_create"))
    /\ raced' = IF ChangingRole(h) THEN raced \cup {handler[h].user} ELSE raced
    /\ Return(h)
    /\ UNCHANGED <<accounts, session, attempt, ended, endedAll, lost, winners, record>>

SessionsNext ==
    \/ \E h \in Handlers :
          /\ Ready(h)
          /\ \/ SetupCheck(h) \/ LogoutRead(h) \/ \E u \in Users : PwRow(h, u)
             \/ \E x \in Callers, u \in Users, role \in Grantable :
                   CreateStart(h, x, u, role) \/ RoleStart(h, x, u, role)
             \/ \E x \in Callers, u \in Users, on \in BOOLEAN : EnabledStart(h, x, u, on)
    \/ \E h \in Handlers :
          \/ SetupStore(h) \/ SetupConflicts(h) \/ \E s \in Ids : SetupWins(h, s)
          \/ PwVersion(h) \/ PwStore(h) \/ PwHash(h) \/ PwBump(h) \/ \E s \in Ids : PwOpen(h, s)
          \/ LogoutStore(h)
          \/ CreateInsert(h) \/ RoleUpdate(h) \/ RoleBump(h) \/ RoleEvent(h)
          \/ Enable(h) \/ Disable(h) \/ DisableBump(h)
          \/ Crash(h)
    \/ \E s \in Ids :
          \/ \E u \in Users : LoginRow(s, u)
          \/ ReadSecret(s) \/ ReadVersion(s)
          \/ \E a \in Attempts, u \in Federated : OidcCallback(s, a, u)
          \/ OidcFails(s) \/ OidcSubject(s) \/ \E role \in Grantable : OidcJit(s, role)
    \/ \E a \in Attempts : OidcLogin(a) \/ AttemptGone(a)

------------------------------------------------------------------------------
Pcs == {"idle", "setup_store", "setup_create", "pw_version", "pw_store", "pw_hash", "pw_bump", "pw_open",
        "logout_store", "create", "role_update", "role_bump", "role_event", "enable", "disable",
        "disable_bump"}

SessionsTypeOK ==
    /\ hash \in BOOLEAN /\ secret \in Nat /\ version \in Nat
    /\ users \in [Users -> [there : BOOLEAN, role : Roles \cup {None}, enabled : BOOLEAN, sv : Nat, pw : BOOLEAN]]
    /\ session \in [Ids -> [pc : {"none", "failed", "subject", "jit", "secret", "version", "open"},
                            user : Users \cup {None}, secret : Nat, gv : Nat, sv : Nat]]
    /\ attempt \in [Attempts -> {"free", "waiting", "gone"}]
    /\ handler \in [Handlers -> [pc : Pcs, user : Users \cup {None}, role : Roles \cup {None},
                                 before : Roles \cup {None}, n : Nat, sv : Nat, out : SUBSET Ids]]
    /\ ended \subseteq Ids /\ endedAll \subseteq Ids /\ lost \in BOOLEAN
    /\ winners \in Nat /\ cutShort \in BOOLEAN
    /\ record \in [Users -> Roles \cup {None}] /\ raced \subseteq Users
    /\ ops \in 0..MaxOps

(* A role change, a disabling or a password change that has returned ended     *)
(* every session of the user that stood when it began, and every login that    *)
(* had read the user's row by then, for good: not re-enabling, nor any other   *)
(* request, brings one back.                                                   *)
EndedStaysEnded ==
    \A s \in ended : ~Accepts(s)

(* Logout-all ended every session open when it began, for good: also when      *)
(* another writer of the session version overlaps and both store the same      *)
(* number.  Only a writer that several others overtook, and that puts the      *)
(* version back to a lower one, undoes it (logout_all and change_password add  *)
(* one to what they read earlier).                                             *)
LogoutAllHolds ==
    lost \/ \A s \in endedAll : ~Accepts(s)

(* However many setups run at once, one at most reports success: complete_setup *)
(* checks long before it writes, and the uniqueness of the username decides.   *)
SetupWonOnce == winners <= 1

(* Once setup can no longer be run there is an Admin to log in, unless the     *)
(* setup died between the settings and the row.                                *)
SetupLeavesAdmin ==
    hash /\ (\A h \in Handlers : ~At(h, "setup_create")) => users[Admin].there \/ cutShort

(* admin_events tell each user's role, except where two role changes of the    *)
(* user overlapped or one died before its event: the event is written, or left *)
(* out, by a comparison with the row as it was before (update_user_role).      *)
RoleOnRecord ==
    \A u \in Users \ raced :
        (\A h \in Handlers : handler[h].user = u => ~ChangingRole(h)) => record[u] = users[u].role
=============================================================================
