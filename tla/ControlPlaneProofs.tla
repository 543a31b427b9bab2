------------------------- MODULE ControlPlaneProofs -------------------------
(* The properties of the control plane for any users, logins, requests and     *)
(* projects.  SessionsProofs has the invariants of accounts and sessions and   *)
(* most of their steps; here are the role changes, the logins and the start of *)
(* a request, then the projects, and the two together.                         *)
EXTENDS ControlPlane, SessionsProofs

(* A leaf that names no prover is tried with SMT, with Zenon, and with SMT     *)
(* once more and for longer.                                                   *)
USE SMT, Zenon, SMTT(30)

(* A user's role bookkeeping stands while nothing of it changes.               *)
LEMMA RoleKept ==
    ASSUME NEW u \in Users, RoleOK(u), users'[u].role = users[u].role, record'[u] = record[u],
           \A g \in Handlers :
              \/ /\ ~Changes(g, u) /\ ~Changes(g, u)'
              \/ /\ Changes(g, u) /\ Changes(g, u)'
                 /\ handler'[g].before = handler[g].before /\ handler'[g].role = handler[g].role
                 /\ handler'[g].pc = "role_update" <=> handler[g].pc = "role_update"
    PROVE  RoleOK(u)'
BY DEF RoleOK

(* A row that is created starts its own record: no role change of it can be    *)
(* under way.                                                                  *)
LEMMA RoleCreated ==
    ASSUME SessionsTypeOK, HandlerInv, NEW u \in Users, RoleOK(u), Creates,
           \A g \in Handlers : Changes(g, u)' => Changes(g, u) /\ handler'[g] = handler[g],
           \A g \in Handlers : Changes(g, u) => Changes(g, u)'
    PROVE  RoleOK(u)'
<1>1. PICK v \in Users, role \in Roles \cup {None}, pw \in BOOLEAN :
          ~users[v].there /\ Create(v, role, pw) /\ record' = [record EXCEPT ![v] = role]
  BY Zenon DEF Creates
<1>0. users \in [Users -> UserT] /\ record \in [Users -> Roles \cup {None}] /\ None \notin Users
  BY Constants DEF SessionsTypeOK, UserT
<1>2. CASE u = v
  <2>1. \A g \in Handlers : ~Changes(g, u)
    BY <1>0, <1>1, <1>2 DEF Changes, ChangingRole, HandlerInv, HandlerOK, Begun
  <2>2. users'[u].role = role /\ record'[u] = role
    BY <1>0, <1>1, <1>2 DEF Create
  <2>. QED BY <2>1, <2>2, ZenonT(30) DEF RoleOK
<1>3. CASE u # v
  <2>1. users'[u] = users[u] /\ record'[u] = record[u]
    BY <1>0, <1>1, <1>3 DEF Create
  <2>. QED BY <2>1, RoleKept
<1>. QED BY <1>2, <1>3

(* Statements other than UpdateRole leave every role alone.                    *)
LEMMA RolesKept ==
    ASSUME SessionsTypeOK, NEW v \in Users,
           (\E on : SetEnabled(v, on)) \/ SetPasswordHash(v) \/ BumpSessionVersion(v)
    PROVE  \A u \in Users : users'[u].role = users[u].role
BY DEF SessionsTypeOK, SetEnabled, SetPasswordHash, BumpSessionVersion

(* Each step of a role change keeps the record and the row in step.            *)
LEMMA HandlerStepRole ==
    ASSUME SessionsTypeOK, UsersInv, HandlerInv, RoleInv, NEW h \in Handlers, HandlerStep(h)
    PROVE  RoleInv'
<1>0. /\ \A g \in Handlers \ {h} : handler'[g] = handler[g]
      /\ users \in [Users -> UserT] /\ record \in [Users -> Roles \cup {None}] /\ HandlerOK(h) /\ None \notin Users
      /\ raced \subseteq raced'
  <2>1. raced \subseteq raced'
    BY Zenon DEF HandlerStep, SetupStore, SetupConflicts, SetupWins, PwVersion, PwStore, PwHash, PwBump, PwOpen, LogoutStore,
         CreateInsert, RoleUpdate, RoleBump, RoleEvent, Enable, Disable, DisableBump, Crash, ghosts
  <2>. QED BY <2>1, HandlerStepOwn, Constants DEF SessionsTypeOK, UserT, HandlerInv
<1>. SUFFICES ASSUME NEW u \in Users, u \notin raced' PROVE RoleOK(u)'
  BY DEF RoleInv
<1>1. RoleOK(u)
  BY <1>0 DEF RoleInv
<1>2. \A g \in Handlers \ {h} : (Changes(g, u)' <=> Changes(g, u)) /\ handler'[g] = handler[g]
  BY <1>0 DEF Changes, ChangingRole
<1>3. ASSUME ~ChangingRole(h), ~ChangingRole(h)', users' = users /\ record' = record PROVE RoleOK(u)'
  BY <1>1, <1>2, <1>3, RoleKept DEF Changes
<1>4. ASSUME Return(h) PROVE ~ChangingRole(h)'
  BY <1>4, ReturnFields DEF ChangingRole
<1>5. CASE (\E s \in Ids : SetupWins(h, s)) \/ (CreateInsert(h) /\ users' # users)
  <2>1. ~ChangingRole(h) /\ ~ChangingRole(h)'
    BY <1>4, <1>5, Zenon DEF SetupWins, CreateInsert, At, ChangingRole
  <2>2. Creates
    <3>1. CASE \E s \in Ids : SetupWins(h, s)
      BY <3>1, Constants, Zenon DEF SetupWins, Creates
    <3>2. CASE CreateInsert(h) /\ users' # users
      <4>1. handler[h].user \in Users /\ handler[h].role \in Roles \cup {None}
        BY <1>0, <3>2, Zenon DEF CreateInsert, At, HandlerOK, Certain, SessionsTypeOK
      <4>. QED BY <3>2, <4>1, Zenon DEF CreateInsert, Creates
    <3>. QED BY <1>5, <3>1, <3>2
  <2>. QED BY <1>1, <1>2, <2>1, <2>2, RoleCreated DEF Changes
<1>6. CASE CreateInsert(h) /\ users' = users
  <2>1. handler[h].user \in Users /\ ~ChangingRole(h) /\ ~ChangingRole(h)'
    BY <1>0, <1>4, <1>6 DEF CreateInsert, At, ChangingRole, HandlerOK, Certain
  <2>2. record' = record
    <3>1. CASE users[handler[h].user].there
      BY <1>6, <3>1 DEF CreateInsert
    <3>2. CASE ~users[handler[h].user].there
      <4>1. users' = [users EXCEPT ![handler[h].user] = [there |-> TRUE, role |-> handler[h].role,
                                                         enabled |-> TRUE, sv |-> 0, pw |-> TRUE]]
        BY <1>6, <3>2 DEF CreateInsert, Create
      <4>2. users'[handler[h].user].there
        BY <1>0, <2>1, <4>1, Zenon
      <4>. QED BY <1>6, <3>2, <4>2
    <3>. QED BY <3>1, <3>2
  <2>. QED BY <1>3, <1>6, <2>1, <2>2
<1>7. CASE RoleUpdate(h)
  <2>0. handler[h].user \in Users /\ UpdateRole(handler[h].user, handler[h].role) /\ record' = record /\ handler[h].pc = "role_update"
    BY <1>0, <1>7 DEF RoleUpdate, At, HandlerOK, Certain, ghosts
  <2>1. /\ handler'[h].pc = "role_bump" /\ handler'[h].user = handler[h].user /\ handler'[h].role = handler[h].role
        /\ handler'[h].before = handler[h].before
    BY <1>7, GotoFields DEF RoleUpdate
  <2>2. CASE handler[h].user = u
    <3>1. users'[u].role = handler[h].role
      BY <1>0, <2>0, <2>2 DEF UpdateRole, UserT
    <3>2. Changes(h, u) /\ Changes(h, u)'
      BY <2>0, <2>1, <2>2 DEF Changes, ChangingRole
    <3>3. \A g \in Handlers \ {h} : ~Changes(g, u) /\ ~Changes(g, u)'
      BY <1>1, <1>2, <3>2 DEF RoleOK
    <3>4. handler'[h].before = record'[u]
      BY <1>1, <2>0, <2>1, <3>2 DEF RoleOK
    <3>. QED BY <2>1, <3>1, <3>2, <3>3, <3>4 DEF RoleOK
  <2>3. CASE handler[h].user # u
    <3>1. users'[u].role = users[u].role
      BY <1>0, <2>0, <2>3 DEF UpdateRole
    <3>2. ~Changes(h, u) /\ ~Changes(h, u)'
      BY <2>1, <2>3 DEF Changes
    <3>. QED BY <1>1, <1>2, <2>0, <3>1, <3>2, RoleKept
  <2>. QED BY <2>2, <2>3
<1>8. CASE RoleBump(h)
  <2>0. handler[h].user \in Users /\ BumpSessionVersion(handler[h].user) /\ record' = record /\ handler[h].pc = "role_bump"
    BY <1>0, <1>8 DEF RoleBump, At, HandlerOK, Certain, ghosts
  <2>1. /\ handler'[h].pc = "role_event" /\ handler'[h].user = handler[h].user /\ handler'[h].role = handler[h].role
        /\ handler'[h].before = handler[h].before
    BY <1>8, GotoFields DEF RoleBump
  <2>2. users'[u].role = users[u].role
    BY <2>0, RolesKept
  <2>3. Changes(h, u)' <=> Changes(h, u)
    BY <2>0, <2>1 DEF Changes, ChangingRole
  <2>. QED BY <1>1, <1>2, <2>0, <2>1, <2>2, <2>3, RoleKept
<1>9. CASE RoleEvent(h)
  <2>0. /\ handler[h].user \in Users /\ handler[h].pc = "role_event" /\ users' = users
        /\ record' = IF handler[h].before # handler[h].role
                     THEN [record EXCEPT ![handler[h].user] = handler[h].role] ELSE record
    BY <1>0, <1>9, ZenonT(30) DEF RoleEvent, At, HandlerOK, Certain, accounts
  <2>1. ~ChangingRole(h)'
    BY <1>4, <1>9, ZenonT(30) DEF RoleEvent
  <2>2. CASE handler[h].user = u
    <3>1. Changes(h, u)
      BY <2>0, <2>2 DEF Changes, ChangingRole
    <3>2. \A g \in Handlers : ~Changes(g, u)'
      <4>1. \A g \in Handlers \ {h} : ~Changes(g, u)
        BY <1>1, <3>1 DEF RoleOK
      <4>2. ~Changes(h, u)'
        BY <2>1 DEF Changes
      <4>. QED BY <1>2, <4>1, <4>2
    <3>3. handler[h].before = record[u] /\ users[u].role = handler[h].role
      BY <1>1, <2>0, <3>1 DEF RoleOK
    <3>4. record'[u] = users'[u].role
      BY <1>0, <2>0, <2>2, <3>3
    <3>. QED BY <3>2, <3>4, Zenon DEF RoleOK
  <2>3. CASE handler[h].user # u
    <3>1. record'[u] = record[u]
      BY <1>0, <2>0, <2>3, ZenonT(30)
    <3>2. ~Changes(h, u) /\ ~Changes(h, u)'
      BY <2>1, <2>3, ZenonT(30) DEF Changes
    <3>. QED BY <1>1, <1>2, <2>0, <3>1, <3>2, RoleKept, ZenonT(30)
  <2>. QED BY <2>2, <2>3
<1>10. CASE Crash(h)
  <2>1. /\ users' = users /\ record' = record /\ ~ChangingRole(h)'
        /\ ChangingRole(h) => handler[h].user \in raced'
    BY <1>4, <1>10, Zenon DEF Crash, accounts
  <2>2. ~Changes(h, u) /\ ~Changes(h, u)'
    BY <2>1 DEF Changes
  <2>. QED BY <1>1, <1>2, <2>1, <2>2, RoleKept
<1>11. CASE PwHash(h) \/ PwBump(h) \/ Enable(h) \/ Disable(h) \/ DisableBump(h)
  <2>1. ~ChangingRole(h) /\ handler[h].user \in Users /\ record' = record
    BY <1>0, <1>11, Zenon DEF PwHash, PwBump, Enable, Disable, DisableBump, At, ChangingRole, HandlerOK, Certain, ghosts
  <2>2. users'[u].role = users[u].role
    BY <1>11, <2>1, RolesKept, Zenon DEF PwHash, PwBump, Enable, Disable, DisableBump
  <2>3. ~ChangingRole(h)'
    <3>1. CASE PwHash(h)
      <4>1. Goto(h, "pw_bump")
        BY <3>1 DEF PwHash
      <4>. QED BY <4>1, GotoOther
    <3>2. CASE Disable(h)
      <4>1. Goto(h, "disable_bump")
        BY <3>2 DEF Disable
      <4>. QED BY <4>1, GotoOther
    <3>3. CASE PwBump(h)
      BY <3>3 DEF PwBump, ChangingRole, SessionsTypeOK
    <3>4. CASE Enable(h) \/ DisableBump(h)
      BY <1>4, <3>4, Zenon DEF Enable, DisableBump
    <3>. QED BY <1>11, <3>1, <3>2, <3>3, <3>4
  <2>. QED BY <1>1, <1>2, <2>1, <2>2, <2>3, RoleKept, Zenon DEF Changes
<1>12. CASE SetupStore(h) \/ SetupConflicts(h) \/ PwVersion(h) \/ PwStore(h) \/ (\E s \in Ids : PwOpen(h, s))
            \/ LogoutStore(h)
  <2>1. users' = users /\ record' = record /\ ~ChangingRole(h)
    BY <1>12 DEF SetupStore, SetupConflicts, PwVersion, PwStore, PwOpen, LogoutStore, At, ChangingRole, accounts, ghosts
  <2>2. ~ChangingRole(h)'
    <3>1. CASE SetupStore(h)
      <4>1. Goto(h, "setup_create")
        BY <3>1 DEF SetupStore
      <4>. QED BY <4>1, GotoOther
    <3>2. CASE PwVersion(h)
      BY <3>2 DEF PwVersion, ChangingRole, SessionsTypeOK
    <3>3. CASE PwStore(h)
      <4>1. Goto(h, "pw_open") \/ Goto(h, "pw_hash")
        BY <3>3 DEF PwStore
      <4>2. CASE Goto(h, "pw_open")
        BY <4>2, GotoOther
      <4>3. CASE Goto(h, "pw_hash")
        BY <4>3, GotoOther
      <4>. QED BY <4>1, <4>2, <4>3
    <3>4. CASE Return(h)
      BY <1>4, <3>4
    <3>. QED BY <1>12, <3>1, <3>2, <3>3, <3>4, Zenon DEF SetupConflicts, PwOpen, LogoutStore
  <2>. QED BY <1>3, <2>1, <2>2
<1>. QED BY <1>5, <1>6, <1>7, <1>8, <1>9, <1>10, <1>11, <1>12 DEF HandlerStep

------------------------------------------------------------------------------
(* What beginning a request does.                                              *)
LEMMA StartEffect ==
    ASSUME SessionsTypeOK, NEW h \in Handlers, StartStep(h)
    PROVE  /\ UNCHANGED <<hash, secret, version, users, session, attempt>>
           /\ UNCHANGED <<ended, endedAll, lost, winners, cutShort, record>>
           /\ handler[h].pc = "idle" /\ raced \subseteq raced'
           /\ \A g \in Handlers \ {h} : handler'[g] = handler[g]
           /\ \/ handler'[h].pc = "setup_store"
              \/ /\ handler'[h].pc = "logout_store" /\ handler'[h].n = version + 1
                 /\ handler'[h].out = {s \in Ids : session[s].pc = "open"}
              \/ handler'[h].pc = "create" /\ handler'[h].user \in Users
              \/ /\ handler'[h].pc \in {"pw_version", "role_update", "enable", "disable"}
                 /\ handler'[h].pc # "pw_version" => handler'[h].user \in Users
                 /\ handler'[h].user # None =>
                       handler'[h].user \in Users /\ users[handler'[h].user].there
                       /\ handler'[h].out = SessionsOf(handler'[h].user)
           /\ handler'[h].pc = "role_update" =>
                 /\ handler'[h].before = users[handler'[h].user].role
                 /\ (\E g \in Handlers : Changes(g, handler'[h].user)) => handler'[h].user \in raced'
<1>0. handler \in [Handlers -> HandlerT] /\ None \notin Users /\ handler[h].pc = "idle"
  BY Constants DEF SessionsTypeOK, HandlerT, StartStep, Ready, At
<1>1. CASE SetupCheck(h)
  BY <1>0, <1>1 DEF SetupCheck, Begin, Idle, accounts, ghosts
<1>2. CASE LogoutRead(h)
  BY <1>0, <1>2 DEF LogoutRead, Begin, Idle, accounts, ghosts
<1>3. ASSUME NEW u \in Users, PwRow(h, u)
      PROVE  /\ UNCHANGED <<hash, secret, version, users, session, attempt>>
             /\ UNCHANGED <<ended, endedAll, lost, winners, cutShort, record, raced>>
             /\ \A g \in Handlers \ {h} : handler'[g] = handler[g]
             /\ handler'[h].pc = "pw_version" /\ handler'[h].out = SessionsOf(u)
             /\ handler'[h].user # None => handler'[h].user = u /\ users[u].there
  BY <1>0, <1>3 DEF PwRow, Begin, Idle, accounts, ghosts
<1>4. ASSUME NEW x \in Callers, NEW u \in Users, NEW role \in Grantable, CreateStart(h, x, u, role)
      PROVE  /\ UNCHANGED <<hash, secret, version, users, session, attempt>>
             /\ UNCHANGED <<ended, endedAll, lost, winners, cutShort, record, raced>>
             /\ \A g \in Handlers \ {h} : handler'[g] = handler[g]
             /\ handler'[h].pc = "create" /\ handler'[h].user = u
  BY <1>0, <1>4 DEF CreateStart, Begin, Idle, accounts, ghosts
<1>5. ASSUME NEW x \in Callers, NEW u \in Users, NEW role \in Grantable, RoleStart(h, x, u, role)
      PROVE  /\ UNCHANGED <<hash, secret, version, users, session, attempt>>
             /\ UNCHANGED <<ended, endedAll, lost, winners, cutShort, record>>
             /\ raced \subseteq raced' /\ users[u].there
             /\ \A g \in Handlers \ {h} : handler'[g] = handler[g]
             /\ handler'[h].pc = "role_update" /\ handler'[h].user = u /\ handler'[h].out = SessionsOf(u)
             /\ handler'[h].before = users[u].role
             /\ (\E g \in Handlers : Changes(g, u)) => u \in raced'
  BY <1>0, <1>5 DEF RoleStart, Begin, Idle, accounts, Changes
<1>6. ASSUME NEW x \in Callers, NEW u \in Users, NEW on \in BOOLEAN, EnabledStart(h, x, u, on)
      PROVE  /\ UNCHANGED <<hash, secret, version, users, session, attempt>>
             /\ UNCHANGED <<ended, endedAll, lost, winners, cutShort, record, raced>>
             /\ \A g \in Handlers \ {h} : handler'[g] = handler[g] /\ users[u].there
             /\ handler'[h].pc \in {"enable", "disable"} /\ handler'[h].user = u /\ handler'[h].out = SessionsOf(u)
  BY <1>0, <1>6 DEF EnabledStart, Begin, Idle, accounts, ghosts
<1>7. \/ SetupCheck(h) \/ LogoutRead(h) \/ \E u \in Users : PwRow(h, u)
      \/ \E x \in Callers, u \in Users, role \in Grantable :
             CreateStart(h, x, u, role) \/ RoleStart(h, x, u, role)
      \/ \E x \in Callers, u \in Users, on \in BOOLEAN : EnabledStart(h, x, u, on)
  BY DEF StartStep
<1>8. CASE \E u \in Users : PwRow(h, u)
  BY <1>0, <1>3, <1>8, ZenonT(30)
<1>9. CASE \E x \in Callers, u \in Users, role \in Grantable : CreateStart(h, x, u, role)
  BY <1>0, <1>4, <1>9, ZenonT(30)
<1>10. CASE \E x \in Callers, u \in Users, role \in Grantable : RoleStart(h, x, u, role)
  BY <1>0, <1>5, <1>10, ZenonT(30)
<1>11. CASE \E x \in Callers, u \in Users, on \in BOOLEAN : EnabledStart(h, x, u, on)
  BY <1>0, <1>6, <1>11, ZenonT(30) DEF EnabledStart
<1>. QED BY <1>1, <1>2, <1>7, <1>8, <1>9, <1>10, <1>11, Zenon

(* Beginning a request keeps the invariants.                                   *)
LEMMA StartStepInv ==
    ASSUME SInv, NEW h \in Handlers, StartStep(h)
    PROVE  UsersInv' /\ HandlerInv' /\ EndedInv' /\ VersionInv' /\ SetupInv' /\ SetupLeavesAdmin' /\ RoleInv'
<1>0. /\ SessionsTypeOK /\ UsersInv /\ HandlerInv /\ EndedInv /\ VersionInv /\ SetupInv /\ SetupLeavesAdmin /\ RoleInv
      /\ None \notin Users /\ version \in Nat /\ \A s \in Ids : session[s].gv \in Nat
  BY Constants DEF SInv, SessionsTypeOK
<1>1. /\ users' = users /\ session' = session /\ version' = version /\ hash' = hash
      /\ UNCHANGED <<ended, endedAll, lost, winners, cutShort, record>>
      /\ \A g \in Handlers \ {h} : handler'[g] = handler[g]
      /\ handler[h].pc = "idle" /\ raced \subseteq raced'
  BY <1>0, StartEffect, ZenonT(30)
<1>2. UsersInv' /\ EndedInv' /\ SetupInv'
  BY <1>0, <1>1 DEF UsersInv, EndedInv, SetupInv, Dead
<1>3. HandlerInv'
  <2>1. HandlerOK(h)'
    <3>1. \A u \in Users : \A s \in SessionsOf(u) : OfUser(s, u)'
      BY <1>1, ZenonT(30) DEF SessionsOf, OfUser, RowRead
    <3>2. CASE handler'[h].pc \in {"setup_store", "logout_store", "create"}
      BY <1>0, <3>2, StartEffect, ZenonT(30) DEF HandlerOK, Certain, Begun
    <3>3. CASE handler'[h].pc \notin {"setup_store", "logout_store", "create"}
      <4>1. /\ handler'[h].pc \in {"pw_version", "role_update", "enable", "disable"}
            /\ handler'[h].pc # "pw_version" => handler'[h].user \in Users
            /\ handler'[h].user # None =>
                  handler'[h].user \in Users /\ users[handler'[h].user].there
                  /\ handler'[h].out = SessionsOf(handler'[h].user)
        BY <1>0, <3>3, StartEffect, ZenonT(30)
      <4>. QED BY <1>1, <3>1, <4>1, ZenonT(30) DEF HandlerOK, Certain, Begun, OfUser
    <3>. QED BY <3>2, <3>3
  <2>2. ASSUME NEW g \in Handlers \ {h} PROVE HandlerOK(g)'
    BY <1>0, <1>1, <2>2, ZenonT(30) DEF HandlerInv, HandlerOK, OfUser, Dead
  <2>. QED BY <2>1, <2>2 DEF HandlerInv
<1>4. VersionInv'
  <2>. SUFFICES ASSUME ~lost' PROVE VersionInv'
    BY ZenonT(30) DEF VersionInv
  <2>1. handler'[h].pc \notin {"pw_hash", "pw_bump", "pw_open"}
    BY ZenonT(30), <1>0, StartEffect
  <2>2. ASSUME handler'[h].pc = "logout_store", NEW s \in handler'[h].out
        PROVE  session'[s].pc = "open" /\ session'[s].gv < handler'[h].n
    <3>1. s \in Ids /\ session[s].pc = "open" /\ handler'[h].n = version + 1
      BY <1>0, <2>2, StartEffect, Zenon
    <3>2. session[s].gv <= version
      BY <1>0, <1>1, <3>1 DEF VersionInv
    <3>3. session[s].gv < version + 1
      BY <1>0, <3>1, <3>2
    <3>. QED BY <1>1, <3>1, <3>3
  <2>. QED BY <1>0, <1>1, <2>1, <2>2, ZenonT(30) DEF VersionInv
<1>5. SetupLeavesAdmin'
  BY <1>0, <1>1 DEF SetupLeavesAdmin, At
<1>6. RoleInv'
  <2>. SUFFICES ASSUME NEW u \in Users, u \notin raced' PROVE RoleOK(u)'
    BY DEF RoleInv
  <2>1. RoleOK(u) /\ ~Changes(h, u)
    BY <1>0, <1>1 DEF RoleInv, Changes, ChangingRole
  <2>2. \A g \in Handlers \ {h} : (Changes(g, u)' <=> Changes(g, u)) /\ handler'[g] = handler[g]
    BY <1>1 DEF Changes, ChangingRole
  <2>3. CASE ~Changes(h, u)'
    BY <1>1, <2>1, <2>2, <2>3, RoleKept, ZenonT(30)
  <2>4. CASE Changes(h, u)'
    <3>1. handler'[h].pc = "role_update" /\ handler'[h].user = u
      BY <1>0, <2>4, StartEffect, ZenonT(30) DEF Changes, ChangingRole
    <3>2. handler'[h].before = users[u].role /\ \A g \in Handlers : ~Changes(g, u)
      BY <1>0, <3>1, StartEffect, ZenonT(30)
    <3>3. record[u] = users[u].role
      BY <2>1, <3>2, ZenonT(30) DEF RoleOK
    <3>4. \A g \in Handlers : Changes(g, u)' => g = h
      BY <2>2, <3>2, Zenon
    <3>. QED BY <1>1, <2>4, <3>1, <3>2, <3>3, <3>4, ZenonT(30) DEF RoleOK
  <2>. QED BY <2>3, <2>4
<1>. QED BY <1>2, <1>3, <1>4, <1>5, <1>6

(* A login's step keeps the invariants: it only adds what the versions allow.  *)
LEMMA LoginStepInv ==
    ASSUME SInv, NEW s \in Ids, LoginStep(s)
    PROVE  SInv'
<1>0. /\ SessionsTypeOK /\ UsersInv /\ HandlerInv /\ EndedInv /\ VersionInv /\ SetupInv /\ SetupLeavesAdmin /\ RoleInv
      /\ users \in [Users -> UserT] /\ session \in [Ids -> SessionT] /\ record \in [Users -> Roles \cup {None}]
      /\ ended \subseteq Ids /\ endedAll \subseteq Ids /\ version \in Nat /\ Admin \in Users
      /\ \A g \in Handlers : handler[g].out \subseteq Ids
  BY Constants DEF SInv, SessionsTypeOK, UserT, SessionT
<1>1. /\ UNCHANGED <<hash, secret, version, handler, ended, endedAll, lost, winners, cutShort, raced, ops>>
      /\ (users' = users /\ record' = record) \/ Creates
      /\ attempt' \in [Attempts -> {"free", "waiting", "gone"}]
  BY <1>0, LoginEffect, ZenonT(30)
<1>2. PICK x \in SessionT : Advances(s, x)
  BY <1>0, LoginEffect
<1>3. session' = [session EXCEPT ![s] = x] /\ session' \in [Ids -> SessionT]
      /\ session'[s] = x /\ \A t \in Ids \ {s} : session'[t] = session[t]
  BY <1>0, <1>2, ZenonT(30) DEF Advances
<1>4. users' \in [Users -> UserT] /\ record' \in [Users -> Roles \cup {None}]
  <2>1. ASSUME NEW u \in Users, NEW role \in Roles \cup {None}, NEW pw \in BOOLEAN,
               Create(u, role, pw), record' = [record EXCEPT ![u] = role]
        PROVE  users' \in [Users -> UserT] /\ record' \in [Users -> Roles \cup {None}]
    <3>1. [there |-> TRUE, role |-> role, enabled |-> TRUE, sv |-> 0, pw |-> pw] \in UserT
      BY DEF UserT
    <3>. QED BY <1>0, <2>1, <3>1, Zenon DEF Create
  <2>. QED BY <1>0, <1>1, <2>1, ZenonT(30) DEF Creates
<1>5. Grows /\ Keeps
  BY <1>0, <1>1, <1>2, CreatesGrow, LoginKeeps, ZenonT(30)
<1>6. SessionsTypeOK'
  BY <1>0, <1>1, <1>3, <1>4 DEF SessionsTypeOK, UserT, SessionT
<1>7. UsersInv'
  BY <1>0, <1>2, <1>4, <1>5, UsersInvKept, ZenonT(30) DEF Advances
<1>8. HandlerInv'
  BY <1>0, <1>1, <1>4, <1>5, OtherHandlerOK DEF HandlerInv
<1>9. EndedInv'
  BY <1>0, <1>1, <1>4, <1>5, Stable, ZenonT(30) DEF EndedInv
<1>10. VersionInv'
  <2>. SUFFICES ASSUME ~lost' PROVE VersionInv'
    BY Zenon DEF VersionInv
  <2>1. \A t \in Ids : session[t].pc = "open" => session'[t] = session[t]
    BY ZenonT(30), <1>5 DEF Keeps
  <2>2. \A t \in Ids : session'[t].pc = "open" => session'[t].gv <= version
    <3>. SUFFICES ASSUME NEW t \in Ids, session'[t].pc = "open" PROVE session'[t].gv <= version
      OBVIOUS
    <3>1. CASE t = s
      <4>1. session'[t] = x /\ x.pc = "open"
        BY <1>3, <3>1, Zenon
      <4>2. x.gv = version
        BY <1>2, <4>1, Zenon DEF Advances
      <4>. QED BY <1>0, <4>1, <4>2
    <3>2. CASE t # s
      <4>1. session'[t] = session[t]
        BY <1>0, <1>1, <1>2, <3>2, ZenonT(30) DEF Advances
      <4>. QED BY <1>0, <1>1, <4>1, Zenon DEF VersionInv
    <3>. QED BY <3>1, <3>2
  <2>. QED BY <1>0, <1>1, <2>1, <2>2, ZenonT(30) DEF VersionInv
<1>11. SetupInv' /\ SetupLeavesAdmin'
  BY <1>0, <1>1, <1>5 DEF SetupInv, SetupLeavesAdmin, At, Grows
<1>12. RoleInv'
  <2>. SUFFICES ASSUME NEW u \in Users, u \notin raced' PROVE RoleOK(u)'
    BY DEF RoleInv
  <2>1. RoleOK(u)
    BY <1>0, <1>1, Zenon DEF RoleInv
  <2>2. \A g \in Handlers : (Changes(g, u)' <=> Changes(g, u)) /\ handler'[g] = handler[g]
    BY <1>1 DEF Changes, ChangingRole
  <2>3. CASE users' = users /\ record' = record
    BY <2>1, <2>2, <2>3, RoleKept
  <2>4. CASE Creates
    BY <1>0, <2>1, <2>2, <2>4, RoleCreated, Zenon
  <2>. QED BY <1>1, <2>3, <2>4
<1>. QED BY ZenonT(30), <1>6, <1>7, <1>8, <1>9, <1>10, <1>11, <1>12 DEF SInv

(* Steps that leave accounts, sessions and requests alone.                     *)
LEMMA IdleStepInv ==
    ASSUME SInv, UNCHANGED <<accounts, session, handler, ghosts>>,
           attempt' \in [Attempts -> {"free", "waiting", "gone"}], ops' \in 0..MaxOps
    PROVE  SInv'
<1>1. SessionsTypeOK'
  BY DEF SInv, SessionsTypeOK, accounts, ghosts
<1>2. UsersInv' /\ EndedInv' /\ VersionInv' /\ SetupInv' /\ SetupLeavesAdmin'
  BY ZenonT(30) DEF SInv, UsersInv, EndedInv, VersionInv, SetupInv, SetupLeavesAdmin, Dead, At, accounts, ghosts
<1>3. HandlerInv'
  BY Zenon DEF SInv, HandlerInv, HandlerOK, OfUser, Dead, accounts
<1>4. RoleInv'
  <2>1. users' = users /\ handler' = handler /\ record' = record /\ raced' = raced
    BY DEF accounts, ghosts
  <2>2. \A g \in Handlers, u \in Users : Changes(g, u)' <=> Changes(g, u)
    BY <2>1 DEF Changes, ChangingRole
  <2>3. \A u \in Users : RoleOK(u) => RoleOK(u)'
    BY <2>1, <2>2, ZenonT(30) DEF RoleOK
  <2>. QED BY <2>1, <2>3 DEF SInv, RoleInv
<1>. QED BY <1>1, <1>2, <1>3, <1>4 DEF SInv

(* The invariant holds at first, and every step keeps it.                      *)
LEMMA InitSInv ==
    ASSUME SessionsInit
    PROVE  SInv
<1>0. /\ Idle.pc = "idle" /\ Unused.pc = "none" /\ NoRow.there = FALSE /\ NoRow.sv = 0
  BY Zenon DEF Idle, Unused, NoRow
<1>1. users \in [Users -> UserT]
  <2>1. \A u \in Users : [there |-> TRUE, role |-> IF u = Admin THEN "admin" ELSE "viewer",
                          enabled |-> TRUE, sv |-> 0, pw |-> TRUE] \in UserT
    BY Constants DEF UserT
  <2>. QED BY <2>1, Constants DEF SessionsInit
<1>2. session \in [Ids -> SessionT] /\ handler \in [Handlers -> HandlerT]
  BY Constants DEF SessionsInit
<1>3. record \in [Users -> Roles \cup {None}]
  BY <1>1, Zenon DEF SessionsInit, UserT
<1>4. hash \in BOOLEAN /\ lost \in BOOLEAN /\ cutShort \in BOOLEAN
  BY Zenon DEF SessionsInit
<1>11. secret \in Nat /\ version \in Nat /\ winners \in Nat
  BY DEF SessionsInit
<1>12. ops \in 0..MaxOps
  BY SessionsAssumption DEF SessionsInit
<1>5. SessionsTypeOK
  BY <1>1, <1>2, <1>3, <1>4, <1>11, <1>12, ZenonT(30) DEF SessionsInit, SessionsTypeOK, UserT, SessionT, HandlerT
<1>6. UsersInv
  BY <1>0 DEF SessionsInit, UsersInv, RowRead
<1>7. HandlerInv
  BY <1>0, ZenonT(30) DEF SessionsInit, HandlerInv, HandlerOK, Certain, Begun
<1>8. EndedInv /\ VersionInv
  BY <1>0 DEF SessionsInit, EndedInv, VersionInv
<1>9. SetupInv /\ SetupLeavesAdmin
  BY SessionsAssumption DEF SessionsInit, SetupInv, SetupLeavesAdmin
<1>10. RoleInv
  BY <1>0 DEF SessionsInit, RoleInv, RoleOK, Changes, ChangingRole
<1>. QED BY <1>5, <1>6, <1>7, <1>8, <1>9, <1>10 DEF SInv

(* Every step of the accounts and sessions keeps the invariant.                *)
LEMMA StepSInv ==
    ASSUME SInv, [SessionsNext]_svars
    PROVE  SInv'
<1>1. CASE UNCHANGED svars
  BY <1>1, IdleStepInv, Zenon DEF svars, SInv, SessionsTypeOK
<1>2. ASSUME NEW h \in Handlers, StartStep(h) PROVE SInv'
  BY <1>2, StartType, StartStepInv DEF SInv
<1>3. ASSUME NEW h \in Handlers, HandlerStep(h) PROVE SInv'
  BY <1>3, HandlerStepType, HandlerUsersInv, HandlerStepHandlerInv, HandlerStepEnded, HandlerStepVersion,
     HandlerStepSetup, HandlerStepRole DEF SInv
<1>4. ASSUME NEW s \in Ids, LoginStep(s) PROVE SInv'
  BY <1>4, LoginStepInv
<1>5. CASE AttemptStep
  <2>1. /\ UNCHANGED <<accounts, session, handler, ghosts>> /\ ops' = ops
        /\ attempt' \in [Attempts -> {"free", "waiting", "gone"}]
    BY <1>5 DEF AttemptStep, OidcLogin, AttemptGone, SInv, SessionsTypeOK
  <2>. QED BY <2>1, IdleStepInv, Zenon DEF SInv, SessionsTypeOK
<1>. QED BY <1>1, <1>2, <1>3, <1>4, <1>5, SessionsGroups

(* A dead session, and one behind the global version, is not accepted.         *)
LEMMA SInvImplies ==
    ASSUME SInv
    PROVE  /\ EndedStaysEnded /\ LogoutAllHolds /\ SetupWonOnce /\ SetupLeavesAdmin /\ RoleOnRecord
<1>1. EndedStaysEnded
  <2>. SUFFICES ASSUME NEW s \in ended, Accepts(s) PROVE FALSE
    BY DEF EndedStaysEnded
  <2>1. s \in Ids /\ Dead(s) /\ session[s].pc = "open" /\ session[s].sv = users[session[s].user].sv
    BY DEF SInv, SessionsTypeOK, EndedInv, Accepts, Verifies
  <2>2. session[s].sv < users[session[s].user].sv /\ session[s].sv \in Nat
    BY <2>1 DEF Dead, SInv, SessionsTypeOK
  <2>3. session[s].sv < session[s].sv
    BY <2>1, <2>2
  <2>. QED BY <2>2, <2>3
<1>2. LogoutAllHolds
  <2>. SUFFICES ASSUME ~lost, NEW s \in endedAll, Accepts(s) PROVE FALSE
    BY DEF LogoutAllHolds
  <2>1. s \in Ids /\ session[s].gv < version /\ session[s].gv = version /\ version \in Nat
    BY DEF SInv, SessionsTypeOK, VersionInv, Accepts, Verifies
  <2>. QED BY <2>1
<1>3. SetupWonOnce
  BY DEF SInv, SetupInv, SetupWonOnce
<1>4. RoleOnRecord
  BY Zenon DEF SInv, RoleInv, RoleOK, Changes, RoleOnRecord
<1>. QED BY ZenonT(30), <1>1, <1>2, <1>3, <1>4 DEF SInv

------------------------------------------------------------------------------

RequestT == [pc : {"idle", "servers", "keys", "get", "delete", "upsert", "remove", "own"},
             project : 0..MaxProjects, user : People \cup {NoOne}, role : MemberRoles \cup {NoOne},
             kind : Kinds]
MemberT == [project : 0..MaxProjects, role : MemberRoles \cup {NoOne}]

(* A request that writes a membership names a person.                          *)
RequestsInv ==
    \A q \in Requests : request[q].pc \in {"upsert", "remove"} => request[q].user \in People

PInv == ProjectsTypeOK /\ RequestsInv /\ NothingOrphaned

(* The steps that begin a request of the projects API, and the later ones.     *)
BeginStep(q) ==
    \E role \in Roles, u \in Users \cup {None} :
        \/ CreateProject(q, role) \/ DeleteStart(q, role)
        \/ \E target \in People, new \in MemberRoles \cup {NoOne} : MemberStart(q, role, u, target, new)
        \/ \E kind \in Kinds : OwnStart(q, role, u, kind) \/ Disown(q, role, u, kind)
WorkStep(q) ==
    \/ DeleteServers(q) \/ DeleteKeys(q) \/ DeleteGet(q) \/ DeleteRow(q)
    \/ MemberUpsert(q) \/ MemberRemove(q) \/ OwnInsert(q) \/ RequestDies(q)

(* The records everything starts from.                                         *)
LEMMA ProjectConstants ==
    /\ NotMember \in MemberT /\ Done \in RequestT /\ MaxProjects \in Nat /\ 0 \in 0..MaxProjects
    /\ Done.pc = "idle" /\ NotMember.project = 0 /\ NoOne \notin People
BY ProjectsAssumption DEF NotMember, Done, MemberT, RequestT, Kinds

(* Replacing one request by a typed one keeps the table and what holds of it.  *)
LEMMA RequestReplaced ==
    ASSUME request \in [Requests -> RequestT], RequestsInv, NEW q \in Requests, NEW rec \in RequestT,
           rec.pc \in {"upsert", "remove"} => rec.user \in People,
           request' = [request EXCEPT ![q] = rec]
    PROVE  request' \in [Requests -> RequestT] /\ RequestsInv'
<1>1. request' \in [Requests -> RequestT]
  OBVIOUS
<1>2. \A r \in Requests : request'[r] = IF r = q THEN rec ELSE request[r]
  OBVIOUS
<1>. QED BY <1>1, <1>2 DEF RequestsInv

(* A request that returns, or that moves on without naming anyone.             *)
LEMMA RequestMoves ==
    ASSUME request \in [Requests -> RequestT], RequestsInv, NEW q \in Requests,
           \/ Finish(q)
           \/ \E pc \in {"keys", "get"} : ProjectStep(q, pc)
           \/ project \in 0..MaxProjects /\ request' = [request EXCEPT ![q].pc = "delete", ![q].project = project]
    PROVE  request' \in [Requests -> RequestT] /\ RequestsInv'
<1>1. CASE Finish(q)
  BY Zenon, <1>1, ProjectConstants, RequestReplaced DEF Finish
<1>2. ASSUME NEW pc \in {"keys", "get"}, ProjectStep(q, pc)
      PROVE  request' \in [Requests -> RequestT] /\ RequestsInv'
  <2>1. [request[q] EXCEPT !.pc = pc] \in RequestT /\ [request[q] EXCEPT !.pc = pc].pc = pc
    BY <1>2 DEF RequestT
  <2>2. request' = [request EXCEPT ![q] = [request[q] EXCEPT !.pc = pc]]
    BY <1>2 DEF ProjectStep
  <2>. QED BY Zenon, <1>2, <2>1, <2>2, RequestReplaced
<1>3. CASE project \in 0..MaxProjects /\ request' = [request EXCEPT ![q].pc = "delete", ![q].project = project]
  <2>. DEFINE rec == [request[q] EXCEPT !.pc = "delete", !.project = project]
  <2>1. rec \in RequestT /\ rec.pc = "delete"
    BY ZenonT(30), <1>3 DEF RequestT
  <2>2. request' = [request EXCEPT ![q] = rec]
    BY Zenon, <1>3
  <2>. HIDE DEF rec
  <2>. QED BY Zenon, <2>1, <2>2, RequestReplaced
<1>. QED BY <1>1, <1>2, <1>3

(* Beginning a request of the projects API keeps the invariant: a project is   *)
(* created only where none is, and then nothing refers to one.                 *)
LEMMA BeginPInv ==
    ASSUME PInv, NEW q \in Requests, BeginStep(q)
    PROVE  PInv'
<1>0. /\ request \in [Requests -> RequestT] /\ RequestsInv /\ NothingOrphaned
      /\ project \in 0..MaxProjects /\ created \in 1..MaxProjects
      /\ member \in [People -> MemberT] /\ owner \in [Kinds -> 0..MaxProjects]
  BY Zenon DEF PInv, ProjectsTypeOK, RequestT, MemberT
<1>1. ASSUME NEW rec \in RequestT, rec.pc \in {"upsert", "remove"} => rec.user \in People,
             Take(q, rec), UNCHANGED <<project, created, member, owner>>
      PROVE  PInv'
  <2>1. request' \in [Requests -> RequestT] /\ RequestsInv'
    BY Zenon, <1>0, <1>1, RequestReplaced DEF Take
  <2>. QED BY Zenon, <1>0, <1>1, <2>1 DEF PInv, ProjectsTypeOK, NothingOrphaned, RequestT, MemberT
<1>. PICK role \in Roles, u \in Users \cup {None} :
        \/ CreateProject(q, role) \/ DeleteStart(q, role)
        \/ \E target \in People, new \in MemberRoles \cup {NoOne} : MemberStart(q, role, u, target, new)
        \/ \E kind \in Kinds : OwnStart(q, role, u, kind) \/ Disown(q, role, u, kind)
  BY DEF BeginStep
<1>2. CASE CreateProject(q, role)
  <2>1. created + 1 \in 1..MaxProjects /\ created + 1 \in 0..MaxProjects
    BY <1>0, <1>2, ProjectConstants DEF CreateProject
  <2>2. (\A k \in Kinds : owner[k] = 0) /\ \A p \in People : member[p].project = 0
    BY Zenon, <1>0, <1>2 DEF CreateProject, NothingOrphaned
  <2>3. ProjectsTypeOK' /\ RequestsInv'
    BY <1>0, <1>2, <2>1 DEF CreateProject, ProjectsTypeOK, RequestsInv, RequestT, MemberT
  <2>. QED BY Zenon, <1>2, <2>2, <2>3 DEF CreateProject, PInv, NothingOrphaned
<1>3. CASE DeleteStart(q, role)
  <2>1. [Done EXCEPT !.pc = "servers", !.project = project] \in RequestT
        /\ [Done EXCEPT !.pc = "servers", !.project = project].pc = "servers"
    BY Zenon, <1>0, ProjectConstants DEF Done, RequestT
  <2>. QED BY Zenon, <1>1, <1>3, <2>1 DEF DeleteStart
<1>4. ASSUME NEW target \in People, NEW new \in MemberRoles \cup {NoOne}, MemberStart(q, role, u, target, new)
      PROVE  PInv'
  <2>. DEFINE rec == [Done EXCEPT !.pc = IF new = NoOne THEN "remove" ELSE "upsert",
                                  !.project = project, !.user = target, !.role = new]
  <2>1. rec \in RequestT /\ rec.user = target
    BY Zenon, <1>0, ProjectConstants DEF Done, RequestT
  <2>2. Take(q, rec) /\ UNCHANGED <<project, created, member, owner>>
    BY Zenon, <1>4 DEF MemberStart
  <2>. HIDE DEF rec
  <2>. QED BY <1>1, <2>1, <2>2
<1>5. ASSUME NEW kind \in Kinds, OwnStart(q, role, u, kind) PROVE PInv'
  <2>. DEFINE p == IF kind = "proposal" THEN owner["server"] ELSE project
  <2>. DEFINE rec == [Done EXCEPT !.pc = "own", !.project = p, !.kind = kind]
  <2>1. p \in 0..MaxProjects
    BY Zenon, <1>0 DEF Kinds
  <2>2. Take(q, rec) /\ UNCHANGED <<project, created, member, owner>>
    BY Zenon, <1>5 DEF OwnStart
  <2>. HIDE DEF p
  <2>3. rec \in RequestT /\ rec.pc = "own"
    BY ZenonT(30), <2>1, ProjectConstants DEF Done, RequestT
  <2>. HIDE DEF rec
  <2>. QED BY <1>1, <2>2, <2>3
<1>6. ASSUME NEW kind \in Kinds, Disown(q, role, u, kind) PROVE PInv'
  <2>1. owner' \in [Kinds -> 0..MaxProjects] /\ \A k \in Kinds : owner'[k] = 0 \/ owner'[k] = owner[k]
    BY <1>0, <1>6, ProjectConstants DEF Disown
  <2>. QED BY <1>0, <1>6, <2>1 DEF Disown, PInv, ProjectsTypeOK, RequestsInv, NothingOrphaned, RequestT, MemberT
<1>. QED BY <1>2, <1>3, <1>4, <1>5, <1>6

(* The later steps keep it too: a row is inserted only for the project that is *)
(* there, and the project goes only once nothing refers to it.                 *)
LEMMA WorkPInv ==
    ASSUME PInv, NEW q \in Requests, WorkStep(q)
    PROVE  PInv'
<1>0. /\ request \in [Requests -> RequestT] /\ RequestsInv /\ NothingOrphaned
      /\ project \in 0..MaxProjects /\ created \in 1..MaxProjects
      /\ member \in [People -> MemberT] /\ owner \in [Kinds -> 0..MaxProjects]
      /\ request[q] \in RequestT /\ request[q].kind \in Kinds /\ request[q].project \in 0..MaxProjects
      /\ request[q].role \in MemberRoles \cup {NoOne}
  BY Zenon DEF PInv, ProjectsTypeOK, RequestT, MemberT
<1>1. request' \in [Requests -> RequestT] /\ RequestsInv'
  <2>1. CASE Finish(q)
    BY Zenon, <1>0, <2>1, RequestMoves
  <2>2. CASE DeleteServers(q) \/ DeleteKeys(q)
    <3>1. Finish(q) \/ \E pc \in {"keys", "get"} : ProjectStep(q, pc)
      BY <2>2 DEF DeleteServers, DeleteKeys, DeleteCheck
    <3>. QED BY ZenonT(30), <1>0, <3>1, RequestMoves
  <2>3. CASE DeleteGet(q)
    BY Zenon, <1>0, <2>3, RequestMoves DEF DeleteGet
  <2>. QED BY Zenon, <2>1, <2>2, <2>3 DEF WorkStep, DeleteRow, MemberUpsert, MemberRemove, OwnInsert, RequestDies
<1>2. CASE UNCHANGED <<project, created, member, owner>>
  BY <1>0, <1>1, <1>2 DEF PInv, ProjectsTypeOK, NothingOrphaned, RequestT, MemberT
<1>3. CASE DeleteRow(q)
  <2>1. CASE Referable(request[q].project) /\ Deletable(request[q].project)
    <3>1. /\ project' = 0 /\ created' = created /\ owner' = owner
          /\ member' = [u \in People |-> IF member[u].project = project THEN NotMember ELSE member[u]]
      BY Zenon, <1>3, <2>1 DEF DeleteRow, Referable
    <3>2. \A k \in Kinds : owner'[k] = 0
      BY Zenon, <1>0, <2>1, <3>1 DEF Referable, Deletable, NothingOrphaned
    <3>3. member' \in [People -> MemberT] /\ \A u \in People : member'[u].project = 0
      BY Zenon, <1>0, <3>1, ProjectConstants DEF NothingOrphaned, MemberT
    <3>. QED BY Zenon, <1>0, <1>1, <3>1, <3>2, <3>3, ProjectConstants DEF PInv, ProjectsTypeOK, NothingOrphaned, RequestT, MemberT
  <2>2. CASE ~(Referable(request[q].project) /\ Deletable(request[q].project))
    BY <1>2, <1>3, <2>2 DEF DeleteRow
  <2>. QED BY Zenon, <2>1, <2>2
<1>4. CASE MemberUpsert(q)
  <2>1. CASE Referable(request[q].project)
    <3>. DEFINE row == [project |-> request[q].project, role |-> request[q].role]
    <3>1. row \in MemberT /\ row.project = project /\ request[q].user \in People
      BY ZenonT(30), <1>0, <1>4, <2>1 DEF MemberUpsert, Referable, RequestsInv, MemberT
    <3>2. member' = [member EXCEPT ![request[q].user] = row] /\ UNCHANGED <<project, created, owner>>
      BY Zenon, <1>4, <2>1 DEF MemberUpsert
    <3>. HIDE DEF row
    <3>3. member' \in [People -> MemberT] /\ \A u \in People : member'[u] = row \/ member'[u] = member[u]
      BY Zenon, <1>0, <3>1, <3>2
    <3>. QED BY Zenon, <1>0, <1>1, <3>1, <3>2, <3>3 DEF PInv, ProjectsTypeOK, NothingOrphaned, RequestT, MemberT
  <2>2. CASE ~Referable(request[q].project)
    BY Zenon, <1>2, <1>4, <2>2 DEF MemberUpsert
  <2>. QED BY Zenon, <2>1, <2>2
<1>5. CASE MemberRemove(q)
  <2>1. request[q].user \in People /\ UNCHANGED <<project, created, owner>>
    BY Zenon, <1>0, <1>5 DEF MemberRemove, RequestsInv
  <2>2. member' \in [People -> MemberT] /\ \A u \in People : member'[u] = NotMember \/ member'[u] = member[u]
    BY Zenon, <1>0, <1>5, <2>1, ProjectConstants DEF MemberRemove
  <2>. QED BY Zenon, <1>0, <1>1, <2>1, <2>2, ProjectConstants DEF PInv, ProjectsTypeOK, NothingOrphaned, RequestT, MemberT
<1>6. CASE OwnInsert(q)
  <2>1. UNCHANGED <<project, created, member>>
    BY Zenon, <1>6 DEF OwnInsert
  <2>2. owner' \in [Kinds -> 0..MaxProjects] /\ \A k \in Kinds : owner'[k] = project \/ owner'[k] = owner[k]
    BY Zenon, <1>0, <1>6 DEF OwnInsert, Referable
  <2>. QED BY Zenon, <1>0, <1>1, <2>1, <2>2 DEF PInv, ProjectsTypeOK, NothingOrphaned, RequestT, MemberT
<1>. QED BY Zenon, <1>2, <1>3, <1>4, <1>5, <1>6
     DEF WorkStep, DeleteServers, DeleteKeys, DeleteCheck, DeleteGet, RequestDies

------------------------------------------------------------------------------
IInv == SInv /\ PInv

(* Nothing is there yet that an owner, a member or a request could point at.   *)
LEMMA InitPInv ==
    ASSUME ProjectsInit
    PROVE  PInv
<1>1. project \in 0..MaxProjects /\ created \in 1..MaxProjects
  BY ProjectsAssumption DEF ProjectsInit
<1>2. member \in [People -> MemberT] /\ owner \in [Kinds -> 0..MaxProjects] /\ request \in [Requests -> RequestT]
  BY ProjectConstants DEF ProjectsInit
<1>3. RequestsInv /\ NothingOrphaned
  BY Zenon, ProjectConstants DEF ProjectsInit, RequestsInv, NothingOrphaned
<1>. QED BY <1>1, <1>2, <1>3 DEF PInv, ProjectsTypeOK, MemberT, RequestT

(* A request of the projects API only counts among the requests.               *)
LEMMA SpendSInv ==
    ASSUME SInv, Spend
    PROVE  SInv'
<1>1. ops' \in 0..MaxOps
  BY SessionsAssumption DEF SInv, SessionsTypeOK, Spend
<1>. QED BY Zenon, <1>1, IdleStepInv DEF SInv, SessionsTypeOK, Spend

(* Every step keeps both halves.                                               *)
LEMMA StepIInv ==
    ASSUME IInv, [Next]_vars
    PROVE  IInv'
<1>1. CASE UNCHANGED pvars /\ [SessionsNext]_svars
  <2>1. PInv'
    BY <1>1 DEF IInv, PInv, ProjectsTypeOK, RequestsInv, NothingOrphaned, pvars
  <2>. QED BY Zenon, <1>1, <2>1, StepSInv DEF IInv
<1>2. ASSUME NEW x \in Callers, ProjectRequest(x) PROVE IInv'
  <2>1. Spend /\ RoleOf(x) \in Roles
    BY Zenon, <1>2 DEF ProjectRequest
  <2>2. UserOf(x) \in Users \cup {None}
    BY ZenonT(30) DEF IInv, SInv, SessionsTypeOK, UserOf, Callers
  <2>3. PICK q \in Requests :
          \/ CreateProject(q, RoleOf(x)) \/ DeleteStart(q, RoleOf(x))
          \/ \E target \in People, new \in MemberRoles \cup {NoOne} :
                users[target].there /\ MemberStart(q, RoleOf(x), UserOf(x), target, new)
          \/ \E kind \in Kinds : OwnStart(q, RoleOf(x), UserOf(x), kind) \/ Disown(q, RoleOf(x), UserOf(x), kind)
    BY <1>2 DEF ProjectRequest
  <2>4. BeginStep(q)
    BY <2>1, <2>2, <2>3, Zenon DEF BeginStep
  <2>. QED BY Zenon, <2>1, <2>4, SpendSInv, BeginPInv DEF IInv
<1>3. CASE ProjectWork
  <2>1. PICK q \in Requests : WorkStep(q) /\ (Free \/ Spend)
    BY <1>3, Zenon DEF ProjectWork, WorkStep
  <2>2. SInv'
    BY <2>1, SpendSInv, StepSInv DEF IInv, Free
  <2>. QED BY <2>1, <2>2, WorkPInv DEF IInv
<1>. QED BY <1>1, <1>2, <1>3 DEF Next, vars

(* IInv is an invariant of the control plane.                                  *)
THEOREM Inductive == Spec => []IInv
<1>1. Init => IInv
  BY InitSInv, InitPInv DEF Init, IInv
<1>2. IInv /\ [Next]_vars => IInv'
  BY StepIInv
<1>. QED BY <1>1, <1>2, PTL DEF Spec

(* Rows, cookies, requests and projects keep their types.                      *)
THEOREM Types == Spec => []TypeOK
<1>1. IInv => TypeOK
  BY DEF IInv, SInv, PInv, TypeOK
<1>. QED BY <1>1, Inductive, PTL

(* What a role change, a disabling or a password change ended stays ended,     *)
(* however logins and requests of that and other users interleave: the user's  *)
(* version only grows (bump_session_version), and a login copies the version   *)
(* of the row it checked.                                                      *)
THEOREM SessionsStayEnded == Spec => []EndedStaysEnded
<1>1. IInv => EndedStaysEnded
  BY SInvImplies DEF IInv
<1>. QED BY <1>1, Inductive, PTL

(* Logout-all is final unless a session version was written over a newer one   *)
(* (logout_all and change_password write one more than they read).             *)
THEOREM LogoutAllIsFinal == Spec => []LogoutAllHolds
<1>1. IInv => LogoutAllHolds
  BY SInvImplies DEF IInv
<1>. QED BY <1>1, Inductive, PTL

(* At most one of any number of concurrent setups succeeds (complete_setup).   *)
THEOREM SetupOnce == Spec => []SetupWonOnce
<1>1. IInv => SetupWonOnce
  BY SInvImplies DEF IInv
<1>. QED BY <1>1, Inductive, PTL

(* Setup closes with an Admin in the table unless it died half way             *)
(* (complete_setup writes the settings before the row).                        *)
THEOREM SetupKeepsAnAdmin == Spec => []SetupLeavesAdmin
<1>1. IInv => SetupLeavesAdmin
  BY SInvImplies DEF IInv
<1>. QED BY <1>1, Inductive, PTL

(* The events of update_user_role tell every user's role, but for users whose  *)
(* role changes overlapped or died.                                            *)
THEOREM RolesAreOnRecord == Spec => []RoleOnRecord
<1>1. IInv => RoleOnRecord
  BY SInvImplies DEF IInv
<1>. QED BY <1>1, Inductive, PTL

(* Nothing points at a project that is gone, whatever the requests of the      *)
(* projects API checked before they wrote: the foreign keys hold them apart.   *)
THEOREM NoOrphans == Spec => []NothingOrphaned
<1>1. IInv => NothingOrphaned
  BY DEF IInv, PInv
<1>. QED BY <1>1, Inductive, PTL
=============================================================================
