--------------------------- MODULE SessionsProofs ---------------------------
(* The inductive invariants behind the session and account properties of       *)
(* Sessions, and that the steps of a request under way keep them, for any      *)
(* users, any number of logins and requests at once and any number of steps.   *)
(* ControlPlaneProofs goes on with role changes, logins and whole steps.       *)
EXTENDS Sessions, TLAPS

(* A leaf that names no prover is tried with SMT, with Zenon, and with SMT     *)
(* once more and for longer.                                                   *)
USE SMT, Zenon, SMTT(30)

(* A login that has read its user's row, and the session it becomes.           *)
RowRead == {"secret", "version", "open"}

(* The versions of rows that are not there are fresh, and a session's user     *)
(* version is never ahead of the row's.                                        *)
UsersInv ==
    /\ \A u \in Users : ~users[u].there => users[u].sv = 0
    /\ \A s \in Ids : session[s].pc \in {"subject", "jit"} => session[s].user \in Users
    /\ \A s \in Ids : session[s].pc \in RowRead =>
          /\ session[s].user \in Users
          /\ users[session[s].user].there
          /\ session[s].sv <= users[session[s].user].sv

OfUser(s, u) == session[s].pc = "failed" \/ (session[s].pc \in RowRead /\ session[s].user = u)
Dead(s) == session[s].pc = "failed" \/ (session[s].pc \in RowRead /\ session[s].sv < users[session[s].user].sv)

(* The user a request is about exists, the sessions it is to end are that      *)
(* user's, and once it has raised the user's version they are behind.          *)
Begun == {"pw_version", "pw_store", "pw_hash", "pw_bump", "role_update", "role_bump", "disable", "disable_bump"}
Certain == {"pw_hash", "pw_bump", "role_update", "role_bump", "role_event", "enable", "disable", "disable_bump", "create"}
HandlerOK(h) ==
    /\ handler[h].pc \in Certain => handler[h].user \in Users
    /\ handler[h].pc \in Begun \cup {"pw_open", "role_event", "enable"} /\ handler[h].user # None
       => users[handler[h].user].there
    /\ handler[h].pc \in Begun /\ handler[h].user # None
       => \A s \in handler[h].out : OfUser(s, handler[h].user)
    /\ handler[h].pc \in {"pw_open", "role_event"} /\ handler[h].user # None
       => \A s \in handler[h].out : Dead(s)
    /\ handler[h].pc = "pw_open" /\ handler[h].user # None
       => handler[h].sv <= users[handler[h].user].sv
HandlerInv == \A h \in Handlers : HandlerOK(h)

EndedInv == \A s \in ended : Dead(s)

(* While the version was not put back to a lower one: no session is ahead of   *)
(* the global version, and those a logout-all is to end stay behind the        *)
(* version it writes.                                                          *)
VersionInv ==
    ~lost =>
        /\ \A s \in Ids : session[s].pc = "open" => session[s].gv <= version
        /\ \A h \in Handlers : handler[h].pc \in {"pw_hash", "pw_bump", "pw_open"} => handler[h].n <= version
        /\ \A h \in Handlers : handler[h].pc = "logout_store" =>
              \A s \in handler[h].out : session[s].pc = "open" /\ session[s].gv < handler[h].n
        /\ \A s \in endedAll : session[s].pc = "open" /\ session[s].gv < version

(* The username decides who set the instance up.                               *)
SetupInv == winners = 0 \/ (winners = 1 /\ users[Admin].there)

(* A user's only role change under way knows the recorded role, and without    *)
(* one the record and the row agree.                                           *)
Changes(h, u) == ChangingRole(h) /\ handler[h].user = u
RoleOK(u) ==
    /\ \A g, h \in Handlers : Changes(g, u) /\ Changes(h, u) => g = h
    /\ \A h \in Handlers : Changes(h, u) =>
          /\ handler[h].before = record[u]
          /\ users[u].role = IF handler[h].pc = "role_update" THEN handler[h].before ELSE handler[h].role
    /\ (\A h \in Handlers : ~Changes(h, u)) => record[u] = users[u].role
RoleInv == \A u \in Users \ raced : RoleOK(u)

SInv ==
    /\ SessionsTypeOK /\ UsersInv /\ HandlerInv /\ EndedInv /\ VersionInv
    /\ SetupInv /\ SetupLeavesAdmin /\ RoleInv

------------------------------------------------------------------------------
UserT == [there : BOOLEAN, role : Roles \cup {None}, enabled : BOOLEAN, sv : Nat, pw : BOOLEAN]
SessionT == [pc : {"none", "failed", "subject", "jit", "secret", "version", "open"},
             user : Users \cup {None}, secret : Nat, gv : Nat, sv : Nat]
HandlerT == [pc : Pcs, user : Users \cup {None}, role : Roles \cup {None},
             before : Roles \cup {None}, n : Nat, sv : Nat, out : SUBSET Ids]

(* The steps that begin a request, those of a request under way, of a login    *)
(* and of an attempt.                                                          *)
StartStep(h) ==
    /\ Ready(h)
    /\ \/ SetupCheck(h) \/ LogoutRead(h) \/ \E u \in Users : PwRow(h, u)
       \/ \E x \in Callers, u \in Users, role \in Grantable :
             CreateStart(h, x, u, role) \/ RoleStart(h, x, u, role)
       \/ \E x \in Callers, u \in Users, on \in BOOLEAN : EnabledStart(h, x, u, on)
HandlerStep(h) ==
    \/ SetupStore(h) \/ SetupConflicts(h) \/ \E s \in Ids : SetupWins(h, s)
    \/ PwVersion(h) \/ PwStore(h) \/ PwHash(h) \/ PwBump(h) \/ \E s \in Ids : PwOpen(h, s)
    \/ LogoutStore(h)
    \/ CreateInsert(h) \/ RoleUpdate(h) \/ RoleBump(h) \/ RoleEvent(h)
    \/ Enable(h) \/ Disable(h) \/ DisableBump(h)
    \/ Crash(h)
LoginStep(s) ==
    \/ \E u \in Users : LoginRow(s, u)
    \/ ReadSecret(s) \/ ReadVersion(s)
    \/ \E a \in Attempts, u \in Federated : OidcCallback(s, a, u)
    \/ OidcFails(s) \/ OidcSubject(s) \/ \E role \in Grantable : OidcJit(s, role)
AttemptStep == \E a \in Attempts : OidcLogin(a) \/ AttemptGone(a)

(* SessionsNext is these four.                                                 *)
LEMMA SessionsGroups ==
    ASSUME SessionsNext
    PROVE  \/ \E h \in Handlers : StartStep(h) \/ HandlerStep(h)
           \/ \E s \in Ids : LoginStep(s)
           \/ AttemptStep
BY DEF SessionsNext, StartStep, HandlerStep, LoginStep, AttemptStep

(* The roles, and the records everything starts from.                          *)
LEMMA Constants ==
    /\ Roles = {"viewer", "operator", "admin"} /\ Grantable \subseteq Roles
    /\ Admin \in Users /\ Federated \subseteq Users /\ None \notin Users
    /\ NoRow \in UserT /\ Unused \in SessionT /\ Failed \in SessionT /\ Idle \in HandlerT
<1>1. Roles = {"viewer", "operator", "admin"}
  BY DEF Roles, Rank
<1>. QED BY <1>1, SessionsAssumption DEF NoRow, Unused, Failed, Idle, UserT, SessionT, HandlerT, Pcs

(* Beginning a request keeps the types.                                        *)
LEMMA StartType ==
    ASSUME SessionsTypeOK, NEW h \in Handlers, StartStep(h)
    PROVE  SessionsTypeOK'
<1>0. /\ handler \in [Handlers -> HandlerT] /\ version \in Nat /\ users \in [Users -> UserT]
      /\ ops + 2 \in Nat /\ version + 1 \in Nat /\ Idle \in HandlerT
      /\ \A u \in Users : SessionsOf(u) \in SUBSET Ids
      /\ {s \in Ids : session[s].pc = "open"} \in SUBSET Ids
  BY Constants, SessionsAssumption DEF SessionsTypeOK, HandlerT, UserT, SessionsOf
<1>9. ops' \in 0..MaxOps
  <2>1. ops' = ops + 1 /\ ops < MaxOps
    BY Zenon DEF StartStep, Ready, SetupCheck, LogoutRead, PwRow, CreateStart, RoleStart, EnabledStart, Begin
  <2>. QED BY <2>1, SessionsAssumption DEF SessionsTypeOK
<1>1. ASSUME NEW rec \in HandlerT, Begin(h, rec), UNCHANGED <<accounts, session, attempt>>,
             UNCHANGED <<ended, endedAll, lost, winners, cutShort, record>>, raced' \subseteq Users
      PROVE  SessionsTypeOK'
  <2>1. handler' \in [Handlers -> HandlerT]
    BY <1>0, <1>1 DEF Begin
  <2>. QED BY <1>9, <1>1, <2>1 DEF SessionsTypeOK, HandlerT, accounts
<1>2. ASSUME SetupCheck(h) PROVE SessionsTypeOK'
  <2>1. [Idle EXCEPT !.pc = "setup_store", !.n = ops + 2] \in HandlerT
    BY <1>0, Constants, ZenonT(30) DEF HandlerT, Pcs
  <2>2. raced' \subseteq Users
    BY <1>2 DEF SessionsTypeOK, SetupCheck, ghosts
  <2>. QED BY <2>1, <2>2, <1>1, <1>2 DEF SetupCheck, ghosts
<1>3. ASSUME LogoutRead(h) PROVE SessionsTypeOK'
  <2>1. [Idle EXCEPT !.pc = "logout_store", !.n = version + 1, !.out = {s \in Ids : session[s].pc = "open"}] \in HandlerT
    BY <1>0, Constants, Zenon DEF HandlerT, Pcs
  <2>2. raced' \subseteq Users
    BY <1>3 DEF SessionsTypeOK, LogoutRead, ghosts
  <2>. QED BY <2>1, <2>2, <1>1, <1>3 DEF LogoutRead, ghosts
<1>4. ASSUME NEW u \in Users, PwRow(h, u) PROVE SessionsTypeOK'
  <2>1. [Idle EXCEPT !.pc = "pw_version", !.user = IF users[u].there THEN u ELSE None, !.out = SessionsOf(u)] \in HandlerT
    BY <1>0, Constants, ZenonT(30) DEF HandlerT, Pcs
  <2>2. raced' \subseteq Users
    BY <1>4 DEF SessionsTypeOK, PwRow, ghosts
  <2>. QED BY <2>1, <2>2, <1>1, <1>4 DEF PwRow, ghosts
<1>5. ASSUME NEW x \in Callers, NEW u \in Users, NEW role \in Grantable, CreateStart(h, x, u, role) PROVE SessionsTypeOK'
  <2>1. [Idle EXCEPT !.pc = "create", !.user = u, !.role = role] \in HandlerT
    BY <1>0, Constants, Zenon DEF HandlerT, Pcs
  <2>2. raced' \subseteq Users
    BY <1>5 DEF SessionsTypeOK, CreateStart, ghosts
  <2>. QED BY <2>1, <2>2, <1>1, <1>5 DEF CreateStart, ghosts
<1>6. ASSUME NEW x \in Callers, NEW u \in Users, NEW role \in Grantable, RoleStart(h, x, u, role) PROVE SessionsTypeOK'
  <2>1. [Idle EXCEPT !.pc = "role_update", !.user = u, !.role = role, !.before = users[u].role, !.out = SessionsOf(u)] \in HandlerT
    BY <1>0, Constants, Zenon DEF HandlerT, Pcs, UserT
  <2>2. raced' \subseteq Users
    BY <1>6 DEF SessionsTypeOK, RoleStart
  <2>. QED BY <2>1, <2>2, <1>1, <1>6 DEF RoleStart
<1>7. ASSUME NEW x \in Callers, NEW u \in Users, NEW on \in BOOLEAN, EnabledStart(h, x, u, on) PROVE SessionsTypeOK'
  <2>1. [Idle EXCEPT !.pc = IF on THEN "enable" ELSE "disable", !.user = u, !.out = SessionsOf(u)] \in HandlerT
    BY <1>0, Constants, ZenonT(30) DEF HandlerT, Pcs
  <2>2. raced' \subseteq Users
    BY <1>7 DEF SessionsTypeOK, EnabledStart, ghosts
  <2>. QED BY <2>1, <2>2, <1>1, <1>7 DEF EnabledStart, ghosts
<1>. QED BY <1>2, <1>3, <1>4, <1>5, <1>6, <1>7 DEF StartStep

(* Each UserRepo statement keeps the table's type.                             *)
LEMMA UserRepoType ==
    ASSUME SessionsTypeOK, NEW u \in Users,
           \/ \E role \in Roles, pw \in BOOLEAN : Create(u, role, pw)
           \/ \E role \in Roles \cup {None} : UpdateRole(u, role)
           \/ \E on \in BOOLEAN : SetEnabled(u, on)
           \/ SetPasswordHash(u) \/ BumpSessionVersion(u)
    PROVE  users' \in [Users -> UserT]
<1>0. users \in [Users -> UserT] /\ users[u] \in UserT
  BY DEF SessionsTypeOK, UserT
<1>1. ASSUME NEW role \in Roles, NEW pw \in BOOLEAN, Create(u, role, pw) PROVE users' \in [Users -> UserT]
  BY <1>0, <1>1 DEF Create, UserT
<1>2. ASSUME NEW role \in Roles \cup {None}, UpdateRole(u, role) PROVE users' \in [Users -> UserT]
  BY <1>0, <1>2 DEF UpdateRole, UserT
<1>3. ASSUME NEW on \in BOOLEAN, SetEnabled(u, on) PROVE users' \in [Users -> UserT]
  BY <1>0, <1>3 DEF SetEnabled, UserT
<1>4. CASE SetPasswordHash(u)
  BY <1>0, <1>4, Zenon DEF SetPasswordHash, UserT
<1>5. CASE BumpSessionVersion(u)
  <2>1. users[u].sv + 1 \in Nat
    BY <1>0 DEF UserT
  <2>. QED BY <1>0, <1>5, <2>1 DEF BumpSessionVersion, UserT
<1>. QED BY <1>1, <1>2, <1>3, <1>4, <1>5

(* The steps of a request under way keep the requests' type.                   *)
LEMMA HandlerStepHandlerType ==
    ASSUME SessionsTypeOK, HandlerInv, NEW h \in Handlers, HandlerStep(h)
    PROVE  handler' \in [Handlers -> HandlerT]
<1>0. handler \in [Handlers -> HandlerT] /\ handler[h] \in HandlerT /\ Idle \in HandlerT
  BY Constants DEF SessionsTypeOK, HandlerT
<1>1. Return(h) => handler' \in [Handlers -> HandlerT]
  BY <1>0 DEF Return
<1>2. ASSUME NEW pc \in Pcs, Goto(h, pc) PROVE handler' \in [Handlers -> HandlerT]
  <2>1. [handler[h] EXCEPT !.pc = pc] \in HandlerT
    BY <1>0 DEF HandlerT
  <2>. QED BY <2>1, <1>0, <1>2 DEF Goto
<1>3. CASE Return(h)
  BY <1>1, <1>3
<1>4. CASE \E pc \in Pcs : Goto(h, pc)
  BY <1>2, <1>4
<1>5. CASE PwVersion(h)
  <2>1. version + 1 \in Nat
    BY DEF SessionsTypeOK
  <2>2. [handler[h] EXCEPT !.pc = "pw_store", !.n = version + 1] \in HandlerT
    BY <1>0, <2>1, Zenon DEF HandlerT, Pcs
  <2>. QED BY <1>0, <1>5, <2>2 DEF PwVersion
<1>6. CASE PwBump(h)
  <2>1. users[handler[h].user].sv + 1 \in Nat
    BY <1>6 DEF SessionsTypeOK, HandlerInv, HandlerOK, Certain, PwBump, At
  <2>2. [handler[h] EXCEPT !.pc = "pw_open", !.sv = users[handler[h].user].sv + 1] \in HandlerT
    BY <1>0, <2>1, Zenon DEF HandlerT, Pcs
  <2>. QED BY <1>0, <1>6, <2>2 DEF PwBump
<1>7. \/ Return(h) \/ (\E pc \in Pcs : Goto(h, pc)) \/ PwVersion(h) \/ PwBump(h)
  <2>1. CASE SetupStore(h) \/ PwStore(h) \/ PwHash(h) \/ RoleUpdate(h) \/ RoleBump(h) \/ Disable(h)
    BY <2>1, Zenon DEF SetupStore, PwStore, PwHash, RoleUpdate, RoleBump, Disable, Pcs
  <2>2. CASE SetupConflicts(h) \/ (\E s \in Ids : SetupWins(h, s)) \/ (\E s \in Ids : PwOpen(h, s))
             \/ LogoutStore(h) \/ CreateInsert(h) \/ RoleEvent(h) \/ Enable(h) \/ DisableBump(h) \/ Crash(h)
    BY <2>2, Zenon DEF SetupConflicts, SetupWins, PwOpen, LogoutStore, CreateInsert, RoleEvent, Enable, DisableBump, Crash
  <2>. QED BY <2>1, <2>2 DEF HandlerStep
<1>. QED BY <1>3, <1>4, <1>5, <1>6, <1>7

(* ... the users',                                                             *)
LEMMA HandlerStepUsersType ==
    ASSUME SessionsTypeOK, HandlerInv, NEW h \in Handlers, HandlerStep(h)
    PROVE  users' \in [Users -> UserT]
<1>0. handler[h] \in HandlerT /\ users \in [Users -> UserT]
  BY DEF SessionsTypeOK, HandlerT, UserT
<1>2. ASSUME NEW s \in Ids, SetupWins(h, s) PROVE users' \in [Users -> UserT]
  BY <1>2, UserRepoType, Constants, Zenon DEF SetupWins
<1>3. CASE CreateInsert(h)
  <2>1. handler[h].user \in Users
    BY <1>3 DEF CreateInsert, At, HandlerInv, HandlerOK, Certain
  <2>2. CASE users[handler[h].user].there
    BY <1>0, <1>3, <2>2 DEF CreateInsert
  <2>3. CASE ~users[handler[h].user].there
    <3>1. Create(handler[h].user, handler[h].role, TRUE)
      BY <1>3, <2>3, Zenon DEF CreateInsert
    <3>2. [there |-> TRUE, role |-> handler[h].role, enabled |-> TRUE, sv |-> 0, pw |-> TRUE] \in UserT
      BY <1>0 DEF HandlerT, UserT
    <3>. QED BY <1>0, <3>1, <3>2, Zenon DEF Create
  <2>. QED BY <2>2, <2>3
<1>4. CASE PwHash(h) \/ PwBump(h) \/ RoleBump(h) \/ Enable(h) \/ Disable(h) \/ DisableBump(h)
  <2>1. handler[h].user \in Users
    BY <1>4, Zenon DEF PwHash, PwBump, RoleBump, Enable, Disable, DisableBump, At, HandlerInv, HandlerOK, Certain
  <2>. QED BY <1>4, <2>1, UserRepoType, Zenon DEF PwHash, PwBump, RoleBump, Enable, Disable, DisableBump
<1>5. CASE RoleUpdate(h)
  <2>1. handler[h].user \in Users /\ handler[h].role \in Roles \cup {None}
    BY <1>0, <1>5 DEF RoleUpdate, At, HandlerInv, HandlerOK, Certain, HandlerT
  <2>. QED BY Zenon, <1>5, <2>1, UserRepoType DEF RoleUpdate
<1>6. CASE SetupStore(h) \/ SetupConflicts(h) \/ PwVersion(h) \/ PwStore(h) \/ (\E s \in Ids : PwOpen(h, s))
           \/ LogoutStore(h) \/ RoleEvent(h) \/ Crash(h)
  BY <1>0, <1>6 DEF SetupStore, SetupConflicts, PwVersion, PwStore, PwOpen, LogoutStore, RoleEvent, Crash, accounts
<1>. QED BY <1>2, <1>3, <1>4, <1>5, <1>6 DEF HandlerStep

(* ... the sessions',                                                          *)
LEMMA HandlerStepSessionType ==
    ASSUME SessionsTypeOK, NEW h \in Handlers, HandlerStep(h)
    PROVE  session' \in [Ids -> SessionT]
<1>0. handler[h] \in HandlerT /\ session \in [Ids -> SessionT] /\ secret \in Nat /\ 0 \in Nat
  BY DEF SessionsTypeOK, HandlerT, SessionT
<1>1. ASSUME NEW s \in Ids, NEW u \in Users, NEW sec \in Nat, NEW gv \in Nat, NEW sv \in Nat, Open(s, u, sec, gv, sv)
      PROVE  session' \in [Ids -> SessionT]
  <2>1. [pc |-> "open", user |-> u, secret |-> sec, gv |-> gv, sv |-> sv] \in SessionT
    BY DEF SessionT
  <2>. QED BY <1>0, <1>1, <2>1 DEF Open
<1>2. ASSUME NEW s \in Ids, SetupWins(h, s) PROVE session' \in [Ids -> SessionT]
  <2>1. Open(s, Admin, handler[h].n, 0, 0) /\ handler[h].n \in Nat /\ Admin \in Users
    BY <1>0, <1>2, Constants DEF SetupWins, HandlerT
  <2>. QED BY <1>0, <1>1, <2>1
<1>3. ASSUME NEW s \in Ids, PwOpen(h, s) PROVE session' \in [Ids -> SessionT]
  <2>1. CASE handler[h].user = None
    BY ZenonT(30), <1>0, <1>3, <2>1 DEF PwOpen
  <2>2. CASE handler[h].user # None
    <3>1. /\ Open(s, handler[h].user, secret, handler[h].n, handler[h].sv)
          /\ handler[h].n \in Nat /\ handler[h].sv \in Nat /\ handler[h].user \in Users
      BY <1>0, <1>3, <2>2 DEF PwOpen, HandlerT
    <3>. QED BY <1>0, <1>1, <3>1
  <2>. QED BY <2>1, <2>2
<1>4. CASE session' = session
  BY <1>0, <1>4
<1>5. \/ session' = session \/ (\E s \in Ids : SetupWins(h, s)) \/ (\E s \in Ids : PwOpen(h, s))
  BY Zenon DEF HandlerStep, SetupStore, SetupConflicts, PwVersion, PwStore, PwHash, PwBump, LogoutStore, CreateInsert,
         RoleUpdate, RoleBump, RoleEvent, Enable, Disable, DisableBump, Crash
<1>. QED BY <1>2, <1>3, <1>4, <1>5

(* ... and everything else.                                                    *)
LEMMA HandlerStepType ==
    ASSUME SessionsTypeOK, HandlerInv, NEW h \in Handlers, HandlerStep(h)
    PROVE  SessionsTypeOK'
<1>0. /\ handler[h] \in HandlerT /\ handler[h].n \in Nat /\ handler[h].out \subseteq Ids
      /\ handler[h].role \in Roles \cup {None}
      /\ winners + 1 \in Nat /\ record \in [Users -> Roles \cup {None}] /\ "admin" \in Roles
  BY Constants DEF SessionsTypeOK, HandlerT
<1>1. /\ handler' \in [Handlers -> HandlerT] /\ users' \in [Users -> UserT] /\ session' \in [Ids -> SessionT]
  BY HandlerStepHandlerType, HandlerStepUsersType, HandlerStepSessionType
<1> USE DEF HandlerStep, SetupStore, SetupConflicts, SetupWins, PwVersion, PwStore, PwHash, PwBump, PwOpen, LogoutStore,
            CreateInsert, RoleUpdate, RoleBump, RoleEvent, Enable, Disable, DisableBump, Crash
<1>2. hash' \in BOOLEAN /\ secret' \in Nat /\ version' \in Nat
  BY <1>0, Zenon DEF SessionsTypeOK, StoreVersion, accounts
<1>3. ended' \subseteq Ids /\ endedAll' \subseteq Ids
  BY <1>0, Zenon DEF SessionsTypeOK, ghosts
<1>4. lost' \in BOOLEAN /\ cutShort' \in BOOLEAN
  BY <1>0, Zenon DEF SessionsTypeOK, StoreVersion, ghosts
<1>5. winners' \in Nat
  BY <1>0, Zenon DEF SessionsTypeOK, ghosts
<1>6. record' \in [Users -> Roles \cup {None}]
  BY <1>0, Zenon DEF ghosts
<1>7. raced' \subseteq Users
  <2>1. ChangingRole(h) => handler[h].user \in Users
    BY ZenonT(30) DEF ChangingRole, HandlerInv, HandlerOK, Certain
  <2>. QED BY <2>1, ZenonT(30) DEF SessionsTypeOK, ghosts
<1>8. attempt' = attempt /\ ops' \in 0..MaxOps
  <2>1. attempt' = attempt /\ (ops' = ops \/ (ops' = ops + 1 /\ ops < MaxOps))
    BY ZenonT(30)
  <2>. QED BY <2>1, SessionsAssumption DEF SessionsTypeOK
<1> HIDE DEF HandlerStep, SetupStore, SetupConflicts, SetupWins, PwVersion, PwStore, PwHash, PwBump, PwOpen, LogoutStore,
            CreateInsert, RoleUpdate, RoleBump, RoleEvent, Enable, Disable, DisableBump, Crash
<1>. QED BY <1>1, <1>2, <1>3, <1>4, <1>5, <1>6, <1>7, <1>8 DEF SessionsTypeOK, HandlerT, UserT, SessionT

------------------------------------------------------------------------------
(* A session's next state in a login: it never leaves "failed" or "open", its  *)
(* user and its version stay once the row has been read, and it holds the      *)
(* numbers of the moment.                                                      *)
Advances(s, x) ==
    /\ session' = [session EXCEPT ![s] = x]
    /\ session[s].pc \notin {"failed", "open"}
    /\ session[s].pc \in RowRead => x = Failed \/ (x.pc \in RowRead /\ x.user = session[s].user /\ x.sv = session[s].sv)
    /\ x.pc \in {"subject", "jit"} => x.user \in Users
    /\ x.pc \in RowRead => x.user \in Users /\ users'[x.user].there /\ x.sv <= users'[x.user].sv
    /\ x.pc = "open" => x.gv = version
    /\ x.pc # "none"

(* A row is created only where there is none, and recorded.                    *)
Creates ==
    \E u \in Users, role \in Roles \cup {None}, pw \in BOOLEAN :
        ~users[u].there /\ Create(u, role, pw) /\ record' = [record EXCEPT ![u] = role]

(* What a login's step does.                                                   *)
LEMMA LoginEffect ==
    ASSUME SessionsTypeOK, UsersInv, NEW s \in Ids, LoginStep(s)
    PROVE  /\ UNCHANGED <<hash, secret, version, handler, ended, endedAll, lost, winners, cutShort, raced, ops>>
           /\ \E x \in SessionT : Advances(s, x)
           /\ (users' = users /\ record' = record) \/ Creates
           /\ attempt' \in [Attempts -> {"free", "waiting", "gone"}]
<1>0. /\ session \in [Ids -> SessionT] /\ session[s] \in SessionT /\ users \in [Users -> UserT]
      /\ secret \in Nat /\ version \in Nat /\ 0 \in Nat
      /\ \A n \in Nat : n <= n
  BY DEF SessionsTypeOK, SessionT, UserT
<1>1. UNCHANGED <<hash, secret, version, handler, ended, endedAll, lost, winners, cutShort, raced, ops>>
  BY Zenon DEF LoginStep, LoginRow, ReadSecret, ReadVersion, OidcCallback, OidcFails, OidcSubject, OidcJit, accounts, ghosts
<1>2. (users' = users /\ record' = record) \/ Creates
  <2>1. ASSUME NEW role \in Grantable, OidcJit(s, role)
        PROVE  (users' = users /\ record' = record) \/ Creates
    <3>1. session[s].user \in Users /\ role \in Roles
      BY <2>1, Constants DEF OidcJit, UsersInv
    <3>. QED BY <2>1, <3>1, Zenon DEF OidcJit, Creates
  <2>. QED BY <2>1, Zenon DEF LoginStep, LoginRow, ReadSecret, ReadVersion, OidcCallback, OidcFails, OidcSubject, accounts, ghosts
<1>3. attempt' \in [Attempts -> {"free", "waiting", "gone"}]
  BY ZenonT(30) DEF SessionsTypeOK, LoginStep, LoginRow, ReadSecret, ReadVersion, OidcCallback, OidcFails, OidcSubject, OidcJit
<1>4. \E x \in SessionT : Advances(s, x)
  <2>1. ASSUME NEW u \in Users, LoginRow(s, u) PROVE \E x \in SessionT : Advances(s, x)
    <3> DEFINE x == [Unused EXCEPT !.pc = "secret", !.user = u, !.sv = users[u].sv]
    <3>1. x \in SessionT /\ x.pc = "secret" /\ x.user = u /\ x.sv = users[u].sv
      BY <1>0, Constants, Zenon DEF SessionT, Unused, UserT
    <3>2. session' = [session EXCEPT ![s] = x] /\ session[s].pc = "none" /\ users' = users /\ users[u].there
      BY <2>1 DEF LoginRow, accounts
    <3> HIDE DEF x
    <3>3. users[u].sv <= users[u].sv
      BY <1>0 DEF UserT
    <3>4. Advances(s, x)
      BY <3>1, <3>2, <3>3 DEF Advances, RowRead
    <3>. QED BY <3>1, <3>4
  <2>2. CASE ReadSecret(s)
    <3> DEFINE x == IF secret = 0 THEN Failed ELSE [session[s] EXCEPT !.pc = "version", !.secret = secret]
    <3>1. /\ session' = [session EXCEPT ![s] = x] /\ session[s].pc = "secret" /\ users' = users
      BY <2>2 DEF ReadSecret, accounts
    <3>2. /\ x \in SessionT
          /\ x = Failed \/ (x.pc = "version" /\ x.user = session[s].user /\ x.sv = session[s].sv)
      BY <1>0, Constants, Zenon DEF SessionT
    <3>3. Failed.pc = "failed"
      BY DEF Failed, Unused
    <3>4. session[s].user \in Users /\ users[session[s].user].there /\ session[s].sv <= users[session[s].user].sv
      BY <3>1 DEF UsersInv, RowRead
    <3> HIDE DEF x
    <3>5. Advances(s, x)
      BY <3>1, <3>2, <3>3, <3>4 DEF Advances, RowRead
    <3>. QED BY <3>2, <3>5
  <2>3. CASE ReadVersion(s)
    <3> DEFINE x == [session[s] EXCEPT !.pc = "open", !.gv = version]
    <3>1. /\ session' = [session EXCEPT ![s] = x] /\ session[s].pc = "version" /\ users' = users
      BY <2>3, <1>0, Zenon DEF ReadVersion, accounts
    <3>2. x \in SessionT /\ x.pc = "open" /\ x.user = session[s].user /\ x.sv = session[s].sv /\ x.gv = version
      BY <1>0, Constants, Zenon DEF SessionT
    <3>4. session[s].user \in Users /\ users[session[s].user].there /\ session[s].sv <= users[session[s].user].sv
      BY <3>1 DEF UsersInv, RowRead
    <3> HIDE DEF x
    <3>5. Advances(s, x)
      BY <3>1, <3>2, <3>4 DEF Advances, RowRead
    <3>. QED BY <3>2, <3>5
  <2>4. ASSUME NEW a \in Attempts, NEW u \in Federated, OidcCallback(s, a, u) PROVE \E x \in SessionT : Advances(s, x)
    <3> DEFINE x == [Unused EXCEPT !.pc = "subject", !.user = u]
    <3>1. x \in SessionT /\ x.pc = "subject" /\ x.user = u /\ u \in Users
      BY <1>0, Constants, Zenon DEF SessionT, Unused
    <3>2. session' = [session EXCEPT ![s] = x] /\ session[s].pc = "none"
      BY <2>4 DEF OidcCallback
    <3> HIDE DEF x
    <3>3. Advances(s, x)
      BY <3>1, <3>2 DEF Advances, RowRead
    <3>. QED BY <3>1, <3>3
  <2>5. CASE OidcFails(s)
    <3>1. session' = [session EXCEPT ![s] = Failed] /\ session[s].pc \in {"subject", "jit"} /\ Failed.pc = "failed"
      BY <2>5 DEF OidcFails, Failed, Unused
    <3>2. Advances(s, Failed)
      BY <3>1 DEF Advances, RowRead
    <3>. QED BY <3>2, Constants
  <2>6. CASE OidcSubject(s)
    <3> DEFINE u == session[s].user
               x == [session[s] EXCEPT !.pc = "secret", !.sv = users[u].sv]
               y == [session[s] EXCEPT !.pc = "jit"]
    <3>1. /\ session[s].pc = "subject" /\ users' = users
          /\ \/ users[u].there /\ session' = [session EXCEPT ![s] = x]
             \/ session' = [session EXCEPT ![s] = y]
      BY <2>6, <1>0, Zenon DEF OidcSubject, accounts
    <3>2. u \in Users /\ users[u].sv \in Nat /\ users[u].sv <= users[u].sv
      BY <3>1, <1>0 DEF UsersInv, UserT
    <3>3. x \in SessionT /\ x.pc = "secret" /\ x.user = u /\ x.sv = users[u].sv
      BY <1>0, <3>2, Zenon DEF SessionT
    <3>4. y \in SessionT /\ y.pc = "jit" /\ y.user = u
      BY <1>0 DEF SessionT
    <3> HIDE DEF x, y
    <3>5. Advances(s, x) \/ Advances(s, y)
      BY <3>1, <3>2, <3>3, <3>4 DEF Advances, RowRead
    <3>. QED BY <3>3, <3>4, <3>5
  <2>7. ASSUME NEW role \in Grantable, OidcJit(s, role) PROVE \E x \in SessionT : Advances(s, x)
    <3> DEFINE u == session[s].user
               x == [session[s] EXCEPT !.pc = "secret", !.sv = users[u].sv]
    <3>1. /\ session[s].pc = "jit" /\ session' = [session EXCEPT ![s] = x]
          /\ \/ ~users[u].there /\ Create(u, role, FALSE)
             \/ users[u].there /\ users' = users
      BY <2>7, <1>0, Zenon DEF OidcJit
    <3>2. u \in Users /\ users[u].sv \in Nat /\ users[u].sv <= users[u].sv /\ (~users[u].there => users[u].sv = 0)
      BY <3>1, <1>0 DEF UsersInv, UserT
    <3>3. x \in SessionT /\ x.pc = "secret" /\ x.user = u /\ x.sv = users[u].sv
      BY <1>0, <3>2, Zenon DEF SessionT
    <3>4. users'[u].there /\ users[u].sv <= users'[u].sv
      BY <3>1, <3>2, <1>0 DEF Create
    <3> HIDE DEF x
    <3>5. Advances(s, x)
      BY <3>1, <3>2, <3>3, <3>4 DEF Advances, RowRead
    <3>. QED BY <3>3, <3>5
  <2>. QED BY <2>1, <2>2, <2>3, <2>4, <2>5, <2>6, <2>7 DEF LoginStep
<1>. QED BY <1>1, <1>2, <1>3, <1>4

(* Rows stay, and their versions only rise; a row not there is fresh.          *)
Grows ==
    \A u \in Users :
        /\ users[u].there => users'[u].there /\ users[u].sv <= users'[u].sv
        /\ ~users'[u].there => users'[u].sv = 0

(* A session that failed or opened stays as it is, one that has read its row   *)
(* keeps the user and the version it read.                                     *)
Keeps ==
    \A s \in Ids :
        /\ session[s].pc \in {"failed", "open"} => session'[s] = session[s]
        /\ session[s].pc \in RowRead =>
              \/ session'[s].pc = "failed"
              \/ /\ session'[s].pc \in RowRead /\ session'[s].user = session[s].user
                 /\ session'[s].sv = session[s].sv

(* Creating a row where there is none makes the table grow.                    *)
LEMMA CreatesGrow ==
    ASSUME SessionsTypeOK, UsersInv, users' = users \/ Creates
    PROVE  Grows
<1>0. users \in [Users -> UserT] /\ \A n \in Nat : n <= n
  BY DEF SessionsTypeOK, UserT
<1>1. CASE users' = users
  BY <1>0, <1>1 DEF Grows, UsersInv, UserT
<1>2. ASSUME NEW v \in Users, NEW role, NEW pw, ~users[v].there, Create(v, role, pw) PROVE Grows
  <2>1. \A u \in Users \ {v} : users'[u] = users[u]
    BY <1>0, <1>2 DEF Create
  <2>2. users'[v].there /\ users'[v].sv = 0
    BY <1>0, <1>2 DEF Create
  <2>. QED BY <1>0, <1>2, <2>1, <2>2 DEF Grows, UsersInv, UserT
<1>. QED BY <1>1, <1>2 DEF Creates

(* So does every other UserRepo statement on a row that is there.              *)
LEMMA UserRepoGrows ==
    ASSUME SessionsTypeOK, UsersInv, NEW v \in Users, users[v].there,
           \/ \E role : UpdateRole(v, role)
           \/ \E on : SetEnabled(v, on)
           \/ SetPasswordHash(v) \/ BumpSessionVersion(v)
    PROVE  /\ Grows
           /\ BumpSessionVersion(v) => users'[v].sv = users[v].sv + 1
<1>0. users \in [Users -> UserT] /\ users[v] \in UserT /\ \A n \in Nat : n <= n /\ n <= n + 1
  BY DEF SessionsTypeOK, UserT
<1>1. \A u \in Users \ {v} : users'[u] = users[u]
  BY <1>0 DEF UpdateRole, SetEnabled, SetPasswordHash, BumpSessionVersion
<1>2. users'[v].there
  BY ZenonT(30), <1>0 DEF UpdateRole, SetEnabled, SetPasswordHash, BumpSessionVersion, UserT
<1>3. CASE BumpSessionVersion(v)
  <2>1. users'[v].sv = users[v].sv + 1
    BY <1>0, <1>3 DEF BumpSessionVersion, UserT
  <2>2. users[v].sv <= users'[v].sv
    BY Zenon, <2>1, <1>0 DEF UserT
  <2>. QED BY <1>0, <1>1, <1>2, <2>1, <2>2 DEF Grows, UsersInv, UserT
<1>4. CASE ~BumpSessionVersion(v)
  <2>1. users'[v].sv = users[v].sv
    BY <1>0, <1>4 DEF UpdateRole, SetEnabled, SetPasswordHash, UserT
  <2>. QED BY <1>0, <1>1, <1>2, <1>4, <2>1 DEF Grows, UsersInv, UserT
<1>. QED BY <1>3, <1>4

(* A request's step never lowers a user's version, nor removes a row.          *)
LEMMA HandlerGrows ==
    ASSUME SessionsTypeOK, UsersInv, HandlerInv, NEW h \in Handlers, HandlerStep(h)
    PROVE  Grows
<1>1. CASE users' = users
  BY <1>1, CreatesGrow
<1>2. ASSUME NEW s \in Ids, SetupWins(h, s) PROVE Grows
  BY <1>2, CreatesGrow, Constants, Zenon DEF SetupWins, Creates
<1>3. CASE CreateInsert(h)
  <2>1. handler[h].user \in Users /\ handler[h].role \in Roles \cup {None}
    BY <1>3 DEF CreateInsert, At, HandlerInv, HandlerOK, Certain, SessionsTypeOK
  <2>. QED BY <1>3, <2>1, CreatesGrow, Zenon DEF CreateInsert, Creates
<1>4. CASE PwHash(h) \/ PwBump(h) \/ RoleUpdate(h) \/ RoleBump(h) \/ Enable(h) \/ Disable(h) \/ DisableBump(h)
  <2>1. handler[h].user \in Users
    BY <1>4, Zenon DEF PwHash, PwBump, RoleUpdate, RoleBump, Enable, Disable, DisableBump, At, HandlerInv, HandlerOK, Certain
  <2>2. users[handler[h].user].there
    BY <1>4, <2>1, Constants, Zenon DEF PwHash, PwBump, RoleUpdate, RoleBump, Enable, Disable, DisableBump, At, HandlerInv, HandlerOK, Begun
  <2>. QED BY <1>4, <2>1, <2>2, UserRepoGrows, Zenon DEF PwHash, PwBump, RoleUpdate, RoleBump, Enable, Disable, DisableBump
<1>5. CASE SetupStore(h) \/ SetupConflicts(h) \/ PwVersion(h) \/ PwStore(h) \/ (\E s \in Ids : PwOpen(h, s))
           \/ LogoutStore(h) \/ RoleEvent(h) \/ Crash(h)
  BY <1>1, <1>5 DEF SetupStore, SetupConflicts, PwVersion, PwStore, PwOpen, LogoutStore, RoleEvent, Crash, accounts
<1>. QED BY <1>2, <1>3, <1>4, <1>5 DEF HandlerStep

(* Opening a session uses one not in use.                                      *)
LEMMA HandlerKeeps ==
    ASSUME SessionsTypeOK, NEW h \in Handlers, HandlerStep(h)
    PROVE  Keeps
<1>0. session \in [Ids -> SessionT]
  BY DEF SessionsTypeOK, SessionT
<1>1. ASSUME NEW s \in Ids, NEW u, NEW sec, NEW gv, NEW sv, Open(s, u, sec, gv, sv) PROVE Keeps
  BY <1>0, <1>1 DEF Open, Keeps, RowRead
<1>2. CASE session' = session
  BY <1>2 DEF Keeps
<1>3. \/ session' = session
      \/ \E s \in Ids : Open(s, Admin, handler[h].n, 0, 0)
      \/ \E s \in Ids : Open(s, handler[h].user, secret, handler[h].n, handler[h].sv)
  BY Zenon DEF HandlerStep, SetupStore, SetupConflicts, SetupWins, PwVersion, PwStore, PwHash, PwBump, PwOpen, LogoutStore,
         CreateInsert, RoleUpdate, RoleBump, RoleEvent, Enable, Disable, DisableBump, Crash
<1>. QED BY <1>1, <1>2, <1>3

(* A login's step moves its own session on, and leaves open ones as they are.  *)
LEMMA LoginKeeps ==
    ASSUME SessionsTypeOK, NEW s \in Ids, NEW x \in SessionT, Advances(s, x)
    PROVE  Keeps
<1>0. session \in [Ids -> SessionT] /\ Failed.pc = "failed"
  BY DEF SessionsTypeOK, SessionT, Failed, Unused
<1>1. session'[s] = x /\ \A t \in Ids \ {s} : session'[t] = session[t]
  BY <1>0 DEF Advances
<1>. QED BY <1>0, <1>1 DEF Advances, Keeps, RowRead

(* A dead session stays dead, and a user's session the user's.                 *)
LEMMA Stable ==
    ASSUME SessionsTypeOK, UsersInv, users' \in [Users -> UserT], Grows, Keeps, NEW s \in Ids
    PROVE  /\ Dead(s) => Dead(s)'
           /\ \A u : OfUser(s, u) => OfUser(s, u)'
<1>1. ASSUME Dead(s) PROVE Dead(s)'
  <2>1. CASE session[s].pc = "failed"
    BY <2>1 DEF Keeps, Dead
  <2>2. CASE session[s].pc \in RowRead /\ session'[s].pc # "failed"
    <3>1. session'[s].pc \in RowRead /\ session'[s].user = session[s].user /\ session'[s].sv = session[s].sv
      BY <2>2 DEF Keeps
    <3>2. session[s].sv < users[session[s].user].sv
      BY <1>1, <2>2 DEF Dead, RowRead
    <3>3. session[s].user \in Users /\ users[session[s].user].there
      BY <2>2 DEF UsersInv
    <3>4. users[session[s].user].sv <= users'[session[s].user].sv
      BY <3>3 DEF Grows
    <3>5. session[s].sv \in Nat /\ users[session[s].user].sv \in Nat /\ users'[session[s].user].sv \in Nat
      BY <3>3 DEF SessionsTypeOK, UserT
    <3>6. session[s].sv < users'[session[s].user].sv
      BY <3>2, <3>4, <3>5
    <3>. QED BY <3>1, <3>6 DEF Dead
  <2>. QED BY <1>1, <2>1, <2>2 DEF Dead
<1>2. ASSUME NEW u, OfUser(s, u) PROVE OfUser(s, u)'
  BY Zenon, <1>2 DEF OfUser, Keeps, RowRead
<1>. QED BY <1>1, <1>2

------------------------------------------------------------------------------
(* UsersInv survives a growing table and one new state of a session that obeys *)
(* it, or none.                                                                *)
LEMMA UsersInvKept ==
    ASSUME SessionsTypeOK, UsersInv, users' \in [Users -> UserT], Grows,
           NEW s \in Ids, NEW x \in SessionT, session' = [session EXCEPT ![s] = x],
           x.pc \in {"subject", "jit"} => x.user \in Users,
           x.pc \in RowRead => x.user \in Users /\ users'[x.user].there /\ x.sv <= users'[x.user].sv
    PROVE  UsersInv'
<1>1. session'[s] = x /\ \A t \in Ids \ {s} : session'[t] = session[t]
  BY Zenon DEF SessionsTypeOK
<1>2. ASSUME NEW t \in Ids, session[t].pc \in RowRead
      PROVE  /\ session[t].user \in Users /\ users'[session[t].user].there
             /\ session[t].sv <= users'[session[t].user].sv
  <2>1. session[t].user \in Users /\ users[session[t].user].there /\ session[t].sv <= users[session[t].user].sv
    BY <1>2 DEF UsersInv
  <2>2. users'[session[t].user].there /\ users[session[t].user].sv <= users'[session[t].user].sv
    BY <2>1 DEF Grows
  <2>3. session[t].sv \in Nat /\ users[session[t].user].sv \in Nat /\ users'[session[t].user].sv \in Nat
    BY <2>1 DEF SessionsTypeOK, UserT
  <2>. QED BY <2>1, <2>2, <2>3
<1>3. \A t \in Ids : session'[t].pc \in RowRead =>
          /\ session'[t].user \in Users /\ users'[session'[t].user].there
          /\ session'[t].sv <= users'[session'[t].user].sv
  BY <1>1, <1>2
<1>4. \A t \in Ids : session'[t].pc \in {"subject", "jit"} => session'[t].user \in Users
  BY <1>1 DEF UsersInv
<1>5. \A u \in Users : ~users'[u].there => users'[u].sv = 0
  BY DEF Grows
<1>. QED BY Zenon, <1>3, <1>4, <1>5 DEF UsersInv

(* UsersInv survives where sessions stay as they are and rows only grow.       *)
LEMMA UsersInvSame ==
    ASSUME SessionsTypeOK, UsersInv, users' \in [Users -> UserT], Grows, session' = session
    PROVE  UsersInv'
<1>1. CASE Ids = {}
  BY <1>1 DEF UsersInv, Grows
<1>2. ASSUME NEW s \in Ids PROVE UsersInv'
  <2>1. session[s] \in SessionT /\ session' = [session EXCEPT ![s] = session[s]]
    BY DEF SessionsTypeOK, SessionT
  <2>2. session[s].pc \in RowRead => /\ session[s].user \in Users /\ users'[session[s].user].there
                                     /\ session[s].sv <= users'[session[s].user].sv
    <3>. SUFFICES ASSUME session[s].pc \in RowRead
                  PROVE  /\ session[s].user \in Users /\ users'[session[s].user].there
                         /\ session[s].sv <= users'[session[s].user].sv
      OBVIOUS
    <3>1. session[s].user \in Users /\ users[session[s].user].there /\ session[s].sv <= users[session[s].user].sv
      BY DEF UsersInv
    <3>2. users'[session[s].user].there /\ users[session[s].user].sv <= users'[session[s].user].sv
      BY <3>1 DEF Grows
    <3>3. session[s].sv \in Nat /\ users[session[s].user].sv \in Nat /\ users'[session[s].user].sv \in Nat
      BY <3>1 DEF SessionsTypeOK, UserT
    <3>. QED BY <3>1, <3>2, <3>3
  <2>3. session[s].pc \in {"subject", "jit"} => session[s].user \in Users
    BY DEF UsersInv
  <2>. QED BY <2>1, <2>2, <2>3, UsersInvKept, Zenon
<1>. QED BY Zenon, <1>1, <1>2

(* A request's step keeps the relation of sessions and rows.                   *)
LEMMA HandlerUsersInv ==
    ASSUME SessionsTypeOK, UsersInv, HandlerInv, NEW h \in Handlers, HandlerStep(h)
    PROVE  UsersInv'
<1>0. /\ users' \in [Users -> UserT] /\ Grows /\ handler[h] \in HandlerT /\ users \in [Users -> UserT]
      /\ session \in [Ids -> SessionT] /\ secret \in Nat
  BY HandlerStepUsersType, HandlerGrows DEF SessionsTypeOK, HandlerT, UserT, SessionT
<1>1. CASE session' = session
  BY <1>0, <1>1, UsersInvSame
<1>2. ASSUME NEW s \in Ids, SetupWins(h, s) PROVE UsersInv'
  <2> DEFINE x == [pc |-> "open", user |-> Admin, secret |-> handler[h].n, gv |-> 0, sv |-> 0]
  <2>1. session' = [session EXCEPT ![s] = x]
    BY <1>2 DEF SetupWins, Open
  <2>2. x \in SessionT /\ x.user \in Users /\ x.pc = "open"
    BY <1>0, Constants, ZenonT(30) DEF SessionT, HandlerT
  <2>3. users'[x.user].there /\ users'[x.user].sv = 0
    BY <1>0, <1>2, Constants DEF SetupWins, Create
  <2>4. x.sv = 0
    BY ZenonT(30)
  <2> HIDE DEF x
  <2>5. x.sv <= users'[x.user].sv
    BY <2>3, <2>4
  <2>. QED BY <1>0, <2>1, <2>2, <2>3, <2>5, UsersInvKept, Zenon
<1>3. ASSUME NEW s \in Ids, PwOpen(h, s), handler[h].user # None PROVE UsersInv'
  <2> DEFINE x == [pc |-> "open", user |-> handler[h].user, secret |-> secret, gv |-> handler[h].n, sv |-> handler[h].sv]
  <2>1. session' = [session EXCEPT ![s] = x] /\ users' = users /\ handler[h].pc = "pw_open"
    BY Zenon, <1>3 DEF PwOpen, Open, At, accounts
  <2>2. x \in SessionT /\ x.user \in Users /\ x.pc = "open"
    BY Zenon, <1>0, <1>3 DEF SessionT, HandlerT
  <2>3. users'[x.user].there /\ x.sv <= users'[x.user].sv
    BY ZenonT(30), <1>3, <2>1 DEF HandlerInv, HandlerOK
  <2> HIDE DEF x
  <2>. QED BY <1>0, <2>1, <2>2, <2>3, UsersInvKept, Zenon
<1>4. ASSUME NEW s \in Ids, PwOpen(h, s), handler[h].user = None PROVE UsersInv'
  BY <1>1, <1>4 DEF PwOpen
<1>5. \/ session' = session \/ (\E s \in Ids : SetupWins(h, s)) \/ (\E s \in Ids : PwOpen(h, s))
  BY Zenon DEF HandlerStep, SetupStore, SetupConflicts, PwVersion, PwStore, PwHash, PwBump, LogoutStore, CreateInsert,
         RoleUpdate, RoleBump, RoleEvent, Enable, Disable, DisableBump, Crash
<1>. QED BY Zenon, <1>1, <1>2, <1>3, <1>4, <1>5

------------------------------------------------------------------------------
(* A request that takes no step stays what it is.                              *)
LEMMA OtherHandlerOK ==
    ASSUME SessionsTypeOK, UsersInv, users' \in [Users -> UserT], Grows, Keeps,
           NEW g \in Handlers, HandlerOK(g), handler'[g] = handler[g]
    PROVE  HandlerOK(g)'
<1>0. handler[g] \in HandlerT
  BY Zenon DEF SessionsTypeOK, HandlerT
<1>1. handler[g].user # None => handler[g].user \in Users
  BY ZenonT(30), <1>0 DEF HandlerT
<1>2. \A s \in handler[g].out : (Dead(s) => Dead(s)') /\ (\A u : OfUser(s, u) => OfUser(s, u)')
  BY <1>0, Stable DEF HandlerT
<1>3. handler[g].user # None /\ users[handler[g].user].there => users'[handler[g].user].there
  BY <1>1 DEF Grows
<1>4. handler[g].pc = "pw_open" /\ handler[g].user # None => handler[g].sv <= users'[handler[g].user].sv
  <2>. SUFFICES ASSUME handler[g].pc = "pw_open", handler[g].user # None
                PROVE  handler[g].sv <= users'[handler[g].user].sv
    BY Zenon
  <2>1. handler[g].sv <= users[handler[g].user].sv /\ users[handler[g].user].there
    BY DEF HandlerOK
  <2>2. users[handler[g].user].sv <= users'[handler[g].user].sv
    BY Zenon, <1>1, <2>1 DEF Grows
  <2>3. handler[g].sv \in Nat /\ users[handler[g].user].sv \in Nat /\ users'[handler[g].user].sv \in Nat
    BY Zenon, <1>0, <1>1 DEF HandlerT, SessionsTypeOK, UserT
  <2>. QED BY <2>1, <2>2, <2>3
<1>5. handler[g].pc \in Certain => handler[g].user \in Users
  BY Zenon DEF HandlerOK
<1>6. handler[g].pc \in Begun \cup {"pw_open", "role_event", "enable"} /\ handler[g].user # None
      => users'[handler[g].user].there
  BY Zenon, <1>3 DEF HandlerOK
<1>7. handler[g].pc \in Begun /\ handler[g].user # None => \A s \in handler[g].out : OfUser(s, handler[g].user)'
  BY Zenon, <1>2 DEF HandlerOK
<1>8. handler[g].pc \in {"pw_open", "role_event"} /\ handler[g].user # None => \A s \in handler[g].out : Dead(s)'
  BY <1>2 DEF HandlerOK
<1>. QED BY <1>4, <1>5, <1>6, <1>7, <1>8, ZenonT(30) DEF HandlerOK, OfUser, Dead

(* Raising a user's version puts every session of the user behind it.          *)
LEMMA BumpKills ==
    ASSUME SessionsTypeOK, UsersInv, NEW u \in Users, users[u].there, BumpSessionVersion(u), session' = session,
           NEW s \in Ids, OfUser(s, u)
    PROVE  Dead(s)'
<1>0. users[u].sv \in Nat /\ session[s].sv \in Nat
  BY Zenon DEF SessionsTypeOK
<1>1. users'[u].sv = users[u].sv + 1
  BY ZenonT(30), UserRepoGrows
<1>2. CASE session[s].pc = "failed"
  BY Zenon, <1>2 DEF Dead
<1>3. CASE session[s].pc \in RowRead /\ session[s].user = u
  <2>1. session[s].sv <= users[u].sv
    BY <1>3 DEF UsersInv
  <2>2. session[s].sv < users'[u].sv
    BY <1>0, <1>1, <2>1
  <2>. QED BY Zenon, <1>3, <2>2 DEF Dead
<1>. QED BY <1>2, <1>3 DEF OfUser

(* What Goto leaves alone.                                                     *)
LEMMA GotoFields ==
    ASSUME SessionsTypeOK, NEW h \in Handlers, NEW pc, Goto(h, pc)
    PROVE  /\ handler'[h].pc = pc /\ handler'[h].user = handler[h].user /\ handler'[h].role = handler[h].role
           /\ handler'[h].before = handler[h].before /\ handler'[h].n = handler[h].n
           /\ handler'[h].sv = handler[h].sv /\ handler'[h].out = handler[h].out
           /\ \A g \in Handlers \ {h} : handler'[g] = handler[g]
BY DEF SessionsTypeOK, Goto

(* A request that goes on elsewhere is not changing a role.                    *)
LEMMA GotoOther ==
    ASSUME SessionsTypeOK, NEW h \in Handlers, NEW pc, Goto(h, pc), pc \notin {"role_update", "role_bump", "role_event"}
    PROVE  ~ChangingRole(h)'
<1>1. handler'[h].pc = pc
  BY Zenon, GotoFields
<1>. QED BY <1>1 DEF ChangingRole

(* What a return leaves in the table of requests.                              *)
LEMMA ReturnFields ==
    ASSUME SessionsTypeOK, NEW h \in Handlers, Return(h)
    PROVE  handler'[h] = Idle /\ handler'[h].pc = "idle" /\ \A g \in Handlers \ {h} : handler'[g] = handler[g]
BY DEF SessionsTypeOK, Return, Idle

(* A step of a request keeps the promise the request's place makes.            *)
LEMMA HandlerStepOwn ==
    ASSUME SessionsTypeOK, UsersInv, HandlerInv, NEW h \in Handlers, HandlerStep(h)
    PROVE  HandlerOK(h)' /\ \A g \in Handlers \ {h} : handler'[g] = handler[g]
<1>0. /\ users' \in [Users -> UserT] /\ Grows /\ Keeps /\ handler[h] \in HandlerT
      /\ users \in [Users -> UserT] /\ HandlerOK(h) /\ handler[h].out \subseteq Ids /\ None \notin Users
  BY Zenon, HandlerStepUsersType, HandlerGrows, HandlerKeeps, Constants DEF SessionsTypeOK, HandlerT, UserT, HandlerInv
<1>1. CASE Return(h)
  BY ZenonT(30), <1>1, ReturnFields DEF HandlerOK, Certain, Begun
<1>2. CASE SetupStore(h)
  BY <1>2, GotoFields DEF SetupStore, HandlerOK, Certain, Begun
<1>3. ASSUME NEW pc \in Begun, Goto(h, pc), handler[h].pc \in Begun, handler[h].user \in Users
      PROVE  HandlerOK(h)' /\ \A g \in Handlers \ {h} : handler'[g] = handler[g]
  <2>1. /\ handler'[h].pc = pc /\ handler'[h].user = handler[h].user /\ handler'[h].out = handler[h].out
        /\ \A g \in Handlers \ {h} : handler'[g] = handler[g]
    BY Zenon, <1>3, GotoFields
  <2>2. users[handler[h].user].there /\ \A s \in handler[h].out : OfUser(s, handler[h].user)
    BY Zenon, <1>0, <1>3 DEF HandlerOK
  <2>3. users'[handler[h].user].there /\ \A s \in handler[h].out : OfUser(s, handler[h].user)'
    <3>1. users'[handler[h].user].there
      BY Zenon, <1>0, <1>3, <2>2 DEF Grows
    <3>2. \A s \in handler[h].out : \A u : OfUser(s, u) => OfUser(s, u)'
      BY <1>0, Stable
    <3>. QED BY ZenonT(30), <3>1, <3>2, <2>1, <2>2 DEF OfUser
  <2>4. pc \notin {"pw_open", "role_event"}
    BY ZenonT(30) DEF Begun
  <2>. QED BY Zenon, <1>3, <2>1, <2>3, <2>4 DEF HandlerOK, OfUser
<1>4. CASE PwVersion(h)
  <2>1. /\ handler'[h].pc = "pw_store" /\ handler[h].pc = "pw_version" /\ handler'[h].user = handler[h].user
        /\ handler'[h].out = handler[h].out
        /\ users' = users /\ session' = session /\ \A g \in Handlers \ {h} : handler'[g] = handler[g]
    BY ZenonT(30), <1>4 DEF PwVersion, SessionsTypeOK, At, accounts
  <2>. QED BY <1>0, <2>1 DEF HandlerOK, Begun, Certain, OfUser
<1>5. CASE PwStore(h)
  <2>1. CASE handler[h].user = None
    <3>1. Goto(h, "pw_open")
      BY Zenon, <1>5, <2>1 DEF PwStore
    <3>. QED BY <2>1, <3>1, GotoFields DEF HandlerOK, Begun, Certain
  <2>2. CASE handler[h].user # None
    <3>1. Goto(h, "pw_hash") /\ handler[h].pc = "pw_store" /\ handler[h].user \in Users
      BY ZenonT(30), <1>0, <1>5, <2>2 DEF PwStore, At, HandlerT
    <3>. QED BY Zenon, <1>3, <3>1 DEF Begun
  <2>. QED BY Zenon, <2>1, <2>2
<1>6. CASE PwHash(h) \/ RoleUpdate(h) \/ Disable(h)
  <2>1. handler[h].pc \in Begun /\ handler[h].user \in Users
    BY <1>0, <1>6, Zenon DEF PwHash, RoleUpdate, Disable, At, HandlerOK, Certain, Begun
  <2>2. \E pc \in Begun : Goto(h, pc)
    BY <1>6, Zenon DEF PwHash, RoleUpdate, Disable, Begun
  <2>. QED BY <1>3, <2>1, <2>2
<1>7. CASE PwBump(h) \/ RoleBump(h)
  <2>0. handler[h].user \in Users /\ handler[h].user # None /\ users[handler[h].user].there
        /\ \A s \in handler[h].out : OfUser(s, handler[h].user)
    BY <1>0, <1>7 DEF PwBump, RoleBump, At, HandlerOK, Certain, Begun
  <2>1. BumpSessionVersion(handler[h].user) /\ session' = session
    BY Zenon, <1>7 DEF PwBump, RoleBump
  <2>2. \A s \in handler[h].out : Dead(s)'
    BY Zenon, <1>0, <2>0, <2>1, BumpKills
  <2>3. users'[handler[h].user].there /\ users'[handler[h].user].sv = users[handler[h].user].sv + 1
    BY <2>0, <2>1, UserRepoGrows DEF Grows
  <2>4. CASE PwBump(h)
    <3>1. /\ handler'[h].pc = "pw_open" /\ handler'[h].user = handler[h].user /\ handler'[h].out = handler[h].out
          /\ handler'[h].sv = users[handler[h].user].sv + 1 /\ \A g \in Handlers \ {h} : handler'[g] = handler[g]
      BY <2>4 DEF PwBump, SessionsTypeOK
    <3>2. handler'[h].sv <= users'[handler[h].user].sv
      <4>1. users[handler[h].user].sv \in Nat
        BY Zenon, <1>0, <2>0 DEF UserT
      <4>2. users'[handler[h].user].sv = users[handler[h].user].sv + 1
        BY <2>3
      <4>3. handler'[h].sv = users[handler[h].user].sv + 1
        BY ZenonT(30), <3>1
      <4>. QED BY <4>1, <4>2, <4>3
    <3>. QED BY <3>1, <3>2, <2>0, <2>2, <2>3, Zenon DEF HandlerOK, Begun, Certain, Dead
  <2>5. CASE RoleBump(h)
    <3>1. Goto(h, "role_event")
      BY <2>5 DEF RoleBump
    <3>. QED BY <3>1, <2>0, <2>2, <2>3, GotoFields DEF HandlerOK, Begun, Certain, Dead
  <2>. QED BY <1>7, <2>4, <2>5
<1>8. \/ Return(h) \/ SetupStore(h) \/ PwVersion(h) \/ PwStore(h) \/ PwHash(h) \/ RoleUpdate(h) \/ Disable(h)
      \/ PwBump(h) \/ RoleBump(h)
  BY Zenon DEF HandlerStep, SetupConflicts, SetupWins, PwOpen, LogoutStore, CreateInsert, RoleEvent, Enable, DisableBump, Crash
<1>. QED BY <1>1, <1>2, <1>4, <1>5, <1>6, <1>7, <1>8, ZenonT(30)

(* A request's step keeps what holds of it and of every other request.         *)
LEMMA HandlerStepHandlerInv ==
    ASSUME SessionsTypeOK, UsersInv, HandlerInv, NEW h \in Handlers, HandlerStep(h)
    PROVE  HandlerInv'
<1>0. users' \in [Users -> UserT] /\ Grows /\ Keeps
  BY HandlerStepUsersType, HandlerGrows, HandlerKeeps
<1>1. HandlerOK(h)' /\ \A g \in Handlers \ {h} : handler'[g] = handler[g]
  BY HandlerStepOwn
<1>2. ASSUME NEW g \in Handlers \ {h} PROVE HandlerOK(g)'
  BY <1>0, <1>1, <1>2, OtherHandlerOK DEF HandlerInv
<1>. QED BY <1>1, <1>2 DEF HandlerInv

(* The sessions a request ends are dead when it returns.                       *)
LEMMA HandlerStepEnded ==
    ASSUME SessionsTypeOK, UsersInv, HandlerInv, EndedInv, NEW h \in Handlers, HandlerStep(h)
    PROVE  EndedInv'
<1>0. /\ users' \in [Users -> UserT] /\ Grows /\ Keeps /\ ended \subseteq Ids /\ handler[h].out \subseteq Ids
      /\ HandlerOK(h) /\ None \notin Users
  BY HandlerStepUsersType, HandlerGrows, HandlerKeeps, Constants DEF SessionsTypeOK, HandlerInv
<1>1. \A s \in ended : Dead(s)'
  BY <1>0, Stable, Zenon DEF EndedInv
<1>2. CASE ended' = ended
  BY <1>1, <1>2 DEF EndedInv
<1>3. CASE RoleEvent(h) \/ \E s \in Ids : PwOpen(h, s)
  <2>1. ended' = ended \/ (ended' = ended \cup handler[h].out /\ handler[h].user # None /\ handler[h].pc \in {"pw_open", "role_event"})
    BY <1>0, <1>3, ZenonT(30) DEF RoleEvent, PwOpen, At, HandlerOK, Certain
  <2>2. CASE ended' = ended \cup handler[h].out /\ handler[h].user # None /\ handler[h].pc \in {"pw_open", "role_event"}
    <3>1. \A s \in handler[h].out : Dead(s)
      BY <1>0, <2>2 DEF HandlerOK
    <3>2. \A s \in handler[h].out : Dead(s)'
      BY <1>0, <3>1, Stable
    <3>. QED BY <1>1, <2>2, <3>2, ZenonT(30) DEF EndedInv
  <2>. QED BY <1>2, <2>1, <2>2
<1>4. CASE DisableBump(h)
  <2>0. handler[h].user \in Users /\ handler[h].user # None /\ users[handler[h].user].there
        /\ \A s \in handler[h].out : OfUser(s, handler[h].user)
    BY Zenon, <1>0, <1>4 DEF DisableBump, At, HandlerOK, Certain, Begun
  <2>1. BumpSessionVersion(handler[h].user) /\ session' = session /\ ended' = ended \cup handler[h].out
    BY Zenon, <1>4 DEF DisableBump
  <2>2. \A s \in handler[h].out : Dead(s)'
    BY <1>0, <2>0, <2>1, BumpKills
  <2>. QED BY Zenon, <1>1, <2>1, <2>2 DEF EndedInv
<1>5. \/ ended' = ended \/ RoleEvent(h) \/ (\E s \in Ids : PwOpen(h, s)) \/ DisableBump(h)
  BY Zenon DEF HandlerStep, SetupStore, SetupConflicts, SetupWins, PwVersion, PwStore, PwHash, PwBump, LogoutStore,
         CreateInsert, RoleUpdate, RoleBump, Enable, Disable, Crash, ghosts
<1>. QED BY Zenon, <1>2, <1>3, <1>4, <1>5

------------------------------------------------------------------------------
(* The global version never falls, but for the writer that lost records.       *)
LEMMA HandlerVersion ==
    ASSUME SessionsTypeOK, NEW h \in Handlers, HandlerStep(h), ~lost'
    PROVE  ~lost /\ version' \in Nat /\ version <= version'
<1>0. version \in Nat /\ handler[h].n \in Nat
  BY Zenon DEF SessionsTypeOK
<1>1. CASE PwStore(h) \/ LogoutStore(h)
  <2>1. version' = handler[h].n /\ lost' = (lost \/ handler[h].n < version)
    BY <1>1, Zenon DEF PwStore, LogoutStore, StoreVersion
  <2>2. ~lost
    BY <2>1, Zenon
  <2>3. ~(handler[h].n < version)
    BY <2>1, Zenon
  <2>. QED BY <1>0, <2>1, <2>2, <2>3
<1>2. CASE ~(PwStore(h) \/ LogoutStore(h))
  <2>1. version' = version /\ lost' = lost
    BY <1>2, ZenonT(30) DEF HandlerStep, SetupStore, SetupConflicts, SetupWins, PwVersion, PwHash, PwBump, PwOpen,
       CreateInsert, RoleUpdate, RoleBump, RoleEvent, Enable, Disable, DisableBump, Crash, accounts, ghosts
  <2>. QED BY <1>0, <2>1
<1>. QED BY <1>1, <1>2

(* No step of a request puts a session ahead, or back, of the global version.  *)
LEMMA HandlerStepVersion ==
    ASSUME SessionsTypeOK, UsersInv, HandlerInv, VersionInv, NEW h \in Handlers, HandlerStep(h)
    PROVE  VersionInv'
<1>. SUFFICES ASSUME ~lost' PROVE VersionInv'
  BY DEF VersionInv
<1>0. /\ ~lost /\ version \in Nat /\ version' \in Nat /\ version <= version' /\ Keeps
      /\ \A g \in Handlers : handler[g].n \in Nat /\ handler[g].out \subseteq Ids
      /\ \A s \in Ids : session[s].gv \in Nat
      /\ endedAll \subseteq Ids
      /\ \A g \in Handlers \ {h} : handler'[g] = handler[g]
  BY HandlerVersion, HandlerKeeps, HandlerStepOwn, Zenon DEF SessionsTypeOK
<1>1. \A s \in Ids : session[s].pc = "open" => session'[s] = session[s]
  BY <1>0, ZenonT(30) DEF Keeps
<1>2. ASSUME NEW s \in Ids, session'[s].pc = "open" PROVE session'[s].gv <= version'
  <2>1. CASE session'[s] = session[s]
    <3>1. session[s].gv <= version
      BY Zenon, <1>0, <1>2, <2>1 DEF VersionInv
    <3>. QED BY <1>0, <2>1, <3>1
  <2>2. ASSUME NEW t \in Ids, SetupWins(h, t) PROVE session'[s] = session[s] \/ session'[s].gv <= version'
    <3>1. session' = [session EXCEPT ![t] = [pc |-> "open", user |-> Admin, secret |-> handler[h].n, gv |-> 0, sv |-> 0]]
      BY Zenon, <2>2 DEF SetupWins, Open
    <3>2. session'[s] = session[s] \/ session'[s].gv = 0
      BY <3>1 DEF SessionsTypeOK
    <3>. QED BY <1>0, <3>2
  <2>3. ASSUME NEW t \in Ids, PwOpen(h, t) PROVE session'[s] = session[s] \/ session'[s].gv <= version'
    <3>1. handler[h].n <= version /\ handler[h].n \in Nat
      BY Zenon, <1>0, <2>3 DEF PwOpen, At, VersionInv
    <3>2. session'[s] = session[s] \/ session'[s].gv = handler[h].n
      BY <2>3 DEF PwOpen, Open, SessionsTypeOK
    <3>3. handler[h].n <= version'
      BY <1>0, <3>1
    <3>. QED BY Zenon, <3>2, <3>3
  <2>4. \/ session' = session \/ (\E t \in Ids : SetupWins(h, t)) \/ (\E t \in Ids : PwOpen(h, t))
    BY Zenon DEF HandlerStep, SetupStore, SetupConflicts, PwVersion, PwStore, PwHash, PwBump, LogoutStore, CreateInsert,
         RoleUpdate, RoleBump, RoleEvent, Enable, Disable, DisableBump, Crash
  <2>. QED BY Zenon, <2>1, <2>2, <2>3, <2>4
<1>3. ASSUME NEW g \in Handlers, handler'[g].pc \in {"pw_hash", "pw_bump", "pw_open"} PROVE handler'[g].n <= version'
  <2>1. CASE g # h
    <3>1. handler[g].n <= version
      BY <1>0, <1>3, <2>1 DEF VersionInv
    <3>. QED BY <1>0, <2>1, <3>1
  <2>2. CASE g = h
    <3>1. CASE PwStore(h)
      <4>1. handler'[h].n = handler[h].n /\ version' = handler[h].n
        BY Zenon, <3>1, GotoFields DEF PwStore, StoreVersion
      <4>. QED BY <1>0, <2>2, <4>1
    <3>2. CASE PwHash(h) \/ PwBump(h)
      <4>1. handler'[h].n = handler[h].n /\ handler[h].pc \in {"pw_hash", "pw_bump"}
        BY <3>2, GotoFields DEF PwHash, PwBump, At, SessionsTypeOK
      <4>2. handler[h].n <= version
        BY Zenon, <1>0, <4>1 DEF VersionInv
      <4>. QED BY <1>0, <2>2, <4>1, <4>2
    <3>3. CASE Return(h)
      BY <1>3, <2>2, <3>3, ReturnFields
    <3>4. CASE SetupStore(h) \/ RoleUpdate(h) \/ RoleBump(h) \/ Disable(h) \/ PwVersion(h)
      <4>1. handler'[h].pc \notin {"pw_hash", "pw_bump", "pw_open"}
        <5>1. CASE PwVersion(h)
          BY ZenonT(30), <5>1 DEF PwVersion, SessionsTypeOK
        <5>2. CASE SetupStore(h) \/ RoleUpdate(h) \/ RoleBump(h) \/ Disable(h)
          <6>1. \E pc \in Pcs \ {"pw_hash", "pw_bump", "pw_open"} : Goto(h, pc)
            BY <5>2, Zenon DEF SetupStore, RoleUpdate, RoleBump, Disable, Pcs
          <6>. QED BY <6>1, GotoFields
        <5>. QED BY <3>4, <5>1, <5>2
      <4>. QED BY Zenon, <1>3, <2>2, <4>1
    <3>. QED BY <3>1, <3>2, <3>3, <3>4, Zenon DEF HandlerStep, SetupConflicts, SetupWins, PwOpen, LogoutStore, CreateInsert,
              RoleEvent, Enable, DisableBump, Crash
  <2>. QED BY Zenon, <2>1, <2>2
<1>4. ASSUME NEW g \in Handlers, handler'[g].pc = "logout_store", NEW s \in handler'[g].out
      PROVE  session'[s].pc = "open" /\ session'[s].gv < handler'[g].n
  <2>1. g # h
    <3>1. CASE Return(h)
      BY Zenon, <1>4, <3>1, ReturnFields
    <3>2. CASE \E pc \in Pcs \ {"logout_store"} : Goto(h, pc)
      BY <1>4, <3>2, GotoFields
    <3>3. CASE PwVersion(h) \/ PwBump(h)
      BY <1>4, <3>3 DEF PwVersion, PwBump, SessionsTypeOK
    <3>. QED BY <3>1, <3>2, <3>3, Zenon DEF HandlerStep, SetupConflicts, SetupWins, PwOpen, LogoutStore, CreateInsert,
              RoleEvent, Enable, DisableBump, Crash, SetupStore, PwStore, PwHash, RoleUpdate, RoleBump, Disable, Pcs
  <2>2. handler'[g] = handler[g] /\ s \in Ids
    BY Zenon, <1>0, <1>4, <2>1
  <2>3. session[s].pc = "open" /\ session[s].gv < handler[g].n
    BY <1>0, <1>4, <2>2 DEF VersionInv
  <2>. QED BY <1>1, <2>2, <2>3
<1>5. ASSUME NEW s \in endedAll' PROVE session'[s].pc = "open" /\ session'[s].gv < version'
  <2>1. CASE s \in endedAll
    <3>1. session[s].pc = "open" /\ session[s].gv < version /\ s \in Ids
      BY Zenon, <1>0, <2>1 DEF VersionInv
    <3>. QED BY <1>0, <1>1, <3>1
  <2>2. CASE LogoutStore(h) /\ s \in handler[h].out
    <3>1. session[s].pc = "open" /\ session[s].gv < handler[h].n /\ s \in Ids /\ version' = handler[h].n /\ session' = session
      BY Zenon, <1>0, <2>2 DEF LogoutStore, At, VersionInv, StoreVersion
    <3>. QED BY Zenon, <3>1
  <2>3. endedAll' = endedAll \/ LogoutStore(h)
    BY ZenonT(30) DEF HandlerStep, SetupStore, SetupConflicts, SetupWins, PwVersion, PwStore, PwHash, PwBump, PwOpen,
       CreateInsert, RoleUpdate, RoleBump, RoleEvent, Enable, Disable, DisableBump, Crash, ghosts
  <2>. QED BY <1>5, <2>1, <2>2, <2>3, Zenon DEF LogoutStore
<1>. QED BY Zenon, <1>2, <1>3, <1>4, <1>5 DEF VersionInv

------------------------------------------------------------------------------
(* Only one setup finds the username free, and a setup that stores the         *)
(* settings ends with the row, with a conflict over it, or cut short.          *)
LEMMA HandlerStepSetup ==
    ASSUME SessionsTypeOK, UsersInv, HandlerInv, SetupInv, SetupLeavesAdmin, NEW h \in Handlers, HandlerStep(h)
    PROVE  SetupInv' /\ SetupLeavesAdmin'
<1>0. /\ Grows /\ Admin \in Users /\ (users[Admin].there => users'[Admin].there)
      /\ \A g \in Handlers \ {h} : handler'[g] = handler[g]
      /\ users \in [Users -> UserT] /\ winners \in Nat
  BY HandlerGrows, HandlerStepOwn, Constants, ZenonT(30) DEF Grows, SessionsTypeOK, UserT
<1>1. ASSUME NEW s \in Ids, SetupWins(h, s) PROVE SetupInv' /\ SetupLeavesAdmin'
  <2>1. winners' = winners + 1 /\ ~users[Admin].there /\ users'[Admin].there
    BY <1>0, <1>1, Zenon DEF SetupWins, Create
  <2>2. winners = 0
    BY Zenon, <2>1 DEF SetupInv
  <2>3. winners' = 1
    BY <2>1, <2>2
  <2>. QED BY <2>1, <2>3 DEF SetupInv, SetupLeavesAdmin
<1>2. CASE \A s \in Ids : ~SetupWins(h, s)
  <2>1. winners' = winners
    BY <1>2, ZenonT(30) DEF HandlerStep, SetupStore, SetupConflicts, PwVersion, PwStore, PwHash, PwBump, PwOpen, LogoutStore,
       CreateInsert, RoleUpdate, RoleBump, RoleEvent, Enable, Disable, DisableBump, Crash, ghosts
  <2>2. SetupInv'
    BY <1>0, <2>1, Zenon DEF SetupInv
  <2>3. CASE SetupStore(h)
    <3>1. handler'[h].pc = "setup_create"
      BY Zenon, <2>3, GotoFields DEF SetupStore
    <3>. QED BY <2>2, <3>1, ZenonT(30) DEF SetupLeavesAdmin, At
  <2>4. CASE SetupConflicts(h)
    BY Zenon, <1>0, <2>2, <2>4 DEF SetupConflicts, SetupLeavesAdmin
  <2>5. CASE Crash(h)
    <3>1. hash' = hash /\ users' = users /\ cutShort' = (cutShort \/ At(h, "setup_create"))
      BY Zenon, <2>5 DEF Crash, accounts
    <3>. QED BY <1>0, <2>2, <3>1, Zenon DEF SetupLeavesAdmin, At
  <2>6. CASE ~(SetupStore(h) \/ SetupConflicts(h) \/ Crash(h))
    <3>1. hash' = hash /\ cutShort' = cutShort /\ handler[h].pc # "setup_create"
      BY <1>2, <2>6, Zenon DEF HandlerStep, PwVersion, PwStore, PwHash, PwBump, PwOpen, LogoutStore,
         CreateInsert, RoleUpdate, RoleBump, RoleEvent, Enable, Disable, DisableBump, accounts, ghosts, At
    <3>. QED BY <1>0, <2>2, <3>1 DEF SetupLeavesAdmin, At
  <2>. QED BY <2>3, <2>4, <2>5, <2>6
<1>. QED BY <1>1, <1>2
=============================================================================
