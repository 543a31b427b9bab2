--------------------------- MODULE UpstreamProofs ---------------------------
(* RestartIsAbsorbed, CatalogIsOneAnswer and AlertPerOutage for any number of  *)
(* calls and probes and any tool lists: the inductive invariants behind them,  *)
(* that every step of Upstream and Health keeps them, and that nothing else    *)
(* Operations does touches them.                                               *)
EXTENDS Operations, FiniteSetTheorems, TLAPS

(* A leaf that names no prover is tried with SMT, with Zenon, and with SMT     *)
(* once more and for longer.                                                   *)
USE SMT, Zenon, SMTT(30)

Tools == UNION {Catalogs[v] : v \in DOMAIN Catalogs}
RowT == [tool : Tools, ver : DOMAIN Catalogs, store : Nat]
CallPcs == {"idle", "get", "lock", "init", "notify", "post", "delete", "insert", "ready"} \cup Ended
CallT == [pc : CallPcs, kind : {"call", "list"}, sess : Nat, first : Nat, ver : DOMAIN Catalogs \cup {0},
          seen : SUBSET RowT, restarted : BOOLEAN]

UType ==
    /\ live \subseteq Nat /\ opened \in Nat /\ offers \in DOMAIN Catalogs
    /\ session \in Nat /\ aged \in BOOLEAN /\ lock \in Actors \cup {Nobody}
    /\ call \in [Actors -> CallT]
    /\ rows \subseteq RowT /\ stores \in Nat

(* The lock is held by the one actor inside its section, and for as long there *)
(* is nothing to be had from the cache.                                        *)
LockInv ==
    /\ \A c \in Actors : call[c].pc \in {"init", "notify"} <=> lock = c
    /\ lock # Nobody => ~Cached

(* No handshake under way is about to store a session that is dead.            *)
NoZombie == \A d \in Actors : Is(d, "notify") => call[d].sess \in live

(* A call that began after the last restart: the session it opened is live;    *)
(* if the one it took from the cache is dead, no other dead one is to come;    *)
(* and once it retries, all it can still meet are live.                        *)
ActorOK(c) ==
    /\ Is(c, "idle") => call[c].first = 0
    /\ Is(c, "notify") /\ ~call[c].restarted => call[c].sess \in live
    /\ Is(c, "post") /\ ~call[c].restarted /\ call[c].sess \notin live => NoZombie
    /\ call[c].first # 0 /\ ~call[c].restarted =>
          /\ NoZombie
          /\ session # 0 => session \in live
          /\ Is(c, "post") => call[c].sess \in live
    /\ Is(c, "gone") => call[c].restarted

UInv == UType /\ LockInv /\ \A c \in Actors : ActorOK(c)

(* The DELETE of a store that none has overtaken has seen every row there is.  *)
(* Probes store nothing.                                                       *)
CatInv ==
    /\ \A p \in Probes : call[p].pc \notin {"post", "delete", "insert"}
    /\ \A c \in Actors : call[c].pc \in {"delete", "insert"} => call[c].ver \in DOMAIN Catalogs
    /\ \A c \in Actors : Is(c, "insert") /\ c \notin overtaken => rows \subseteq call[c].seen
    /\ CatalogIsOneAnswer

------------------------------------------------------------------------------
(* The empty record is one.                                                    *)
LEMMA NoCallType ==
    /\ NoCall \in CallT /\ NoCall.pc = "idle" /\ NoCall.first = 0 /\ Nobody \notin Actors /\ Calls \cap Probes = {}
    /\ \A pc \in CallPcs : /\ [NoCall EXCEPT !.pc = pc] \in CallT /\ [NoCall EXCEPT !.pc = pc].pc = pc
                           /\ [NoCall EXCEPT !.pc = pc].first = 0
BY Zenon, UpstreamAssumption DEF NoCall, CallT, CallPcs, Actors

(* One actor moves from call[c] to rec: what must hold of rec, of the lock and *)
(* of the cache for the invariant to survive.                                  *)
LEMMA ActorMoves ==
    ASSUME UInv, UType', NEW c \in Actors, NEW rec \in CallT,
           call' = [call EXCEPT ![c] = rec], live \subseteq live',
           rec.pc \in {"init", "notify"} <=> lock' = c,
           \A d \in Actors \ {c} : lock' = d <=> lock = d,
           lock' # Nobody => ~Cached',
           rec.pc = "notify" => rec.sess \in live' \/ (Is(c, "notify") /\ rec.sess = call[c].sess),
           session' # 0 => session' \in live' \/ session' = session \/ (Is(c, "notify") /\ session' = call[c].sess),
           ActorOK(c)'
    PROVE  UInv'
<1>0. /\ call \in [Actors -> CallT] /\ call'[c] = rec /\ \A d \in Actors \ {c} : call'[d] = call[d]
  BY DEF UInv, UType
<1>1. LockInv'
  BY <1>0 DEF UInv, LockInv
<1>2. NoZombie => NoZombie'
  BY <1>0 DEF NoZombie, Is
<1>3. ASSUME NEW d \in Actors \ {c} PROVE ActorOK(d)'
  <2>1. ActorOK(d) /\ call'[d] = call[d]
    BY <1>0 DEF UInv
  <2>2. Is(c, "notify") /\ NoZombie => call[c].sess \in live
    BY DEF NoZombie
  <2>. QED BY <2>1, <2>2, <1>2 DEF ActorOK, Is
<1>. QED BY <1>1, <1>3 DEF UInv

(* The commonest moves: nothing is stored or opened, and the actor goes where  *)
(* it neither posts nor holds the lock, which it gives up if it has it.        *)
LEMMA ActorRetires ==
    ASSUME UInv, UType', NEW c \in Actors, NEW rec \in CallT,
           call' = [call EXCEPT ![c] = rec], UNCHANGED <<live, session, aged>>,
           lock' = IF lock = c THEN Nobody ELSE lock,
           rec.pc \notin {"init", "notify", "post", "gone"},
           rec.first = 0 \/ (rec.pc # "idle" /\ rec.first = call[c].first /\ rec.restarted = call[c].restarted)
    PROVE  UInv'
<1>0. /\ call'[c] = rec /\ \A d \in Actors \ {c} : call'[d] = call[d]
      /\ Nobody \notin Actors /\ ActorOK(c) /\ LockInv
  BY NoCallType DEF UInv, UType
<1>1. aged \in BOOLEAN /\ rec.restarted \in BOOLEAN /\ call[c].restarted \in BOOLEAN
  BY DEF UInv, UType, CallT
<1>2. NoZombie => NoZombie'
  BY <1>0 DEF NoZombie, Is
<1>3. ActorOK(c)'
  BY <1>0, <1>1, <1>2 DEF ActorOK, Is
<1>4. lock' # Nobody => ~Cached'
  BY <1>0, <1>1 DEF LockInv, Cached
<1>5. (rec.pc \in {"init", "notify"} <=> lock' = c) /\ \A d \in Actors \ {c} : lock' = d <=> lock = d
  BY <1>0
<1>6. rec.pc # "notify" /\ session' = session /\ live \subseteq live'
  OBVIOUS
<1>. QED BY Zenon, <1>3, <1>4, <1>5, <1>6, ActorMoves

(* A move that touches no row and goes to no store keeps what is known of the  *)
(* catalog.                                                                    *)
LEMMA CatalogKept ==
    ASSUME UType, CatInv, NEW c \in Actors, NEW rec \in CallT,
           call' = [call EXCEPT ![c] = rec], UNCHANGED catalog,
           rec.pc \notin {"delete", "insert"}, c \in Probes => rec.pc # "post"
    PROVE  CatInv'
<1>1. call'[c] = rec /\ \A d \in Actors \ {c} : call'[d] = call[d]
  BY DEF UType
<1>2. \A d \in Actors : call'[d].pc \in {"delete", "insert"} => call'[d] = call[d]
  BY <1>1
<1>3. CatalogIsOneAnswer'
  BY DEF CatInv, CatalogIsOneAnswer, catalog
<1>4. \A p \in Probes : p \in Actors
  BY DEF Actors
<1>5. \A p \in Probes : call'[p].pc \notin {"post", "delete", "insert"}
  BY <1>1, <1>4 DEF CatInv
<1>6. \A d \in Actors : call'[d].pc \in {"delete", "insert"} => call'[d].ver \in DOMAIN Catalogs
  BY <1>2 DEF CatInv
<1>7. \A d \in Actors : Is(d, "insert")' /\ d \notin overtaken' => rows' \subseteq call'[d].seen
  <2>1. \A d \in Actors : Is(d, "insert")' => Is(d, "insert") /\ call'[d].seen = call[d].seen
    BY <1>2 DEF Is
  <2>. QED BY <2>1 DEF CatInv, catalog
<1>. QED BY <1>3, <1>5, <1>6, <1>7 DEF CatInv

(* The steps after which an actor neither posts, stores nor holds the lock.    *)
Quiet(c, rec) ==
    /\ call' = [call EXCEPT ![c] = rec]
    /\ lock' = IF lock = c THEN Nobody ELSE lock
    /\ UNCHANGED <<world, session, aged, catalog>>
    /\ rec.pc \notin {"init", "notify", "post", "gone", "delete", "insert"} /\ rec.first = 0

(* Such a step keeps the cache's and the catalog's invariants.                 *)
LEMMA QuietKeeps ==
    ASSUME UInv, CatInv, NEW c \in Actors, NEW rec \in CallT, Quiet(c, rec)
    PROVE  UInv' /\ CatInv'
<1>1. UType'
  <2>1. lock' \in Actors \cup {Nobody} /\ call' \in [Actors -> CallT]
    BY DEF Quiet, UInv, UType
  <2>. QED BY <2>1 DEF Quiet, UInv, UType, world, catalog
<1>2. UInv'
  BY Zenon, <1>1, ActorRetires DEF Quiet, world
<1>3. CatInv'
  BY Zenon, CatalogKept DEF Quiet, UInv
<1>. QED BY <1>2, <1>3

(* Which steps are quiet.                                                      *)
LEMMA QuietSteps ==
    ASSUME UInv, NEW c \in Actors,
           \/ \E flag \in BOOLEAN : BridgeCall(c, flag) \/ GetTools(c, flag)
           \/ InitializeFails(c) \/ PostFails(c) \/ Answered(c)
           \/ \E pc \in {"failed", "idle"} : Cancelled(c, pc)
           \/ PostAnswered(c) /\ call[c].kind = "call"
           \/ /\ call[c].pc \in Ended \cup {"idle", "ready"} /\ UNCHANGED <<world, handshakes, catalog>>
              /\ call' = [call EXCEPT ![c] = NoCall] \/ call' = [call EXCEPT ![c] = [NoCall EXCEPT !.pc = "get"]]
    PROVE  \E rec \in CallT : Quiet(c, rec)
<1>0. /\ call[c].pc \notin {"init", "notify"} => lock # c
      /\ lock # c /\ UNCHANGED handshakes => lock' = IF lock = c THEN Nobody ELSE lock
      /\ UNCHANGED handshakes => UNCHANGED <<session, aged>>
  BY DEF UInv, LockInv, handshakes
<1>1. ASSUME NEW pc \in {"failed", "answered", "idle", "get"}, End(c, pc),
             lock' = IF lock = c THEN Nobody ELSE lock, UNCHANGED <<world, session, aged, catalog>>
      PROVE  \E rec \in CallT : Quiet(c, rec)
  <2>1. /\ [NoCall EXCEPT !.pc = pc] \in CallT /\ [NoCall EXCEPT !.pc = pc].pc = pc
        /\ [NoCall EXCEPT !.pc = pc].first = 0
    BY <1>1, NoCallType DEF CallPcs, Ended
  <2>2. Quiet(c, [NoCall EXCEPT !.pc = pc])
    BY <1>1, <2>1 DEF Quiet, End
  <2>. QED BY <2>1, <2>2
<1>2. ASSUME NEW flag \in BOOLEAN, BridgeCall(c, flag) PROVE \E rec \in CallT : Quiet(c, rec)
  <2>1. \E pc \in {"failed", "answered", "idle", "get"} : End(c, pc)
    BY Zenon, <1>2 DEF BridgeCall, End
  <2>. QED BY <1>0, <1>1, <1>2, <2>1 DEF BridgeCall, Is
<1>3. ASSUME NEW flag \in BOOLEAN, GetTools(c, flag) PROVE \E rec \in CallT : Quiet(c, rec)
  <2>. DEFINE rec == [NoCall EXCEPT !.kind = "list", !.pc = IF Fresh /\ ~flag THEN "answered" ELSE "get"]
  <2>1. rec \in CallT /\ rec.pc \in {"answered", "get"} /\ rec.first = 0
    BY Zenon, NoCallType DEF NoCall, CallT, CallPcs, Ended
  <2>2. call' = [call EXCEPT ![c] = rec] /\ UNCHANGED <<world, handshakes, catalog>> /\ lock # c
    BY Zenon, <1>0, <1>3 DEF GetTools, Is
  <2>. HIDE DEF rec
  <2>3. Quiet(c, rec)
    BY <1>0, <2>1, <2>2 DEF Quiet
  <2>. QED BY <2>1, <2>3
<1>4. CASE InitializeFails(c)
  <2>1. lock = c
    BY <1>4 DEF InitializeFails, Is, UInv, LockInv
  <2>. QED BY <1>1, <1>4, <2>1 DEF InitializeFails
<1>5. CASE PostFails(c)
  BY <1>0, <1>1, <1>5 DEF PostFails, Is
<1>6. ASSUME call[c].pc \in Ended \cup {"idle", "ready"}, UNCHANGED <<world, handshakes, catalog>>,
             call' = [call EXCEPT ![c] = NoCall] \/ call' = [call EXCEPT ![c] = [NoCall EXCEPT !.pc = "get"]]
      PROVE  \E rec \in CallT : Quiet(c, rec)
  <2>1. lock # c
    BY <1>0, <1>6 DEF Ended
  <2>2. \E pc \in {"failed", "answered", "idle", "get"} : End(c, pc)
    BY Zenon, <1>6 DEF End, NoCall
  <2>. QED BY <1>0, <1>1, <1>6, <2>1, <2>2
<1>7. CASE Answered(c)
  BY <1>6, <1>7 DEF Answered
<1>8. ASSUME NEW pc \in {"failed", "idle"}, Cancelled(c, pc) PROVE \E rec \in CallT : Quiet(c, rec)
  BY <1>1, <1>8 DEF Cancelled
<1>9. CASE PostAnswered(c) /\ call[c].kind = "call"
  BY <1>0, <1>1, <1>9 DEF PostAnswered, Is
<1>. QED BY <1>2, <1>3, <1>4, <1>5, <1>6, <1>7, <1>8, <1>9

------------------------------------------------------------------------------
(* A cached session is taken only while no handshake is under way, so none can *)
(* be about to store a dead one.                                               *)
LEMMA UseKeeps ==
    ASSUME UInv, CatInv, NEW c \in Actors, Is(c, "get") \/ Is(c, "lock"), Cached, Use(c),
           UNCHANGED <<world, handshakes, catalog>>
    PROVE  UInv' /\ CatInv'
<1>. DEFINE rec == [call[c] EXCEPT !.pc = AfterHandshake(c), !.sess = session]
<1>0. /\ call[c] \in CallT /\ session \in Nat /\ AfterHandshake(c) \in {"ready", "post"}
      /\ c \in Probes => AfterHandshake(c) = "ready"
  BY DEF UInv, UType, AfterHandshake
<1>1. /\ rec \in CallT /\ rec.pc = AfterHandshake(c) /\ rec.sess = session
      /\ rec.first = call[c].first /\ rec.restarted = call[c].restarted
  BY Zenon, <1>0 DEF CallT, CallPcs
<1>2. call' = [call EXCEPT ![c] = rec]
  BY Zenon DEF Use
<1>. HIDE DEF rec
<1>3. /\ call'[c] = rec /\ \A d \in Actors \ {c} : call'[d] = call[d]
      /\ UNCHANGED <<live, session, aged, lock>>
  BY <1>2 DEF UInv, UType, world, handshakes
<1>4. UType'
  <2>1. call' \in [Actors -> CallT]
    BY <1>1, <1>2 DEF UInv, UType
  <2>. QED BY <2>1 DEF UInv, UType, world, handshakes, catalog
<1>5. aged \in BOOLEAN /\ call[c].restarted \in BOOLEAN
  BY <1>0 DEF UInv, UType, CallT
<1>6. lock = Nobody /\ lock' = Nobody
  BY <1>3 DEF UInv, LockInv
<1>7. NoZombie'
  <2>1. \A d \in Actors : lock # d
    BY <1>6, NoCallType
  <2>2. \A d \in Actors \ {c} : ~Is(d, "notify")
    BY Zenon, <2>1 DEF UInv, LockInv, Is
  <2>. QED BY <1>0, <1>1, <1>3, <2>2 DEF NoZombie, Is
<1>8. ActorOK(c)'
  <2>1. ActorOK(c)
    BY DEF UInv
  <2>. QED BY ZenonT(30), <1>0, <1>1, <1>3, <1>5, <1>7, <2>1 DEF ActorOK, Is, Cached
<1>9. (rec.pc \in {"init", "notify"} <=> lock' = c) /\ rec.pc # "notify" /\ rec.pc \notin {"delete", "insert"}
  BY <1>0, <1>1, <1>6, NoCallType
<1>10. /\ \A d \in Actors \ {c} : lock' = d <=> lock = d
       /\ session' = session /\ live \subseteq live'
  BY <1>3
<1>11. UInv'
  BY Zenon, <1>1, <1>2, <1>4, <1>6, <1>8, <1>9, <1>10, ActorMoves
<1>12. CatInv'
  BY Zenon, <1>0, <1>1, <1>2, <1>9, CatalogKept DEF UInv
<1>. QED BY <1>11, <1>12

(* Taking the lock, or waiting for it, where the cache has nothing.            *)
LEMMA EnterKeeps ==
    ASSUME UInv, CatInv, NEW c \in Actors, NEW rec \in CallT,
           call[c].pc \in {"get", "lock", "post"}, ~Cached',
           rec.pc \in {"init", "lock"}, call' = [call EXCEPT ![c] = rec],
           IF rec.pc = "init" THEN lock = Nobody /\ lock' = c ELSE lock' = lock,
           session' \in {0, session}, aged' \in BOOLEAN, UNCHANGED <<world, catalog>>,
           rec.restarted = call[c].restarted,
           rec.first # 0 /\ ~rec.restarted => NoZombie /\ (session' # 0 => session' \in live)
    PROVE  UInv' /\ CatInv'
<1>0. /\ call \in [Actors -> CallT] /\ session \in Nat /\ lock \in Actors \cup {Nobody} /\ LockInv
      /\ call'[c] = rec /\ (\A d \in Actors \ {c} : call'[d] = call[d])
      /\ live' = live /\ Nobody \notin Actors
  BY NoCallType DEF UInv, UType, world
<1>1. UType'
  <2>1. call' \in [Actors -> CallT] /\ lock' \in Actors \cup {Nobody} /\ session' \in Nat
    BY <1>0
  <2>. QED BY <2>1 DEF UInv, UType, world, catalog
<1>2. NoZombie => NoZombie'
  BY <1>0 DEF NoZombie, Is
<1>3. ActorOK(c)'
  BY <1>0, <1>2 DEF ActorOK, Is
<1>4. /\ rec.pc \in {"init", "notify"} <=> lock' = c
      /\ \A d \in Actors \ {c} : lock' = d <=> lock = d
  <2>1. lock # c
    BY DEF UInv, LockInv
  <2>. QED BY <1>0, <2>1
<1>5. /\ lock' # Nobody => ~Cached'
      /\ rec.pc # "notify" /\ (session' # 0 => session' = session) /\ live \subseteq live'
  BY <1>0
<1>6. UInv'
  BY Zenon, <1>1, <1>3, <1>4, <1>5, ActorMoves
<1>7. CatInv'
  BY Zenon, CatalogKept DEF UInv
<1>. QED BY <1>6, <1>7

(* get_or_handshake and the lock after a wait.                                 *)
LEMMA HandshakeBegins ==
    ASSUME UInv, CatInv, NEW c \in Actors, GetOrHandshake(c) \/ Locked(c)
    PROVE  UInv' /\ CatInv'
<1>0. /\ call[c] \in CallT /\ ActorOK(c) /\ session \in Nat /\ aged \in BOOLEAN
      /\ UNCHANGED <<world, session, aged, catalog>> /\ (Is(c, "get") \/ Is(c, "lock"))
  BY DEF UInv, UType, GetOrHandshake, Locked
<1>1. CASE Cached
  <2>1. Use(c) /\ UNCHANGED <<world, handshakes, catalog>>
    BY <1>0, <1>1 DEF GetOrHandshake, Locked, handshakes
  <2>. QED BY <1>0, <1>1, <2>1, UseKeeps
<1>2. ASSUME ~Cached, NEW pc \in {"init", "lock"}, call' = [call EXCEPT ![c] = [call[c] EXCEPT !.pc = pc]],
             IF pc = "init" THEN lock = Nobody /\ lock' = c ELSE lock' = lock
      PROVE  UInv' /\ CatInv'
  <2>. DEFINE rec == [call[c] EXCEPT !.pc = pc]
  <2>1. rec \in CallT /\ rec.pc = pc /\ rec.first = call[c].first /\ rec.restarted = call[c].restarted
    BY <1>0, <1>2 DEF CallT, CallPcs
  <2>2. call' = [call EXCEPT ![c] = rec]
    BY <1>2
  <2>. HIDE DEF rec
  <2>3. ~Cached' /\ session' \in {0, session} /\ aged' \in BOOLEAN
    BY <1>0, <1>2 DEF Cached
  <2>4. rec.first # 0 /\ ~rec.restarted => NoZombie /\ (session' # 0 => session' \in live)
    BY <1>0, <2>1 DEF ActorOK
  <2>5. call[c].pc \in {"get", "lock", "post"} /\ IF rec.pc = "init" THEN lock = Nobody /\ lock' = c ELSE lock' = lock
    BY <1>0, <1>2, <2>1 DEF Is
  <2>. QED BY Zenon, <1>0, <1>2, <2>1, <2>2, <2>3, <2>4, <2>5, EnterKeeps
<1>3. CASE ~Cached /\ GetOrHandshake(c)
  BY <1>2, <1>3 DEF GetOrHandshake, Enter
<1>4. CASE ~Cached /\ Locked(c)
  BY <1>2, <1>4 DEF Locked, To
<1>. QED BY <1>1, <1>3, <1>4

(* initialize opens a session that is live.                                    *)
LEMMA InitializeKeeps ==
    ASSUME UInv, CatInv, NEW c \in Actors, Initialize(c)
    PROVE  UInv' /\ CatInv'
<1>. DEFINE rec == [call[c] EXCEPT !.pc = "notify", !.sess = opened + 1]
<1>0. /\ call[c] \in CallT /\ opened \in Nat /\ opened + 1 \in Nat /\ ActorOK(c) /\ lock = c
      /\ call[c].pc = "init" /\ live' = live \cup {opened + 1} /\ opened' = opened + 1
      /\ UNCHANGED <<offers, handshakes, catalog>>
  BY DEF UInv, UType, Initialize, Is, LockInv
<1>1. /\ rec \in CallT /\ rec.pc = "notify" /\ rec.sess = opened + 1
      /\ rec.first = call[c].first /\ rec.restarted = call[c].restarted
  BY Zenon, <1>0 DEF CallT, CallPcs
<1>2. call' = [call EXCEPT ![c] = rec]
  BY Zenon, <1>0 DEF Initialize
<1>. HIDE DEF rec
<1>3. call'[c] = rec /\ \A d \in Actors \ {c} : call'[d] = call[d]
  BY <1>2 DEF UInv, UType
<1>4. UType'
  <2>1. call' \in [Actors -> CallT] /\ live' \subseteq Nat
    BY <1>0, <1>1, <1>2 DEF UInv, UType
  <2>. QED BY <1>0, <2>1 DEF UInv, UType, handshakes, catalog
<1>5. NoZombie => NoZombie'
  BY <1>0, <1>1, <1>3 DEF NoZombie, Is
<1>6. ActorOK(c)'
  <2>1. session' = session /\ call[c].restarted \in BOOLEAN
    BY <1>0 DEF handshakes, CallT
  <2>. QED BY <1>0, <1>1, <1>3, <1>5, <2>1 DEF ActorOK, Is
<1>7. (lock' # Nobody => ~Cached') /\ lock' = lock /\ session' = session
  <2>1. aged \in BOOLEAN
    BY DEF UInv, UType
  <2>. QED BY <1>0, <2>1 DEF UInv, LockInv, Cached, handshakes
<1>8. UInv'
  BY Zenon, <1>0, <1>1, <1>2, <1>4, <1>6, <1>7, ActorMoves
<1>9. CatInv'
  BY Zenon, <1>0, <1>1, <1>2, CatalogKept DEF UInv
<1>. QED BY <1>8, <1>9

(* The session of a handshake goes into the cache.                             *)
LEMMA InitializedKeeps ==
    ASSUME UInv, CatInv, NEW c \in Actors, Initialized(c)
    PROVE  UInv' /\ CatInv'
<1>. DEFINE rec == [call[c] EXCEPT !.pc = AfterHandshake(c)]
<1>0. /\ call[c] \in CallT /\ call[c].sess \in Nat /\ ActorOK(c) /\ lock = c /\ Nobody \notin Actors
      /\ AfterHandshake(c) \in {"ready", "post"} /\ (c \in Probes => AfterHandshake(c) = "ready")
      /\ call[c].pc = "notify" /\ session' = call[c].sess /\ aged' = FALSE /\ lock' = Nobody
      /\ UNCHANGED <<world, catalog>>
  BY NoCallType DEF UInv, UType, Initialized, Is, LockInv, AfterHandshake, CallT
<1>1. /\ rec \in CallT /\ rec.pc = AfterHandshake(c) /\ rec.sess = call[c].sess
      /\ rec.first = call[c].first /\ rec.restarted = call[c].restarted
  BY <1>0 DEF CallT, CallPcs
<1>2. call' = [call EXCEPT ![c] = rec]
  BY DEF Initialized, To
<1>. HIDE DEF rec
<1>3. call'[c] = rec /\ (\A d \in Actors \ {c} : call'[d] = call[d]) /\ live' = live
  BY <1>0, <1>2 DEF UInv, UType, world
<1>4. UType'
  <2>1. call' \in [Actors -> CallT]
    BY <1>1, <1>2 DEF UInv, UType
  <2>. QED BY Zenon, <1>0, <2>1 DEF UInv, UType, world, catalog
<1>5. NoZombie'
  <2>1. \A d \in Actors \ {c} : call[d].pc # "notify"
    BY <1>0 DEF UInv, LockInv
  <2>. QED BY <1>0, <1>1, <1>3, <2>1 DEF NoZombie, Is
<1>6. ActorOK(c)'
  <2>1. call[c].restarted \in BOOLEAN
    BY <1>0 DEF CallT
  <2>. QED BY ZenonT(30), <1>0, <1>1, <1>3, <1>5, <2>1 DEF ActorOK, Is
<1>7. /\ rec.pc \in {"init", "notify"} <=> lock' = c
      /\ \A d \in Actors \ {c} : lock' = d <=> lock = d
  BY Zenon, <1>0, <1>1
<1>8. /\ rec.pc # "notify" /\ live \subseteq live'
      /\ Is(c, "notify") /\ session' = call[c].sess
  BY ZenonT(30), <1>0, <1>1, <1>3 DEF Is
<1>9. UInv'
  BY Zenon, <1>0, <1>1, <1>2, <1>4, <1>6, <1>7, <1>8, ActorMoves
<1>10. CatInv'
  BY Zenon, <1>0, <1>1, <1>2, CatalogKept DEF UInv
<1>. QED BY <1>9, <1>10

(* A 404: the first sends the call back to the handshake, with nothing dead    *)
(* left to meet; a second needs a restart.                                     *)
LEMMA NotFoundKeeps ==
    ASSUME UInv, CatInv, NEW c \in Actors, PostNotFound(c)
    PROVE  UInv' /\ CatInv'
<1>0. /\ call[c] \in CallT /\ call[c].sess \in Nat /\ call[c].restarted \in BOOLEAN /\ ActorOK(c)
      /\ call[c].pc = "post" /\ Is(c, "post") /\ call[c].sess \notin live
      /\ session' = 0 /\ aged' = FALSE /\ UNCHANGED <<world, catalog>>
  BY DEF UInv, UType, PostNotFound, Is, CallT
<1>1. CASE call[c].first = 0 /\ Enter(c, [call[c] EXCEPT !.first = call[c].sess])
  <2>1. PICK pc \in {"init", "lock"} :
           /\ call' = [call EXCEPT ![c] = [[call[c] EXCEPT !.first = call[c].sess] EXCEPT !.pc = pc]]
           /\ IF pc = "init" THEN lock = Nobody /\ lock' = c ELSE lock' = lock
    BY <1>1 DEF Enter
  <2>. DEFINE rec == [[call[c] EXCEPT !.first = call[c].sess] EXCEPT !.pc = pc]
  <2>2. rec \in CallT /\ rec.pc = pc /\ rec.restarted = call[c].restarted
    BY Zenon, <1>0, <2>1 DEF CallT, CallPcs
  <2>3. call' = [call EXCEPT ![c] = rec]
    BY <2>1
  <2>. HIDE DEF rec
  <2>4. ~rec.restarted => NoZombie
    BY <1>0, <2>2 DEF ActorOK
  <2>5. ~Cached' /\ session' \in {0, session} /\ aged' \in BOOLEAN /\ call[c].pc \in {"get", "lock", "post"}
    BY Zenon, <1>0 DEF Cached
  <2>6. rec.pc \in {"init", "lock"} /\ IF rec.pc = "init" THEN lock = Nobody /\ lock' = c ELSE lock' = lock
    BY <2>1, <2>2
  <2>. QED BY Zenon, <1>0, <2>2, <2>3, <2>4, <2>5, <2>6, EnterKeeps
<1>2. CASE call[c].first # 0 /\ To(c, "gone") /\ UNCHANGED lock
  <2>. DEFINE rec == [call[c] EXCEPT !.pc = "gone"]
  <2>1. rec \in CallT /\ rec.pc = "gone" /\ rec.first = call[c].first /\ rec.restarted = call[c].restarted
    BY <1>0 DEF CallT, CallPcs, Ended
  <2>2. call' = [call EXCEPT ![c] = rec]
    BY <1>2 DEF To
  <2>. HIDE DEF rec
  <2>3. rec.restarted
    BY <1>0, <1>2, <2>1 DEF ActorOK
  <2>4. call'[c] = rec
    BY ZenonT(30), <2>2 DEF UInv, UType
  <2>5. UType'
    <3>1. call' \in [Actors -> CallT]
      BY <2>1, <2>2 DEF UInv, UType
    <3>. QED BY Zenon, <1>0, <1>2, <3>1 DEF UInv, UType, world, catalog
  <2>6. ActorOK(c)'
    BY <2>1, <2>3, <2>4 DEF ActorOK, Is
  <2>7. lock # c /\ lock' = lock /\ live' = live /\ ~Cached'
    BY <1>0, <1>2 DEF UInv, LockInv, Cached, world
  <2>8. UInv'
    BY Zenon, <1>0, <2>1, <2>2, <2>5, <2>6, <2>7, ActorMoves
  <2>9. CatInv'
    BY Zenon, <1>0, <2>1, <2>2, CatalogKept DEF UInv
  <2>. QED BY <2>8, <2>9
<1>. QED BY <1>1, <1>2 DEF PostNotFound

------------------------------------------------------------------------------
(* A fetch that is answered goes on to store the version it was given.         *)
LEMMA ListAnsweredKeeps ==
    ASSUME UInv, CatInv, NEW c \in Calls, PostAnswered(c), call[c].kind = "list"
    PROVE  UInv' /\ CatInv'
<1>. DEFINE rec == [call[c] EXCEPT !.pc = "delete", !.ver = offers]
<1>0. /\ c \in Actors /\ c \notin Probes /\ call[c] \in CallT /\ offers \in DOMAIN Catalogs
      /\ call[c].pc = "post" /\ lock # c /\ UNCHANGED <<world, handshakes, catalog>>
  BY NoCallType DEF UInv, UType, Actors, PostAnswered, Is, LockInv
<1>1. /\ rec \in CallT /\ rec.pc = "delete" /\ rec.ver = offers
      /\ rec.first = call[c].first /\ rec.restarted = call[c].restarted
  BY Zenon, <1>0 DEF CallT, CallPcs
<1>2. call' = [call EXCEPT ![c] = rec]
  BY Zenon DEF PostAnswered
<1>. HIDE DEF rec
<1>3. call'[c] = rec /\ \A d \in Actors \ {c} : call'[d] = call[d]
  BY Zenon, <1>0, <1>2 DEF UInv, UType
<1>4. UType'
  <2>1. call' \in [Actors -> CallT]
    BY Zenon, <1>1, <1>2 DEF UInv, UType
  <2>. QED BY ZenonT(30), <1>0, <2>1 DEF UInv, UType, world, handshakes, catalog
<1>5. UInv'
  BY Zenon, <1>0, <1>1, <1>2, <1>4, ActorRetires DEF handshakes, world
<1>6. CatInv'
  <2>1. \A d \in Actors : Is(d, "insert")' => Is(d, "insert") /\ call'[d] = call[d]
    BY <1>1, <1>3 DEF Is
  <2>2. CatalogIsOneAnswer'
    BY Zenon, <1>0 DEF CatInv, CatalogIsOneAnswer, catalog
  <2>3. \A p \in Probes : call'[p].pc \notin {"post", "delete", "insert"}
    BY Zenon, <1>0, <1>3 DEF CatInv, Actors
  <2>4. \A d \in Actors : call'[d].pc \in {"delete", "insert"} => call'[d].ver \in DOMAIN Catalogs
    BY Zenon, <1>0, <1>1, <1>3 DEF CatInv
  <2>. QED BY <1>0, <2>1, <2>2, <2>3, <2>4 DEF CatInv, catalog
<1>. QED BY <1>5, <1>6

(* The DELETE of a store notes the rows.                                       *)
LEMMA StoreDeleteKeeps ==
    ASSUME UInv, CatInv, NEW c \in Actors, StoreDelete(c)
    PROVE  UInv' /\ CatInv'
<1>. DEFINE rec == [call[c] EXCEPT !.pc = "insert", !.seen = rows]
<1>0. /\ call[c] \in CallT /\ rows \subseteq RowT /\ call[c].pc = "delete" /\ lock # c
      /\ UNCHANGED <<world, handshakes, rows, stale, stores, mixed>> /\ overtaken' = overtaken \ {c}
  BY DEF UInv, UType, StoreDelete, Is, LockInv
<1>1. /\ rec \in CallT /\ rec.pc = "insert" /\ rec.ver = call[c].ver /\ rec.seen = rows
      /\ rec.first = call[c].first /\ rec.restarted = call[c].restarted
  BY Zenon, <1>0 DEF CallT, CallPcs
<1>2. call' = [call EXCEPT ![c] = rec]
  BY Zenon DEF StoreDelete
<1>. HIDE DEF rec
<1>3. call'[c] = rec /\ \A d \in Actors \ {c} : call'[d] = call[d]
  BY <1>2 DEF UInv, UType
<1>4. UType'
  <2>1. call' \in [Actors -> CallT]
    BY Zenon, <1>1, <1>2 DEF UInv, UType
  <2>. QED BY <1>0, <2>1 DEF UInv, UType, world, handshakes
<1>5. UInv'
  BY ZenonT(30), <1>0, <1>1, <1>2, <1>4, ActorRetires DEF handshakes, world
<1>6. CatInv'
  <2>1. \A d \in Actors \ {c} : Is(d, "insert")' /\ d \notin overtaken' => Is(d, "insert") /\ d \notin overtaken
    BY Zenon, <1>0, <1>3 DEF Is
  <2>2. CatalogIsOneAnswer'
    BY Zenon, <1>0 DEF CatInv, CatalogIsOneAnswer
  <2>3. \A p \in Probes : call'[p].pc \notin {"post", "delete", "insert"}
    BY Zenon, <1>0, <1>3 DEF CatInv, Actors
  <2>4. \A d \in Actors : call'[d].pc \in {"delete", "insert"} => call'[d].ver \in DOMAIN Catalogs
    BY <1>0, <1>1, <1>3 DEF CatInv
  <2>5. \A d \in Actors : Is(d, "insert")' /\ d \notin overtaken' => rows' \subseteq call'[d].seen
    <3>1. \A d \in Actors \ {c} : Is(d, "insert")' /\ d \notin overtaken' => rows' \subseteq call'[d].seen
      BY ZenonT(30), <1>0, <1>3, <2>1 DEF CatInv
    <3>2. rows' \subseteq call'[c].seen
      BY Zenon, <1>0, <1>1, <1>3
    <3>. QED BY Zenon, <3>1, <3>2
  <2>. QED BY <2>2, <2>3, <2>4, <2>5 DEF CatInv
<1>. QED BY <1>5, <1>6

(* The commit: the rows the DELETE saw go, those of the answer come.           *)
LEMMA StoreCommitKeeps ==
    ASSUME UInv, CatInv, NEW c \in Actors, StoreCommit(c)
    PROVE  UInv' /\ CatInv'
<1>. DEFINE v == call[c].ver
            rec == [NoCall EXCEPT !.pc = "answered"]
            Row(t) == [tool |-> t, ver |-> v, store |-> stores + 1]
<1>0. /\ call[c].pc = "insert" /\ Is(c, "insert") /\ v \in DOMAIN Catalogs /\ stores + 1 \in Nat
      /\ UNCHANGED <<world, handshakes>> /\ lock # c /\ rows \subseteq RowT
      /\ stores' = stores + 1
  BY DEF UInv, UType, CatInv, StoreCommit, Is, LockInv
<1>n. (~mixed' => c \notin overtaken) /\ overtaken' = {d \in Calls \ {c} : Is(d, "insert")}
  BY Zenon DEF StoreCommit, NoteCommit
<1>1. rec \in CallT /\ rec.pc = "answered" /\ rec.first = 0
  BY NoCallType DEF CallPcs, Ended
<1>2. call' = [call EXCEPT ![c] = rec]
  BY Zenon DEF StoreCommit, End
<1>3. rows' = {r \in rows \ call[c].seen : r.tool \notin Catalogs[v]} \cup {Row(t) : t \in Catalogs[v]}
  BY ZenonT(30) DEF StoreCommit
<1>4. \A t \in Catalogs[v] : Row(t) \in RowT /\ Row(t).tool = t /\ Row(t).ver = v
  BY <1>0 DEF RowT, Tools
<1>. HIDE DEF rec, v, Row
<1>5. call'[c] = rec /\ \A d \in Actors \ {c} : call'[d] = call[d]
  BY <1>2 DEF UInv, UType
<1>6. UType'
  <2>1. call' \in [Actors -> CallT] /\ rows' \subseteq RowT
    BY <1>0, <1>1, <1>2, <1>3, <1>4 DEF UInv, UType
  <2>. QED BY Zenon, <1>0, <2>1 DEF UInv, UType, world, handshakes
<1>7. UInv'
  BY Zenon, <1>0, <1>1, <1>2, <1>6, ActorRetires DEF handshakes, world
<1>8. CatalogIsOneAnswer'
  <2>. SUFFICES ASSUME ~mixed' PROVE {<<r.tool, r.ver>> : r \in rows'} = Catalogs[v] \X {v}
    BY Zenon, <1>0 DEF CatalogIsOneAnswer
  <2>0. rows \subseteq call[c].seen
    BY Zenon, <1>0, <1>n DEF CatInv
  <2>1. rows' = {Row(t) : t \in Catalogs[v]}
    BY Zenon, <1>3, <2>0
  <2>2. ASSUME NEW r \in rows' PROVE <<r.tool, r.ver>> \in Catalogs[v] \X {v}
    BY ZenonT(30), <1>4, <2>1
  <2>3. ASSUME NEW t \in Catalogs[v] PROVE <<t, v>> \in {<<r.tool, r.ver>> : r \in rows'}
    BY Zenon, <1>4, <2>1
  <2>. QED BY <2>2, <2>3
<1>9. CatInv'
  <2>1. \A d \in Actors : call'[d].pc \in {"delete", "insert"} => d # c /\ call'[d] = call[d]
    BY Zenon, <1>1, <1>5
  <2>2. \A p \in Probes : call'[p].pc \notin {"post", "delete", "insert"}
    BY Zenon, <1>1, <1>5 DEF CatInv, Actors
  <2>3. \A d \in Actors : call'[d].pc \in {"delete", "insert"} => call'[d].ver \in DOMAIN Catalogs
    BY ZenonT(30), <2>1 DEF CatInv
  <2>4. \A d \in Actors : Is(d, "insert")' => d \in overtaken'
    BY Zenon, <1>n, <2>1 DEF CatInv, Is, Actors
  <2>. QED BY Zenon, <1>8, <2>2, <2>3, <2>4 DEF CatInv
<1>. QED BY <1>7, <1>9

------------------------------------------------------------------------------
(* A restart marks every call under way, and of the others nothing is asked.   *)
LEMMA RestartKeeps ==
    ASSUME UInv, CatInv, UpstreamRestarts
    PROVE  UInv' /\ CatInv'
<1>0. /\ call \in [Actors -> CallT] /\ UNCHANGED <<opened, offers, handshakes, catalog>> /\ live' = {}
      /\ call' = [c \in Actors |-> IF Is(c, "idle") THEN call[c] ELSE [call[c] EXCEPT !.restarted = TRUE]]
  BY DEF UInv, UType, UpstreamRestarts
<1>1. ASSUME NEW c \in Actors
      PROVE  /\ call'[c] \in CallT /\ call'[c].pc = call[c].pc /\ call'[c].first = call[c].first
             /\ call'[c].ver = call[c].ver /\ call'[c].seen = call[c].seen
             /\ call[c].pc # "idle" => call'[c].restarted = TRUE
  BY Zenon, <1>0 DEF CallT, Is
<1>2. UType'
  <2>1. call' \in [Actors -> CallT]
    BY Zenon, <1>0, <1>1
  <2>. QED BY <1>0, <2>1 DEF UInv, UType, handshakes, catalog
<1>3. LockInv'
  <2>1. aged' = aged /\ session' = session /\ lock' = lock /\ aged \in BOOLEAN
    BY <1>0 DEF handshakes, UInv, UType
  <2>. QED BY Zenon, <1>1, <2>1 DEF UInv, LockInv, Cached
<1>4. ASSUME NEW c \in Actors PROVE ActorOK(c)'
  BY Zenon, <1>1 DEF UInv, ActorOK, Is
<1>5. CatalogIsOneAnswer'
  BY <1>0 DEF CatInv, CatalogIsOneAnswer, catalog
<1>6. CatInv'
  BY <1>0, <1>1, <1>5 DEF CatInv, Is, catalog, Actors
<1>. QED BY <1>2, <1>3, <1>4, <1>6 DEF UInv

(* The other changes of the world, ageing and invalidation.                    *)
LEMMA WorldKeeps ==
    ASSUME UInv, CatInv, UpstreamChanges \/ CacheAges \/ Invalidate
    PROVE  UInv' /\ CatInv'
<1>0. /\ UNCHANGED <<live, opened, session, lock, stores, overtaken, mixed, call>>
      /\ aged' \in BOOLEAN /\ (aged => aged') /\ offers' \in DOMAIN Catalogs
      /\ rows' = rows \/ rows' = {}
  BY ZenonT(30) DEF UInv, UType, UpstreamChanges, CacheAges, Invalidate, world, handshakes, catalog
<1>1. UType'
  BY <1>0 DEF UInv, UType
<1>2. LockInv'
  BY Zenon, <1>0 DEF UInv, LockInv, Cached
<1>3. ASSUME NEW c \in Actors PROVE ActorOK(c)'
  BY Zenon, <1>0 DEF UInv, ActorOK, NoZombie, Is
<1>4. CatInv'
  BY ZenonT(30), <1>0 DEF CatInv, CatalogIsOneAnswer, Is
<1>. QED BY <1>1, <1>2, <1>3, <1>4 DEF UInv

(* All probes are cut at once.                                                 *)
LEMMA ProbesCutKeeps ==
    ASSUME UInv, CatInv, ProbesCut
    PROVE  UInv' /\ CatInv'
<1>0. /\ call \in [Actors -> CallT] /\ UNCHANGED <<world, session, aged, catalog>>
      /\ call' = [c \in Actors |-> IF c \in Probes THEN NoCall ELSE call[c]]
      /\ lock' = IF lock \in Probes THEN Nobody ELSE lock
      /\ aged \in BOOLEAN
  BY DEF UInv, UType, ProbesCut
<1>1. \A c \in Actors : call'[c] = IF c \in Probes THEN NoCall ELSE call[c]
  BY <1>0
<1>2. UType'
  <2>1. call' \in [Actors -> CallT] /\ lock' \in Actors \cup {Nobody}
    BY <1>0, NoCallType DEF UInv, UType
  <2>. QED BY <1>0, <2>1 DEF UInv, UType, world, catalog
<1>3. LockInv'
  BY <1>0, <1>1, NoCallType DEF UInv, LockInv, Cached
<1>4. NoZombie => NoZombie'
  BY <1>0, <1>1, NoCallType DEF NoZombie, Is, world
<1>5. ASSUME NEW c \in Actors PROVE ActorOK(c)'
  <2>1. CASE c \in Probes
    BY Zenon, <1>1, <2>1, NoCallType DEF ActorOK, Is
  <2>2. CASE c \notin Probes
    BY Zenon, <1>0, <1>1, <1>4, <2>2 DEF UInv, ActorOK, Is, world
  <2>. QED BY <2>1, <2>2
<1>6. CatInv'
  <2>1. CatalogIsOneAnswer'
    BY Zenon, <1>0 DEF CatInv, CatalogIsOneAnswer, catalog
  <2>2. \A c \in Actors : call'[c].pc \in {"delete", "insert"} => call'[c] = call[c]
    BY <1>1, NoCallType
  <2>3. \A p \in Probes : call'[p].pc \notin {"post", "delete", "insert"}
    BY <1>1, NoCallType DEF Actors
  <2>. QED BY Zenon, <1>0, <2>1, <2>2, <2>3 DEF CatInv, Is, catalog
<1>. QED BY <1>2, <1>3, <1>5, <1>6 DEF UInv

(* Every step of a call or a probe's handshake, and of the world.              *)
LEMMA UpstreamKeeps ==
    ASSUME UInv, CatInv,
           \/ UpstreamRestarts \/ UpstreamChanges \/ CacheAges \/ Invalidate
           \/ \E c \in Actors : \/ UpstreamWork(c) \/ InitializeFails(c) \/ PostFails(c) \/ Answered(c)
                                \/ \E flag \in BOOLEAN : BridgeCall(c, flag) \/ GetTools(c, flag)
                                \/ \E pc \in {"failed", "idle"} : Cancelled(c, pc)
    PROVE  UInv' /\ CatInv'
<1>1. ASSUME NEW c \in Actors, PostAnswered(c) PROVE UInv' /\ CatInv'
  <2>1. CASE call[c].kind = "call"
    BY Zenon, <1>1, <2>1, QuietSteps, QuietKeeps
  <2>2. CASE call[c].kind = "list"
    <3>1. c \in Calls
      BY <1>1 DEF PostAnswered, Is, CatInv, Actors
    <3>. QED BY <1>1, <2>2, <3>1, ListAnsweredKeeps
  <2>. QED BY <1>1, <2>1, <2>2 DEF PostAnswered
<1>2. ASSUME NEW c \in Actors,
             \/ InitializeFails(c) \/ PostFails(c) \/ Answered(c)
             \/ \E flag \in BOOLEAN : BridgeCall(c, flag) \/ GetTools(c, flag)
             \/ \E pc \in {"failed", "idle"} : Cancelled(c, pc)
      PROVE  UInv' /\ CatInv'
  <2>1. \E rec \in CallT : Quiet(c, rec)
    BY Zenon, <1>2, QuietSteps
  <2>. QED BY <2>1, QuietKeeps
<1>3. ASSUME NEW c \in Actors, UpstreamWork(c) PROVE UInv' /\ CatInv'
  BY ZenonT(30), <1>1, <1>2, <1>3, HandshakeBegins, InitializeKeeps, InitializedKeeps, NotFoundKeeps,
     StoreDeleteKeeps, StoreCommitKeeps DEF UpstreamWork
<1>. QED BY <1>2, <1>3, RestartKeeps, WorldKeeps

------------------------------------------------------------------------------
ProbeT == [pc : {"idle", "discover", "handshake", "store", "notify"},
           before : {"unknown", "healthy", "unhealthy"}, out : {"unknown", "healthy", "unhealthy"}]

Active(p) == probe[p].pc \notin {"idle", "notify"}
Waiting == {p \in Probes : At(p, "notify")}

(* Without overlap one probe at most is between reading the row and writing    *)
(* it, and the row is still the one it read.                                   *)
HInv ==
    /\ health \in {"unknown", "healthy", "unhealthy"} /\ due \in Int /\ crossed \in BOOLEAN
    /\ probe \in [Probes -> ProbeT]
    /\ ~crossed =>
          /\ \A p, q \in Probes : Active(p) /\ Active(q) => p = q
          /\ \A p \in Probes : Active(p) => probe[p].before = health
          /\ due = Cardinality(Waiting)

(* A probe uses the handshake cache only while it is at its handshake.         *)
Coupled == \A p \in Probes : ~At(p, "handshake") => Is(p, "idle")

(* How many probes have an alert to raise, when one of them changes.           *)
LEMMA WaitingCount ==
    ASSUME HInv, NEW p \in Probes, NEW rec \in ProbeT, probe' = [probe EXCEPT ![p] = rec]
    PROVE  /\ Cardinality(Waiting) \in Nat
           /\ Cardinality(Waiting') = IF At(p, "notify") /\ rec.pc # "notify" THEN Cardinality(Waiting) - 1
                                      ELSE IF ~At(p, "notify") /\ rec.pc = "notify" THEN Cardinality(Waiting) + 1
                                      ELSE Cardinality(Waiting)
<1>1. IsFiniteSet(Waiting) /\ Cardinality(Waiting) \in Nat
  BY UpstreamAssumption, FS_Subset, FS_CardinalityType DEF Waiting
<1>2. probe'[p] = rec /\ \A q \in Probes \ {p} : probe'[q] = probe[q]
  BY DEF HInv
<1>3. CASE At(p, "notify") /\ rec.pc # "notify"
  <2>1. Waiting' = Waiting \ {p} /\ p \in Waiting
    BY <1>2, <1>3 DEF Waiting, At
  <2>. QED BY Zenon, <1>1, <1>3, <2>1, FS_RemoveElement
<1>4. CASE ~At(p, "notify") /\ rec.pc = "notify"
  <2>1. Waiting' = Waiting \cup {p} /\ p \notin Waiting
    BY <1>2, <1>4 DEF Waiting, At
  <2>. QED BY Zenon, <1>1, <1>4, <2>1, FS_AddElement
<1>5. CASE At(p, "notify") <=> rec.pc = "notify"
  <2>1. Waiting' = Waiting
    BY Zenon, <1>2, <1>5 DEF Waiting, At
  <2>. QED BY <1>1, <1>5, <2>1
<1>. QED BY ZenonT(30), <1>1, <1>3, <1>4, <1>5

(* A probe moves on, before its write or out of its alert, and the row stays.  *)
LEMMA ProbeMoves ==
    ASSUME HInv, NEW p \in Probes, NEW rec \in ProbeT, probe' = [probe EXCEPT ![p] = rec],
           UNCHANGED <<health, crossed>>, rec.pc # "notify",
           rec.pc = "idle" \/ (Active(p) /\ rec.before = probe[p].before),
           due' = IF ~crossed /\ At(p, "notify") THEN due - 1 ELSE due
    PROVE  HInv'
<1>0. /\ probe'[p] = rec /\ (\A q \in Probes \ {p} : probe'[q] = probe[q]) /\ probe' \in [Probes -> ProbeT]
      /\ due \in Int /\ due' \in Int
  BY DEF HInv
<1>1. \A q \in Probes : Active(q)' => Active(q) /\ probe'[q].before = probe[q].before
  BY <1>0 DEF Active
<1>2. ~crossed => due' = Cardinality(Waiting')
  BY Zenon, <1>0, WaitingCount DEF HInv
<1>. QED BY <1>0, <1>1, <1>2 DEF HInv

(* A probe reads the row.                                                      *)
LEMMA PollKeeps ==
    ASSUME HInv, NEW p \in Probes, PollOne(p)
    PROVE  HInv'
<1>. DEFINE rec == [pc |-> "discover", before |-> health, out |-> "unknown"]
<1>0. rec \in ProbeT /\ rec.pc = "discover" /\ rec.before = health /\ probe' = [probe EXCEPT ![p] = rec]
      /\ health' = health
  BY DEF HInv, ProbeT, PollOne
<1>1. /\ crossed' = (crossed \/ \E q \in Probes : Active(q))
      /\ due' = IF crossed' THEN 0 ELSE due
      /\ ~At(p, "notify")
  BY DEF PollOne, Active, At
<1>. HIDE DEF rec
<1>2. /\ probe'[p] = rec /\ (\A q \in Probes \ {p} : probe'[q] = probe[q]) /\ probe' \in [Probes -> ProbeT]
      /\ due' \in Int /\ crossed' \in BOOLEAN
  BY <1>0, <1>1 DEF HInv
<1>3. ~crossed' => ~crossed /\ \A q \in Probes : Active(q)' => q = p
  BY Zenon, <1>1, <1>2 DEF Active
<1>4. ~crossed' => due' = Cardinality(Waiting')
  <2>1. Cardinality(Waiting') = Cardinality(Waiting)
    BY Zenon, <1>0, <1>1, WaitingCount
  <2>. QED BY <1>1, <1>3, <2>1 DEF HInv
<1>. QED BY ZenonT(30), <1>0, <1>2, <1>3, <1>4 DEF HInv

(* A probe writes the row: whether that begins an outage it knows, its row     *)
(* being the one it read.                                                      *)
LEMMA SetHealthKeeps ==
    ASSUME HInv, NEW p \in Probes, SetHealth(p)
    PROVE  HInv'
<1>. DEFINE rec == IF Edge(p) THEN [probe[p] EXCEPT !.pc = "notify"] ELSE NoProbe
<1>0. probe[p] \in ProbeT /\ probe[p].pc = "store" /\ Active(p) /\ ~At(p, "notify")
      /\ health' = probe[p].out /\ crossed' = crossed /\ crossed \in BOOLEAN
      /\ due' = IF ~crossed /\ health # "unhealthy" /\ health' = "unhealthy" THEN due + 1 ELSE due
  BY DEF HInv, SetHealth, Active, At
<1>1. rec \in ProbeT /\ rec.pc = IF Edge(p) THEN "notify" ELSE "idle"
  BY <1>0 DEF ProbeT, NoProbe
<1>2. probe' = [probe EXCEPT ![p] = rec]
  BY DEF SetHealth
<1>. HIDE DEF rec
<1>3. /\ probe'[p] = rec /\ (\A q \in Probes \ {p} : probe'[q] = probe[q]) /\ probe' \in [Probes -> ProbeT]
      /\ due' \in Int /\ health' \in {"unknown", "healthy", "unhealthy"}
  BY <1>0, <1>1, <1>2 DEF HInv, ProbeT
<1>4. ~crossed => \A q \in Probes : ~Active(q)'
  BY Zenon, <1>0, <1>1, <1>3 DEF HInv, Active
<1>5. ~crossed => due' = Cardinality(Waiting')
  <2>1. ~crossed => (Edge(p) <=> health # "unhealthy" /\ health' = "unhealthy")
    BY Zenon, <1>0 DEF HInv, Edge
  <2>2. Cardinality(Waiting') = IF Edge(p) THEN Cardinality(Waiting) + 1 ELSE Cardinality(Waiting)
    BY Zenon, <1>0, <1>1, <1>2, WaitingCount
  <2>. QED BY Zenon, <1>0, <2>1, <2>2 DEF HInv
<1>. QED BY <1>0, <1>3, <1>4, <1>5 DEF HInv

(* Stopped probes leave nothing to raise.                                      *)
LEMMA ProbesCutHealth ==
    ASSUME HInv, ProbesCut
    PROVE  HInv'
<1>0. /\ \A p \in Probes : probe'[p] = NoProbe
      /\ UNCHANGED <<health, crossed>> /\ NoProbe \in ProbeT /\ NoProbe.pc = "idle"
      /\ probe' \in [Probes -> ProbeT]
  BY DEF ProbesCut, NoProbe, ProbeT
<1>1. Waiting' = {} /\ \A p \in Probes : ~Active(p)'
  BY Zenon, <1>0 DEF Waiting, Active, At
<1>2. Cardinality(Waiting) \in Nat /\ Cardinality(Waiting') = 0
  BY Zenon, <1>1, UpstreamAssumption, FS_Subset, FS_CardinalityType, FS_EmptySet DEF Waiting
<1>3. due' = IF crossed THEN due ELSE due - Cardinality(Waiting)
  BY DEF ProbesCut, Waiting
<1>4. due' \in Int /\ (~crossed => due' = 0)
  BY <1>2, <1>3 DEF HInv
<1>. QED BY Zenon, <1>0, <1>1, <1>2, <1>4 DEF HInv

(* No step of the calls, of the world or of another probe wakes a probe.       *)
LEMMA ProbesStayIdle ==
    ASSUME UType, NEW p \in Probes, Is(p, "idle"),
           \/ UpstreamRestarts \/ UpstreamChanges \/ CacheAges \/ Invalidate
           \/ \E c \in Actors : \/ UpstreamWork(c) \/ InitializeFails(c) \/ PostFails(c) \/ Answered(c)
                                \/ Cancelled(c, "failed")
           \/ \E c \in Calls, flag \in BOOLEAN : BridgeCall(c, flag) \/ GetTools(c, flag)
    PROVE  Is(p, "idle")'
<1>0. p \in Actors /\ call \in [Actors -> CallT] /\ p \notin Calls
  BY NoCallType DEF UType, Actors
<1>1. CASE UpstreamRestarts
  BY Zenon, <1>0, <1>1 DEF UpstreamRestarts, Is
<1>2. CASE UpstreamChanges \/ CacheAges \/ Invalidate
  BY Zenon, <1>2 DEF UpstreamChanges, CacheAges, Invalidate, Is
<1>3. ASSUME NEW c \in Actors \ {p}, NEW rec, call' = [call EXCEPT ![c] = rec] PROVE Is(p, "idle")'
  BY Zenon, <1>0, <1>3 DEF Is
<1>4. ASSUME NEW c \in Calls, NEW flag \in BOOLEAN, BridgeCall(c, flag) \/ GetTools(c, flag) PROVE Is(p, "idle")'
  <2>1. c \in Actors \ {p}
    BY Zenon, <1>0 DEF Actors
  <2>. QED BY Zenon, <1>3, <1>4, <2>1 DEF BridgeCall, GetTools
<1>5. ASSUME NEW c \in Actors, InitializeFails(c) \/ PostFails(c) \/ Answered(c) \/ Cancelled(c, "failed")
      PROVE  Is(p, "idle")'
  <2>1. c # p
    BY <1>0, <1>5 DEF InitializeFails, PostFails, Answered, Cancelled, Is
  <2>. QED BY ZenonT(30), <1>3, <1>5, <2>1 DEF InitializeFails, PostFails, Answered, Cancelled, End
<1>6. ASSUME NEW c \in Actors, UpstreamWork(c) PROVE Is(p, "idle")'
  <2>1. c # p
    BY Zenon, <1>6 DEF UpstreamWork
  <2>2. \E rec : call' = [call EXCEPT ![c] = rec]
    <3>1. CASE InitializeFails(c) \/ PostFails(c) \/ StoreCommit(c)
      BY <3>1 DEF InitializeFails, PostFails, StoreCommit, End
    <3>2. CASE GetOrHandshake(c) \/ Locked(c)
      BY <3>2 DEF GetOrHandshake, Locked, Use, Enter, To
    <3>3. CASE Initialize(c) \/ Initialized(c)
      BY <3>3 DEF Initialize, Initialized, To
    <3>4. CASE PostAnswered(c) \/ StoreDelete(c)
      BY <3>4 DEF PostAnswered, StoreDelete, End
    <3>5. CASE PostNotFound(c)
      BY <3>5 DEF PostNotFound, Enter, To
    <3>. QED BY ZenonT(30), <1>6, <3>1, <3>2, <3>3, <3>4, <3>5 DEF UpstreamWork
  <2>. QED BY Zenon, <1>3, <2>1, <2>2
<1>. QED BY Zenon, <1>1, <1>2, <1>4, <1>5, <1>6

(* What the provers need of a step that leaves the upstream's side alone.      *)
LEMMA UpstreamSame ==
    ASSUME UInv, CatInv, UNCHANGED uvars
    PROVE  UInv' /\ CatInv'
<1>0. /\ UNCHANGED <<live, opened, offers, session, aged, lock, call, rows, stores, overtaken, mixed>>
  BY DEF uvars, world, handshakes, catalog
<1>1. UType' /\ LockInv'
  <2>1. aged \in BOOLEAN
    BY Zenon DEF UInv, UType
  <2>. QED BY <1>0, <2>1 DEF UInv, UType, LockInv, Cached
<1>2. ASSUME NEW c \in Actors PROVE ActorOK(c)'
  BY ZenonT(30), <1>0 DEF UInv, ActorOK, NoZombie, Is
<1>3. CatInv'
  BY <1>0 DEF CatInv, CatalogIsOneAnswer, Is
<1>. QED BY <1>1, <1>2, <1>3 DEF UInv

(* The two sides stay in step if only this probe moves on either.              *)
LEMMA CoupledKept ==
    ASSUME UType, HInv, Coupled, NEW p \in Probes, NEW rec \in ProbeT, probe' = [probe EXCEPT ![p] = rec],
           call' = call \/ \E r \in CallT : call' = [call EXCEPT ![p] = r],
           rec.pc = "handshake" \/ call'[p].pc = "idle"
    PROVE  Coupled'
<1>1. p \in Actors /\ probe'[p] = rec /\ \A q \in Probes \ {p} : probe'[q] = probe[q] /\ q \in Actors
  BY DEF HInv, Actors
<1>2. \A q \in Probes \ {p} : call'[q] = call[q]
  BY <1>1 DEF UType
<1>. QED BY <1>1, <1>2 DEF Coupled, At, Is

AllInv == UInv /\ CatInv /\ HInv /\ Coupled

(* Every step of a probe keeps the invariants.                                 *)
LEMMA ProbeKeeps ==
    ASSUME AllInv, NEW p \in Probes,
           \/ PollOne(p) \/ DiscoverFails(p) \/ Discovered(p) \/ Discover(p) \/ HandshakeOutcome(p)
           \/ ProbeDeadline(p) \/ SetHealth(p) \/ Notify(p) \/ ProbeCut(p)
    PROVE  AllInv'
<1>0. /\ UInv /\ CatInv /\ HInv /\ Coupled /\ UType /\ p \in Actors /\ probe[p] \in ProbeT
      /\ call \in [Actors -> CallT] /\ call[p] \in CallT
      /\ NoProbe \in ProbeT /\ NoProbe.pc = "idle"
  BY ZenonT(30) DEF AllInv, HInv, UInv, UType, Actors, NoProbe, ProbeT
<1>1. ASSUME UNCHANGED uvars, ~At(p, "handshake"), HInv', NEW rec \in ProbeT, probe' = [probe EXCEPT ![p] = rec]
      PROVE  AllInv'
  <2>1. call' = call /\ call'[p].pc = "idle"
    BY ZenonT(30), <1>0, <1>1 DEF uvars, Coupled, Is
  <2>. QED BY ZenonT(30), <1>0, <1>1, <2>1, UpstreamSame, CoupledKept DEF AllInv
<1>2. ASSUME NEW out \in {"healthy", "unhealthy"}, Found(p, out), Active(p), UNCHANGED <<health, due, crossed>>
      PROVE  HInv' /\ \E rec \in ProbeT : probe' = [probe EXCEPT ![p] = rec]
  <2>. DEFINE rec == [probe[p] EXCEPT !.pc = "store", !.out = out]
  <2>1. rec \in ProbeT /\ rec.pc = "store" /\ rec.before = probe[p].before /\ probe' = [probe EXCEPT ![p] = rec]
    BY Zenon, <1>0, <1>2 DEF ProbeT, Found
  <2>2. ~At(p, "notify")
    BY Zenon, <1>2 DEF Active, At
  <2>. HIDE DEF rec
  <2>. QED BY Zenon, <1>0, <1>2, <2>1, <2>2, ProbeMoves
<1>3. CASE PollOne(p)
  <2>1. [pc |-> "discover", before |-> health, out |-> "unknown"] \in ProbeT
    BY <1>0 DEF HInv, ProbeT
  <2>. QED BY ZenonT(30), <1>0, <1>1, <1>3, <2>1, PollKeeps DEF PollOne, At
<1>4. CASE DiscoverFails(p) \/ Discovered(p)
  <2>1. /\ UNCHANGED <<uvars, health, due, crossed>> /\ Active(p) /\ ~At(p, "handshake")
        /\ \E out \in {"healthy", "unhealthy"} : Found(p, out)
    BY Zenon, <1>4 DEF DiscoverFails, Discovered, CheckAuthEnforced, Active, At
  <2>. QED BY <1>1, <1>2, <2>1
<1>5. CASE Discover(p)
  <2>. DEFINE rec == [probe[p] EXCEPT !.pc = "handshake"]
  <2>1. rec \in ProbeT /\ rec.pc = "handshake" /\ rec.before = probe[p].before /\ probe' = [probe EXCEPT ![p] = rec]
    BY <1>0, <1>5 DEF ProbeT, Discover
  <2>2. Active(p) /\ ~At(p, "notify") /\ UNCHANGED <<health, due, crossed>> /\ call[p].pc = "idle"
    BY <1>0, <1>5 DEF Discover, Active, At, Coupled, Is
  <2>. HIDE DEF rec
  <2>3. HInv'
    BY Zenon, <1>0, <2>1, <2>2, ProbeMoves
  <2>4. \E r \in CallT : Quiet(p, r)
    BY Zenon, <1>0, <1>5, <2>2, QuietSteps DEF Discover
  <2>5. UInv' /\ CatInv' /\ \E r \in CallT : call' = [call EXCEPT ![p] = r]
    BY ZenonT(30), <1>0, <2>4, QuietKeeps DEF Quiet
  <2>. QED BY Zenon, <1>0, <2>1, <2>3, <2>5, CoupledKept DEF AllInv
<1>6. ASSUME HInv', NEW rec \in ProbeT, probe' = [probe EXCEPT ![p] = rec],
             \E r \in CallT : Quiet(p, r), call'[p].pc = "idle"
      PROVE  AllInv'
  <2>1. UInv' /\ CatInv' /\ \E r \in CallT : call' = [call EXCEPT ![p] = r]
    BY ZenonT(30), <1>0, <1>6, QuietKeeps DEF Quiet
  <2>. QED BY Zenon, <1>0, <1>6, <2>1, CoupledKept DEF AllInv
<1>7. CASE HandshakeOutcome(p)
  <2>1. /\ Active(p) /\ UNCHANGED <<health, due, crossed>>
        /\ \E out \in {"healthy", "unhealthy"} : Found(p, out)
        /\ call[p].pc \in {"ready", "failed"} /\ call' = [call EXCEPT ![p] = NoCall]
        /\ UNCHANGED <<world, handshakes, catalog>>
    BY Zenon, <1>7 DEF HandshakeOutcome, CheckAuthEnforced, Active, At, Is
  <2>2. HInv' /\ \E rec \in ProbeT : probe' = [probe EXCEPT ![p] = rec]
    BY <1>2, <2>1
  <2>3. \E r \in CallT : Quiet(p, r)
    BY Zenon, <1>0, <2>1, QuietSteps DEF Ended
  <2>4. call'[p].pc = "idle"
    BY Zenon, <1>0, <2>1, NoCallType
  <2>. QED BY Zenon, <1>6, <2>2, <2>3, <2>4
<1>8. CASE ProbeDeadline(p)
  <2>1. /\ Active(p) /\ UNCHANGED <<health, due, crossed>> /\ Found(p, "unhealthy") /\ Cancelled(p, "idle")
    BY ZenonT(30), <1>8 DEF ProbeDeadline, Active, At
  <2>2. HInv' /\ \E rec \in ProbeT : probe' = [probe EXCEPT ![p] = rec]
    BY <1>2, <2>1
  <2>3. \E r \in CallT : Quiet(p, r)
    BY <1>0, <2>1, QuietSteps
  <2>4. call'[p].pc = "idle"
    BY <1>0, <2>1, NoCallType DEF Cancelled, End, CallPcs
  <2>. QED BY Zenon, <1>6, <2>2, <2>3, <2>4
<1>9. CASE SetHealth(p)
  <2>1. (IF Edge(p) THEN [probe[p] EXCEPT !.pc = "notify"] ELSE NoProbe) \in ProbeT
    BY <1>0 DEF ProbeT
  <2>2. UNCHANGED uvars /\ ~At(p, "handshake")
        /\ probe' = [probe EXCEPT ![p] = IF Edge(p) THEN [probe[p] EXCEPT !.pc = "notify"] ELSE NoProbe]
    BY <1>9 DEF SetHealth, At
  <2>. QED BY Zenon, <1>0, <1>1, <1>9, <2>1, <2>2, SetHealthKeeps
<1>10. ASSUME Settled(p), probe' = [probe EXCEPT ![p] = NoProbe], UNCHANGED <<health, crossed>> PROVE HInv'
  BY Zenon, <1>0, <1>10, ProbeMoves DEF Settled
<1>11. CASE Notify(p)
  BY Zenon, <1>0, <1>1, <1>10, <1>11 DEF Notify, At
<1>12. CASE ProbeCut(p)
  <2>1. HInv' /\ probe' = [probe EXCEPT ![p] = NoProbe]
    BY <1>10, <1>12 DEF ProbeCut
  <2>2. \E r \in CallT : Quiet(p, r)
    BY <1>0, <1>12, QuietSteps DEF ProbeCut
  <2>3. call'[p].pc = "idle"
    BY Zenon, <1>0, <1>12, NoCallType DEF ProbeCut, Cancelled, End, CallPcs
  <2>. QED BY ZenonT(30), <1>0, <1>6, <2>1, <2>2, <2>3
<1>. QED BY Zenon, <1>3, <1>4, <1>5, <1>7, <1>8, <1>9, <1>11, <1>12

(* The poller's stop.                                                          *)
LEMMA ProbesCutAll ==
    ASSUME AllInv, ProbesCut
    PROVE  AllInv'
<1>1. Coupled'
  BY NoCallType DEF Coupled, ProbesCut, Is, Actors
<1>. QED BY <1>1, ProbesCutKeeps, ProbesCutHealth DEF AllInv

------------------------------------------------------------------------------
(* The upstream's and the poller's side under Operations.                      *)

(* Nothing is cached, held or under way at first.                              *)
LEMMA InitAll ==
    ASSUME Init
    PROVE  AllInv
<1>1. UType
  <2>1. call \in [Actors -> CallT]
    BY NoCallType DEF Init, UpstreamInit
  <2>. QED BY Zenon, <2>1, UpstreamAssumption DEF Init, UpstreamInit, UType
<1>2. LockInv /\ \A c \in Actors : ActorOK(c)
  BY NoCallType DEF Init, UpstreamInit, LockInv, Cached, ActorOK, Is
<1>3. CatInv
  BY NoCallType DEF Init, UpstreamInit, CatInv, CatalogIsOneAnswer, Is, Actors
<1>4. HInv
  <2>1. \A p \in Probes : probe[p] = NoProbe
    BY DEF Init, HealthInit
  <2>2. NoProbe \in ProbeT /\ NoProbe.pc = "idle"
    BY DEF NoProbe, ProbeT
  <2>3. Waiting = {} /\ \A p \in Probes : ~Active(p)
    BY <2>1, <2>2 DEF Waiting, Active, At
  <2>4. probe \in [Probes -> ProbeT] /\ due = 0 /\ health = "unknown" /\ crossed = FALSE
    BY <2>2 DEF Init, HealthInit
  <2>5. Cardinality(Waiting) = 0
    BY <2>3, FS_EmptySet
  <2>6. crossed \in BOOLEAN /\ health \in {"unknown", "healthy", "unhealthy"}
    BY Zenon, <2>4
  <2>. QED BY <2>3, <2>4, <2>5, <2>6 DEF HInv
<1>5. Coupled
  BY NoCallType DEF Init, UpstreamInit, Coupled, Is, Actors
<1>. QED BY ZenonT(30), <1>1, <1>2, <1>3, <1>4, <1>5 DEF AllInv, UInv

(* Steps of the calls and the world, which leave the probes' side alone.       *)
LEMMA CallsKeepAll ==
    ASSUME AllInv, UNCHANGED hvars,
           \/ UpstreamRestarts \/ UpstreamChanges \/ CacheAges \/ Invalidate
           \/ \E c \in Actors : \/ UpstreamWork(c) \/ InitializeFails(c) \/ PostFails(c) \/ Answered(c)
                                \/ Cancelled(c, "failed")
           \/ \E c \in Calls, flag \in BOOLEAN : BridgeCall(c, flag) \/ GetTools(c, flag)
    PROVE  AllInv'
<1>1. UInv' /\ CatInv'
  <2>1. \A c \in Calls : c \in Actors
    BY DEF Actors
  <2>. QED BY <2>1, UpstreamKeeps DEF AllInv
<1>2. HInv'
  BY DEF AllInv, HInv, Active, Waiting, At, hvars
<1>3. \A p \in Probes : Is(p, "idle") => Is(p, "idle")'
  BY ZenonT(30), ProbesStayIdle DEF AllInv, UInv
<1>4. Coupled'
  BY <1>3 DEF AllInv, Coupled, At, hvars
<1>. QED BY <1>1, <1>2, <1>4 DEF AllInv

(* Steps of neither side.                                                      *)
LEMMA StutterAll ==
    ASSUME AllInv, UNCHANGED <<uvars, hvars>>
    PROVE  AllInv'
<1>1. HInv'
  BY DEF AllInv, HInv, Active, Waiting, At, hvars
<1>2. Coupled'
  BY DEF AllInv, Coupled, At, Is, hvars, uvars
<1>. QED BY ZenonT(30), <1>1, <1>2, UpstreamSame DEF AllInv

(* Every step keeps the invariants of the upstream's and the poller's side.    *)
LEMMA StepAll ==
    ASSUME AllInv, [Next]_vars
    PROVE  AllInv'
<1>1. CASE Request \/ World \/ CallFault
  BY <1>1, CallsKeepAll, Zenon DEF Request, World, CallFault
<1>2. CASE CallWork \/ CallLogged
  <2>1. \A c \in Calls : c \in Actors
    BY DEF Actors
  <2>. QED BY <1>2, <2>1, CallsKeepAll, Zenon DEF CallWork, CallLogged
<1>3. CASE Poll \/ ProbeFault
  BY <1>3, ProbeKeeps, Zenon DEF Poll, ProbeFault
<1>4. CASE Probing \/ Alerting
  BY <1>4, ProbeKeeps, Zenon DEF Probing, Alerting, ProbeWork
<1>5. CASE StopPoller
  BY <1>5, ProbesCutAll DEF StopPoller
<1>6. CASE UNCHANGED <<uvars, hvars>>
  BY <1>6, StutterAll
<1>7. CASE Refusal \/ InsertFault \/ WebhookInput \/ OtherAlert \/ Flushing \/ Dispatching
           \/ StopWebhooks \/ StopAudit \/ LastFlush
  <2>1. UNCHANGED <<uvars, hvars>>
    BY <1>7, Zenon DEF Refusal, InsertFault, WebhookInput, OtherAlert, Flushing, Dispatching,
       StopWebhooks, StopAudit, LastFlush
  <2>. QED BY <2>1, <1>6
<1>. QED BY <1>1, <1>2, <1>3, <1>4, <1>5, <1>6, <1>7 DEF Next, Stopped, vars

(* AllInv is an invariant.                                                     *)
THEOREM UpstreamInductive == Spec => []AllInv
<1>1. Init => AllInv
  BY InitAll
<1>2. AllInv /\ [Next]_vars => AllInv'
  BY StepAll
<1>. QED BY <1>1, <1>2, PTL DEF Spec

(* A bridged call is given up only if the upstream restarted during it:        *)
(* whatever calls and probes held, opened or were about to cache when it       *)
(* restarted, one retry is enough (bridge_call, get_or_handshake).             *)
THEOREM RestartsAreAbsorbed == Spec => []RestartIsAbsorbed
<1>1. AllInv => RestartIsAbsorbed
  BY Zenon DEF AllInv, UInv, ActorOK, RestartIsAbsorbed, Actors
<1>. QED BY <1>1, UpstreamInductive, PTL

(* The cached catalog is one answer of the upstream as long as stores do not   *)
(* overlap (toolslist.py, _store).                                             *)
THEOREM CatalogsAreWhole == Spec => []CatalogIsOneAnswer
<1>1. AllInv => CatalogIsOneAnswer
  BY DEF AllInv, CatInv
<1>. QED BY <1>1, UpstreamInductive, PTL

(* Outages and alerts match as long as probes do not overlap                   *)
(* (_probe_and_store).                                                         *)
THEOREM AlertsMatchOutages == Spec => []AlertPerOutage
<1>1. AllInv => AlertPerOutage
  BY DEF AllInv, HInv, Waiting, AlertPerOutage
<1>. QED BY <1>1, UpstreamInductive, PTL
=============================================================================
