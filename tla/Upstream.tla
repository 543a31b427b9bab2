------------------------------ MODULE Upstream ------------------------------
(* One 2025-generation upstream server as the gateway sees it: the cached      *)
(* `initialize` handshake that bridged calls and health probes share           *)
(* (argus/upstream.py), the retry of a bridged call whose session is gone      *)
(* (argus/bridge.py) and the cached tool catalog (argus/toolslist.py,          *)
(* argus/aggregate_pipeline.py).                                               *)
(*                                                                            *)
(* The upstream is external: it knows sessions until it restarts, is reachable *)
(* or not, and offers one list of tools after another.  Two things about the   *)
(* database matter here and are modelled as Postgres does them: a transaction  *)
(* is seen when it commits, and a DELETE sees the rows committed when it began. *)
EXTENDS Naturals, FiniteSets

CONSTANTS
    Calls,          \* bridged calls and catalog fetches under way at once
    Probes,         \* health probes under way at once
    Catalogs,       \* the tool lists the upstream offers, one after another
    Nobody          \* holds no lock

ASSUME UpstreamAssumption ==
    /\ Calls \cap Probes = {} /\ Nobody \notin Calls \cup Probes
    /\ 1 \in DOMAIN Catalogs
    /\ IsFiniteSet(Probes)

Actors == Calls \cup Probes

VARIABLES
    reachable,      \* the upstream answers
    live,           \* sessions the upstream knows
    opened,         \* sessions it has opened so far, numbered from 1
    offers,         \* the version of its tool list
    session,        \* the cached handshake's session, or 0
    aged,           \* the cached handshake is past its TTL
    lock,           \* who holds the server's handshake lock
    call,           \* actors: [pc, kind, sess, first, ver, seen, restarted]
    rows,           \* tools_cache: [tool, ver, store]
    stale,          \* the rows are past their ttl_ms
    stores,         \* catalog stores so far
    overtaken,      \* ghost: stores under way whose DELETE missed a commit since
    mixed           \* ghost: the last store to commit was one of these

world == <<reachable, live, opened, offers>>
handshakes == <<session, aged, lock>>
catalog == <<rows, stale, stores, overtaken, mixed>>
uvars == <<world, handshakes, catalog, call>>

NoCall == [pc |-> "idle", kind |-> "call", sess |-> 0, first |-> 0, ver |-> 0, seen |-> {}, restarted |-> FALSE]

UpstreamInit ==
    /\ reachable = TRUE /\ live = {} /\ opened = 0 /\ offers = 1
    /\ session = 0 /\ aged = FALSE /\ lock = Nobody
    /\ call = [c \in Actors |-> NoCall]
    /\ rows = {} /\ stale = FALSE /\ stores = 0
    /\ overtaken = {} /\ mixed = FALSE

Is(c, pc) == call[c].pc = pc
To(c, pc) == call' = [call EXCEPT ![c].pc = pc]
End(c, pc) == call' = [call EXCEPT ![c] = [NoCall EXCEPT !.pc = pc]]
Ended == {"answered", "failed", "gone"}

------------------------------------------------------------------------------
(* The world.                                                                  *)
UpstreamRestarts ==
    /\ live' = {}
    /\ call' = [c \in Actors |-> IF Is(c, "idle") THEN call[c] ELSE [call[c] EXCEPT !.restarted = TRUE]]
    /\ UNCHANGED <<reachable, opened, offers, handshakes, catalog>>

UpstreamChanges ==
    /\ \/ reachable' = ~reachable /\ UNCHANGED offers
       \/ offers + 1 \in DOMAIN Catalogs /\ offers' = offers + 1 /\ UNCHANGED reachable
    /\ UNCHANGED <<live, opened, handshakes, catalog, call>>

(* _HANDSHAKE_TTL_SECONDS or the catalog's ttl_ms goes by.                     *)
CacheAges ==
    /\ \/ session # 0 /\ ~aged /\ aged' = TRUE /\ UNCHANGED stale
       \/ rows # {} /\ ~stale /\ stale' = TRUE /\ UNCHANGED aged
    /\ UNCHANGED <<world, session, lock, rows, stores, overtaken, mixed, call>>

------------------------------------------------------------------------------
(* UpstreamHandshakeCache.                                                     *)
Cached == session # 0 /\ ~aged

(* What an actor does with a handshake: a probe is done, the others post.      *)
AfterHandshake(c) == IF c \in Probes THEN "ready" ELSE "post"

Use(c) == call' = [call EXCEPT ![c].pc = AfterHandshake(c), ![c].sess = session]

(* Into `async with self._lock_for(...)`: at once if the lock is free and no   *)
(* one waits for it.                                                           *)
Enter(c, rec) ==
    IF lock = Nobody /\ \A d \in Actors \ {c} : ~Is(d, "lock")
    THEN lock' = c /\ call' = [call EXCEPT ![c] = [rec EXCEPT !.pc = "init"]]
    ELSE UNCHANGED lock /\ call' = [call EXCEPT ![c] = [rec EXCEPT !.pc = "lock"]]

(* get_or_handshake, up to its first pause.                                    *)
GetOrHandshake(c) ==
    /\ Is(c, "get")
    /\ \/ Cached /\ Use(c) /\ UNCHANGED lock
       \/ ~Cached /\ Enter(c, call[c])
    /\ UNCHANGED <<world, session, aged, catalog>>

(* The lock is won after a wait, and the cache looked at again.                *)
Locked(c) ==
    /\ Is(c, "lock") /\ lock = Nobody
    /\ \/ Cached /\ Use(c) /\ UNCHANGED lock
       \/ ~Cached /\ lock' = c /\ To(c, "init")
    /\ UNCHANGED <<world, session, aged, catalog>>

(* _handshake: initialize is answered with a new session ...                   *)
Initialize(c) ==
    /\ Is(c, "init") /\ reachable
    /\ opened' = opened + 1 /\ live' = live \cup {opened'}
    /\ call' = [call EXCEPT ![c].pc = "notify", ![c].sess = opened']
    /\ UNCHANGED <<reachable, offers, handshakes, catalog>>

(* ... or fails: unreachable, not a 200, unparseable, too large.               *)
InitializeFails(c) ==
    /\ Is(c, "init")
    /\ lock' = Nobody /\ End(c, "failed")
    /\ UNCHANGED <<world, session, aged, catalog>>

(* notifications/initialized, whose failure is ignored; the session is stored. *)
Initialized(c) ==
    /\ Is(c, "notify")
    /\ session' = call[c].sess /\ aged' = FALSE /\ lock' = Nobody
    /\ To(c, AfterHandshake(c))
    /\ UNCHANGED <<world, catalog>>

------------------------------------------------------------------------------
(* bridge_call: a lifecycle or unsupported method, or another protocol         *)
(* version, is refused before anything is sent.                                *)
BridgeCall(c, accepted) ==
    /\ Is(c, "idle")
    /\ call' = [call EXCEPT ![c] = [NoCall EXCEPT !.pc = IF accepted THEN "get" ELSE "failed"]]
    /\ UNCHANGED <<world, handshakes, catalog>>

(* The upstream knows the session and answers, a fetch with its tools.         *)
PostAnswered(c) ==
    /\ Is(c, "post") /\ reachable /\ call[c].sess \in live
    /\ \/ call[c].kind = "call" /\ End(c, "answered")
       \/ call[c].kind = "list" /\ call' = [call EXCEPT ![c].pc = "delete", ![c].ver = offers]
    /\ UNCHANGED <<world, handshakes, catalog>>

PostNotFoundKeeps(c) ==
    /\ Is(c, "post") /\ reachable /\ call[c].sess \notin live
    /\ \/ /\ call[c].first = 0
          /\ call' = [call EXCEPT ![c].pc = "get", ![c].first = call[c].sess]
       \/ call[c].first # 0 /\ To(c, "gone")
    /\ UNCHANGED <<world, handshakes, catalog>>

(* 404: the cached handshake, whichever it is by now, is dropped; the first    *)
(* time the call goes on to a new one without a pause, the second time it is   *)
(* given up.                                                                   *)
PostNotFound(c) ==
    /\ Is(c, "post") /\ reachable /\ call[c].sess \notin live
    /\ session' = 0 /\ aged' = FALSE
    /\ \/ call[c].first = 0 /\ Enter(c, [call[c] EXCEPT !.first = call[c].sess])
       \/ call[c].first # 0 /\ To(c, "gone") /\ UNCHANGED lock
    /\ UNCHANGED <<world, catalog>>

(* No answer, or one that does not parse or carries an error.                  *)
PostFails(c) ==
    /\ Is(c, "post")
    /\ End(c, "failed")
    /\ UNCHANGED <<world, handshakes, catalog>>

------------------------------------------------------------------------------
Fresh == rows # {} /\ ~stale

(* get_raw_tools_result: the rows if they are fresh, else a fetch.             *)
GetTools(c, force) ==
    /\ Is(c, "idle")
    /\ call' = [call EXCEPT ![c] = [NoCall EXCEPT !.kind = "list",
                   !.pc = IF Fresh /\ ~force THEN "answered" ELSE "get"]]
    /\ UNCHANGED <<world, handshakes, catalog>>

(* _store: one transaction.  Its DELETE sees the rows committed by now.        *)
StoreDelete(c) ==
    /\ Is(c, "delete")
    /\ call' = [call EXCEPT ![c].pc = "insert", ![c].seen = rows]
    /\ overtaken' = overtaken \ {c}
    /\ UNCHANGED <<world, handshakes, rows, stale, stores, mixed>>

(* Whoever is between DELETE and commit has missed this commit.                *)
NoteCommit(c) ==
    /\ mixed' = (c \in overtaken)
    /\ overtaken' = {d \in Calls \ {c} : Is(d, "insert")}

StoreInsertOnly(c) ==
    LET new == Catalogs[call[c].ver]
    IN  /\ Is(c, "insert")
        /\ rows' = {r \in rows : r.tool \notin new}
                   \cup {[tool |-> t, ver |-> call[c].ver, store |-> stores + 1] : t \in new}
        /\ stores' = stores + 1 /\ stale' = FALSE
        /\ NoteCommit(c)
        /\ End(c, "answered")
        /\ UNCHANGED <<world, handshakes>>

(* The INSERTs, ON CONFLICT DO UPDATE, and the commit.                         *)
StoreCommit(c) ==
    LET new == Catalogs[call[c].ver]
    IN  /\ Is(c, "insert")
        /\ rows' = {r \in rows \ call[c].seen : r.tool \notin new}
                   \cup {[tool |-> t, ver |-> call[c].ver, store |-> stores + 1] : t \in new}
        /\ stores' = stores + 1 /\ stale' = FALSE
        /\ NoteCommit(c)
        /\ End(c, "answered")
        /\ UNCHANGED <<world, handshakes>>

(* invalidate, after a policy write.                                           *)
Invalidate ==
    /\ rows # {}
    /\ rows' = {} /\ stale' = FALSE
    /\ UNCHANGED <<world, handshakes, stores, overtaken, mixed, call>>

(* _fetch_one_server: the deadline of one server in the aggregate list, and    *)
(* wherever else a caller goes away.  The lock is released; a transaction that *)
(* has not committed leaves nothing.                                           *)
Cancelled(c, pc) ==
    /\ call[c].pc \notin Ended \cup {"idle"}
    /\ lock' = IF lock = c THEN Nobody ELSE lock
    /\ End(c, pc)
    /\ UNCHANGED <<world, session, aged, catalog>>

(* The answer is on its way to the caller.                                     *)
Answered(c) ==
    /\ c \in Calls /\ call[c].pc \in Ended
    /\ call' = [call EXCEPT ![c] = NoCall]
    /\ UNCHANGED <<world, handshakes, catalog>>

UpstreamWork(c) ==
    /\ ~Is(c, "idle")
    /\ \/ ~reachable /\ (InitializeFails(c) \/ PostFails(c))
       \/ GetOrHandshake(c) \/ Locked(c) \/ Initialize(c) \/ Initialized(c)
       \/ PostAnswered(c) \/ PostNotFound(c) \/ StoreDelete(c) \/ StoreCommit(c)

------------------------------------------------------------------------------
(* A restart of the upstream is absorbed: a bridged call gives up with         *)
(* "upstream session invalid" only if the upstream restarted during that very  *)
(* call.  However many calls and probes held or opened sessions when it        *)
(* restarted, a call that begins later meets at most one of the dead ones      *)
(* (bridge_call, get_or_handshake, _handshake).                                *)
RestartIsAbsorbed == \A c \in Calls : Is(c, "gone") => call[c].restarted

(* The cached catalog is one whole answer of the upstream, whatever fetches,   *)
(* invalidations and timeouts came between, unless another store committed     *)
(* between the DELETE and the commit of the last one, whose DELETE then missed *)
(* those rows.  A mixed catalog lasts until the next store that none overtakes *)
(* (_store).                                                                   *)
CatalogIsOneAnswer ==
    ~mixed /\ rows # {} =>
        \E v \in DOMAIN Catalogs : {<<r.tool, r.ver>> : r \in rows} = Catalogs[v] \X {v}
=============================================================================
