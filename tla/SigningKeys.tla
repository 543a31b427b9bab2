----------------------------- MODULE SigningKeys -----------------------------
(* The key that signs upstream tokens: its rotation by the command line        *)
(* (argus/rotate_key.py, rotate_signing_key), the running gateway that follows *)
(* (TokenKeyManager) and the tokens it mints and caches (argus/tokens.py).     *)
(*                                                                            *)
(* A rotation writes three settings rows, one statement each; the gateway      *)
(* reads them back with three statements, from its refresh loop and from the   *)
(* JWKS route, and applies what it read after resolving the references.        *)
(* Nothing orders one's writes and the other's reads.                          *)
(*                                                                            *)
(* A key is its number, and its reference is the key.  One upstream server's   *)
(* cache entry stands for the cache, which has one entry per server.  Time is  *)
(* in units in which a token lives Ttl; seconds lost by truncation are below.  *)
EXTENDS Integers, FiniteSets

CONSTANTS
    Rotators,       \* runs of `rotate-signing-key --apply` that may overlap
    Loop,           \* the refresh loop
    Routes,         \* requests for /.well-known/jwks.json
    Ttl,            \* TOKEN_TTL_SECONDS
    RefreshAfter,   \* the age at which a cached token is minted anew
    OverlapTtls,    \* OVERLAP_TTLS
    MaxTime,        \* bound on the clock
    MaxKeys,        \* bound on keys: rotations that store a key, plus one
    MaxTasks,       \* bound on background re-mints outstanding
    MaxFaults,      \* bound on faults: failed rotations, failed refreshes, restarts
    None            \* no key, no deadline, no token

ASSUME SigningKeysAssumption ==
    /\ None \notin Int
    /\ Ttl \in Nat \ {0} /\ RefreshAfter \in Nat /\ OverlapTtls \in Nat
    /\ OverlapTtls >= 2
    /\ MaxTime \in Nat /\ MaxKeys \in Nat \ {0}
    /\ MaxTasks \in Nat /\ MaxFaults \in Nat
    /\ Loop \notin Routes

Readers == {Loop} \cup Routes
Key == 0..(MaxKeys - 1)
Time == 0..MaxTime
OverlapOneTtl == Ttl
Overlap == OverlapTtls * Ttl
Deadline == 0..(MaxTime + Overlap)
OrNone(S) == S \cup {None}
Row == {"active", "previous", "dropAt"}
RowValue == OrNone(0..(MaxTime + Overlap + MaxKeys))
State == [active : OrNone(Key), previous : OrNone(Key), dropAt : OrNone(Deadline)]

ASSUME NoneAssumption == None \notin State

VARIABLES
    now,            \* the clock
    rows,           \* token_signing_{active_ref, previous_ref, previous_drop_at}
    nextKey,        \* keys below it have been stored with the secret provider
    cli,            \* each rotation: [pc, at, old, new]
    reader,         \* each caller of current(): [pc, got]
    fingerprint,    \* _fingerprint
    issuer,         \* _issuer: the signing key and the previous key still published
    cache,          \* the server's _CachedToken: [key, at, refreshing], or None
    tasks,          \* background re-mints scheduled and not yet run
    lastMint,       \* ghost: when each key signed its youngest unexpired token
    rotatedAt,      \* ghost: the start of the rotation that wrote dropAt last
    torn,           \* ghost: a rotation died between its writes
    had,            \* ghost: the values each row has held
    faults          \* faults so far

settings == <<rows, had, nextKey, cli, rotatedAt, torn>>
manager == <<reader, fingerprint>>
tokens == <<issuer, cache, tasks, lastMint>>
keysVars == <<now, settings, manager, tokens, faults>>

Blank == [active |-> None, previous |-> None, dropAt |-> None]
IdleCli == [pc |-> "idle", at |-> None, old |-> None, new |-> None]
IdleReader == [pc |-> "idle", got |-> Blank]

(* The env reference stands in for a missing active row, so the two are one    *)
(* here: the row holds key 0, or nothing when no key is configured anywhere.   *)
KeysInit ==
    /\ now = 0 /\ faults = 0
    /\ rows \in {Blank, [Blank EXCEPT !.active = 0]}
    /\ had = [r \in Row |-> {rows[r]}]
    /\ nextKey = 1
    /\ cli = [c \in Rotators |-> IdleCli]
    /\ rotatedAt = None /\ torn = FALSE
    /\ reader = [r \in Readers |-> IdleReader]
    /\ fingerprint = None
    /\ issuer = Blank /\ cache = None /\ tasks = 0
    /\ lastMint = [k \in Key |-> None]

------------------------------------------------------------------------------
(* rotate_signing_key.  The clock is read first, then the active reference;    *)
(* without one the command reports an error and changes nothing.               *)
RotateStart(c) ==
    /\ cli[c].pc = "idle"
    /\ rows.active # None /\ nextKey < MaxKeys
    /\ cli' = [cli EXCEPT ![c] = [pc |-> "store", at |-> now, old |-> rows.active, new |-> None]]
    /\ UNCHANGED <<now, rows, had, nextKey, rotatedAt, torn, manager, tokens, faults>>

(* _store_signing_key.                                                         *)
StoreKey(c) ==
    /\ cli[c].pc = "store" /\ nextKey < MaxKeys
    /\ cli' = [cli EXCEPT ![c].pc = "active", ![c].new = nextKey]
    /\ nextKey' = nextKey + 1
    /\ UNCHANGED <<now, rows, had, rotatedAt, torn, manager, tokens, faults>>

SetRow(r, v) ==
    /\ rows' = [rows EXCEPT ![r] = v]
    /\ had' = [had EXCEPT ![r] = @ \cup {v}]

WriteActive(c) ==
    /\ cli[c].pc = "active"
    /\ SetRow("active", cli[c].new)
    /\ cli' = [cli EXCEPT ![c].pc = "previous"]
    /\ UNCHANGED <<now, nextKey, rotatedAt, torn, manager, tokens, faults>>

WritePrevious(c) ==
    /\ cli[c].pc = "previous"
    /\ SetRow("previous", cli[c].old)
    /\ cli' = [cli EXCEPT ![c].pc = "dropAt"]
    /\ UNCHANGED <<now, nextKey, rotatedAt, torn, manager, tokens, faults>>

(* The last write; the check that the new reference resolves and signs reads   *)
(* only what this rotation stored.                                             *)
WriteDropAt(c) ==
    /\ cli[c].pc = "dropAt"
    /\ SetRow("dropAt", cli[c].at + Overlap)
    /\ cli' = [cli EXCEPT ![c] = IdleCli]
    /\ rotatedAt' = cli[c].at /\ torn' = FALSE
    /\ UNCHANGED <<now, nextKey, manager, tokens, faults>>

(* The command ends early: the provider refuses the key, the database fails, or *)
(* the process is killed.                                                      *)
RotateFails(c) ==
    /\ cli[c].pc # "idle" /\ faults < MaxFaults
    /\ faults' = faults + 1
    /\ cli' = [cli EXCEPT ![c] = IdleCli]
    /\ torn' = (torn \/ cli[c].pc \in {"previous", "dropAt"})
    /\ UNCHANGED <<now, rows, had, nextKey, rotatedAt, manager, tokens>>

------------------------------------------------------------------------------
(* _drop_expired_previous, called by jwks() and get_token().                   *)
DropExpired(iss) ==
    IF iss.dropAt # None /\ iss.dropAt <= now
    THEN [Blank EXCEPT !.active = iss.active]
    ELSE iss

(* What _refresh makes of a state it read: no issuer without an active key, no *)
(* previous key unless both of its rows are there.                             *)
Loaded(got) ==
    IF got.active # None /\ got.previous # None /\ got.dropAt # None
    THEN got
    ELSE [Blank EXCEPT !.active = got.active]

(* The JWKS route ends in jwks(); the loop throws the issuer away.             *)
Served(r, iss) == IF r = Loop THEN iss ELSE DropExpired(iss)

(* _read_state, one SELECT at a time.  Requests are served once the lifespan's *)
(* own current() has returned.                                                 *)
ReadActive(r) ==
    /\ reader[r].pc = "idle"
    /\ r = Loop \/ fingerprint # None
    /\ reader' = [reader EXCEPT ![r] = [pc |-> "previous", got |-> [Blank EXCEPT !.active = rows.active]]]
    /\ UNCHANGED <<now, settings, fingerprint, tokens, faults>>

ReadPrevious(r) ==
    /\ reader[r].pc = "previous"
    /\ reader' = [reader EXCEPT ![r] = [pc |-> "dropAt", got |-> [@.got EXCEPT !.previous = rows.previous]]]
    /\ UNCHANGED <<now, settings, fingerprint, tokens, faults>>

ReadDropAtEager(r) ==
    /\ reader[r].pc = "dropAt"
    /\ LET got == [reader[r].got EXCEPT !.dropAt = rows.dropAt]
       IN  /\ reader' = [reader EXCEPT ![r] = IF got = fingerprint THEN IdleReader ELSE [pc |-> "apply", got |-> got]]
           /\ fingerprint' = got
    /\ UNCHANGED <<now, settings, tokens, faults>>

(* The last read, and the comparison that follows it without a pause.          *)
ReadDropAt(r) ==
    /\ reader[r].pc = "dropAt"
    /\ LET got == [reader[r].got EXCEPT !.dropAt = rows.dropAt]
       IN  \/ /\ got = fingerprint
              /\ reader' = [reader EXCEPT ![r] = IdleReader]
              /\ issuer' = Served(r, issuer)
           \/ /\ got # fingerprint
              /\ reader' = [reader EXCEPT ![r] = [pc |-> "apply", got |-> got]]
              /\ UNCHANGED issuer
    /\ UNCHANGED <<now, settings, fingerprint, cache, tasks, lastMint, faults>>

ApplyKeepingCache(r) ==
    /\ reader[r].pc = "apply"
    /\ issuer' = Served(r, Loaded(reader[r].got))
    /\ fingerprint' = reader[r].got
    /\ reader' = [reader EXCEPT ![r] = IdleReader]
    /\ UNCHANGED <<now, settings, cache, tasks, lastMint, faults>>

(* _refresh once the references are resolved: replace_keys (or a new issuer),  *)
(* which empties the cache, and the fingerprint, without a pause.              *)
Apply(r) ==
    /\ reader[r].pc = "apply"
    /\ issuer' = Served(r, Loaded(reader[r].got))
    /\ cache' = None
    /\ fingerprint' = reader[r].got
    /\ reader' = [reader EXCEPT ![r] = IdleReader]
    /\ UNCHANGED <<now, settings, tasks, lastMint, faults>>

ResolveFailsEndsReader(r) ==
    /\ reader[r].pc = "apply" /\ faults < MaxFaults
    /\ faults' = faults + 1
    /\ reader' = [reader EXCEPT ![r].pc = "dead"]
    /\ UNCHANGED <<now, settings, fingerprint, tokens>>

(* A reference does not resolve: the loop logs it, the route answers 500, and  *)
(* the last good issuer stays.  At start the process exits and is restarted.   *)
ResolveFails(r) ==
    /\ reader[r].pc = "apply" /\ faults < MaxFaults
    /\ faults' = faults + 1
    /\ reader' = [reader EXCEPT ![r] = IdleReader]
    /\ UNCHANGED <<now, settings, fingerprint, tokens>>

------------------------------------------------------------------------------
(* _cache_token: a token signed by the key of the moment.                      *)
Mint ==
    /\ cache' = [key |-> issuer.active, at |-> now, refreshing |-> FALSE]
    /\ lastMint' = [lastMint EXCEPT ![issuer.active] = now]

GetTokenMintAnyway ==
    /\ cache # None => now >= cache.at + Ttl
    /\ Mint
    /\ issuer' = DropExpired(issuer)
    /\ UNCHANGED <<now, settings, manager, tasks, faults>>

(* get_token when there is no usable token for the server.                     *)
GetTokenMint ==
    /\ issuer.active # None
    /\ cache # None => now >= cache.at + Ttl
    /\ Mint
    /\ issuer' = DropExpired(issuer)
    /\ UNCHANGED <<now, settings, manager, tasks, faults>>

(* get_token late in the token's life: it is returned once more, and a task is *)
(* scheduled to mint its successor.                                            *)
GetTokenSchedule ==
    /\ issuer.active # None /\ cache # None
    /\ now < cache.at + Ttl /\ now >= cache.at + RefreshAfter /\ ~cache.refreshing
    /\ tasks < MaxTasks
    /\ cache' = [cache EXCEPT !.refreshing = TRUE]
    /\ tasks' = tasks + 1
    /\ issuer' = DropExpired(issuer)
    /\ UNCHANGED <<now, settings, manager, lastMint, faults>>

(* TokenIssuer._refresh, scheduled by an earlier get_token: the keys may have  *)
(* been replaced and the cache emptied since.                                  *)
BackgroundMint ==
    /\ tasks > 0 /\ issuer.active # None
    /\ tasks' = tasks - 1
    /\ Mint
    /\ UNCHANGED <<now, settings, manager, issuer, faults>>

------------------------------------------------------------------------------
Tick ==
    /\ now < MaxTime
    /\ now' = now + 1
    /\ lastMint' = [k \in Key |-> IF lastMint[k] = now' - Ttl THEN None ELSE lastMint[k]]
    /\ UNCHANGED <<settings, manager, issuer, cache, tasks, faults>>

(* The gateway stops and starts: everything but the rows is forgotten.         *)
Restart ==
    /\ faults < MaxFaults
    /\ faults' = faults + 1
    /\ reader' = [r \in Readers |-> IdleReader]
    /\ fingerprint' = None
    /\ issuer' = Blank /\ cache' = None /\ tasks' = 0
    /\ UNCHANGED <<now, settings, lastMint>>

KeysNext ==
    \/ \E c \in Rotators : \/ RotateStart(c) \/ StoreKey(c) \/ WriteActive(c) \/ WritePrevious(c)
                           \/ WriteDropAt(c) \/ RotateFails(c)
    \/ \E r \in Readers : ReadActive(r) \/ ReadPrevious(r) \/ ReadDropAt(r) \/ Apply(r) \/ ResolveFails(r)
    \/ GetTokenMint \/ GetTokenSchedule \/ BackgroundMint
    \/ Tick \/ Restart

(* The loop sleeps a fixed time and catches whatever current() raises.         *)
KeysFairness ==
    /\ WF_keysVars(ReadActive(Loop)) /\ WF_keysVars(ReadPrevious(Loop))
    /\ WF_keysVars(ReadDropAt(Loop)) /\ WF_keysVars(Apply(Loop))

KeysSpec == KeysInit /\ [][KeysNext]_keysVars /\ KeysFairness

------------------------------------------------------------------------------
KeysTypeOK ==
    /\ now \in Time /\ nextKey \in 1..MaxKeys
    /\ rows \in State /\ issuer \in State
    /\ had \in [Row -> SUBSET RowValue]
    /\ cli \in [Rotators -> [pc : {"idle", "store", "active", "previous", "dropAt"},
                             at : OrNone(Time), old : OrNone(Key), new : OrNone(Key)]]
    /\ reader \in [Readers -> [pc : {"idle", "previous", "dropAt", "apply"}, got : State]]
    /\ fingerprint \in OrNone(State)
    /\ cache \in OrNone([key : Key, at : Time, refreshing : BOOLEAN])
    /\ lastMint \in [Key -> OrNone(Time)]
    /\ rotatedAt \in OrNone(Time) /\ torn \in BOOLEAN
    /\ tasks \in 0..MaxTasks /\ faults \in 0..MaxFaults

(* jwks(): the keys a server that fetches the document can verify with.        *)
Published == ({issuer.active, DropExpired(issuer).previous}) \ {None}

(* The issuer is what the manager believes it loaded: it signs with the key    *)
(* the fingerprint names and publishes the previous key until its deadline,    *)
(* whichever of the loop and the routes applied its reading last, and whatever *)
(* refresh failed in between (current, _refresh, replace_keys).                *)
IssuerIsFingerprint ==
    fingerprint # None => DropExpired(issuer) = DropExpired(Loaded(fingerprint))

(* No token outlives the switch to another key in the cache: whatever          *)
(* get_token returns from it is signed by the key that signs now               *)
(* (replace_keys, and the background re-mints scheduled before it).            *)
CachedTokenIsCurrent ==
    cache # None => cache.key = issuer.active

(* An unexpired token whose key is not published, "zero-downtime by            *)
(* construction" failing, always has one of four causes: a rotation is between *)
(* its writes or died there; the gateway has not caught up with the rows; a    *)
(* later rotation has pushed the key out of them; or the gateway went on       *)
(* signing with the key for more than a token lifetime into the rotation.      *)
GapHasCause ==
    \A k \in Key :
        /\ lastMint[k] # None
        /\ k \notin Published
        => \/ torn \/ \E c \in Rotators : cli[c].pc \in {"previous", "dropAt"}
           \/ fingerprint # rows
           \/ k \notin {rows.active, rows.previous}
           \/ lastMint[k] > rotatedAt + Ttl

(* The abstract copy of rows that the manager's fingerprint implements.        *)
Copy == INSTANCE RowCopy WITH
    Row <- Row, Value <- RowValue, Unset <- None,
    source <- rows, copy <- fingerprint, had <- had

(* TokenKeyManager follows the rows: what it holds was read from them row by   *)
(* row, and when it differs from them it is brought up to date, whatever torn  *)
(* read or late write of an older state the loop and the routes produce.       *)
FollowsRows == Copy!Spec
=============================================================================
