---------------------------- MODULE RateLimiter -----------------------------
(* The token bucket of one server key (argus/rate_limiter.py), in its two      *)
(* backends: InMemoryBackend, a bucket per replica on the monotonic clock, and *)
(* ValkeyBackend (argus/rate_limit_valkey.py), one bucket for all replicas on  *)
(* the wall clock of the Valkey server; and the caller that keeps the bucket   *)
(* in line with the policy it read (Metering.check_rate_limits).               *)
(*                                                                            *)
(* Tokens are counted in units of 1/Unit of a token.  "N/period" is a spec     *)
(* with cap = N * Unit and rate = cap / period units per tick.                 *)
EXTENDS Integers, Sequences

CONSTANTS
    Requests,       \* coroutines of tools/call requests
    Replicas,       \* gateway processes
    Specs,          \* rate_limit values: [cap, rate, period]
    Unit,           \* units per token
    Absent,         \* no rate_limit in the policy; no bucket
    Gone,           \* the server row does not exist
    MaxTime,        \* bound on time
    MaxEdits        \* bound on policy changes and clock corrections

(* What a backend keeps for a key: the tokens, when they were last counted, and *)
(* when the bucket expires.                                                    *)
Buckets == [tokens : Nat, last : Nat, expires : Nat]

ASSUME RateAssumption ==
    /\ Unit \in Nat \ {0} /\ MaxTime \in Nat
    /\ {Absent, Gone} \cap Specs = {}
    /\ {Absent, "valkey"} \cap Replicas = {} /\ Absent \notin Buckets
    /\ \A s \in Specs :
        /\ s.rate \in Nat \ {0} /\ s.period \in Nat \ {0}
        /\ s.cap = s.rate * s.period

VARIABLES
    shared,         \* the backend: TRUE for Valkey
    time,           \* real time, which time.monotonic follows
    wall,           \* the wall clock of the Valkey server
    rate_limit,     \* the rate_limit of the stored policy, or Gone
    deleting,       \* the replica whose delete_server has yet to forget the bucket
    edits,          \* policy changes and clock corrections so far
    spec,           \* _specs[srv_key] of each replica
    bucket,         \* the bucket in each slot: Absent or [tokens, last, expires]
    req,            \* the coroutine of each request: [pc, rep, spec]
    window          \* ghost: the calls admitted from a slot under one spec

limiterVars == <<shared, time, wall, rate_limit, deleting, edits, spec, bucket, req, window>>

(* Where the bucket lives that a replica uses.                                 *)
Slots == Replicas \cup {"valkey"}
Slot(rep) == IF shared THEN "valkey" ELSE rep
Clock == IF shared THEN wall ELSE time

NoRequest == [pc |-> "idle", rep |-> Absent, spec |-> Absent]
NoWindow == [spec |-> Absent, admits |-> <<>>]

LimiterInit ==
    /\ shared \in BOOLEAN
    /\ time = 0 /\ wall = 0 /\ edits = 0
    /\ rate_limit \in Specs \cup {Absent} /\ deleting = Absent
    /\ spec = [rep \in Replicas |-> Absent]
    /\ bucket = [s \in Slots |-> Absent]
    /\ req = [r \in Requests |-> NoRequest]
    /\ window = [s \in Slots |-> NoWindow]

------------------------------------------------------------------------------
(* TokenBucket.consume, and the script that mirrors it: refill for the time    *)
(* since the last check, cap, take one token if there is one.  A fresh bucket  *)
(* is full.                                                                    *)
ElapsedSigned(now, last) == now - last
Elapsed(now, last) == IF now < last THEN 0 ELSE now - last

Fresh(s) == [tokens |-> s.cap, last |-> Clock, expires |-> Clock]
Refilled(b, s) ==
    LET tokens == b.tokens + s.rate * Elapsed(Clock, b.last)
    IN  IF tokens > s.cap THEN s.cap ELSE tokens

(* How long an untouched bucket is kept: two periods.                          *)
TtlOneTick(s) == 1
Ttl(s) == 2 * s.period

Allowed(b, s) == Refilled(b, s) >= Unit
Consume(b, s) ==
    [tokens |-> Refilled(b, s) - (IF Allowed(b, s) THEN Unit ELSE 0),
     last |-> Clock, expires |-> Clock + Ttl(s)]

(* The calls a slot admits in a row under the same spec.                       *)
NoteChecked(slot, s, admitted) ==
    LET before == IF window[slot].spec = s THEN window[slot].admits ELSE <<>>
    IN  window' = [window EXCEPT ![slot] =
            [spec |-> s, admits |-> IF admitted THEN Append(before, time) ELSE before]]

clocks == <<shared, time, wall, rate_limit, deleting, edits>>
Return(r) == req' = [req EXCEPT ![r] = NoRequest]

(* A request finds its server and reads its policy once, before the check      *)
(* (get_policies_for).                                                         *)
ReadPolicy(r, rep) ==
    /\ req[r].pc = "idle" /\ rate_limit # Gone
    /\ req' = [req EXCEPT ![r] = [pc |-> "check", rep |-> rep, spec |-> rate_limit]]
    /\ UNCHANGED <<clocks, spec, bucket, window>>

(* check_rate_limits of a policy without a limit: unregister, and no server    *)
(* bucket is consulted.                                                        *)
Unregister(rep) ==
    /\ spec' = [spec EXCEPT ![rep] = Absent]
    /\ bucket' = IF shared THEN bucket ELSE [bucket EXCEPT ![rep] = Absent]
    /\ window' = IF shared THEN window ELSE [window EXCEPT ![rep] = NoWindow]

PassUnlimited(r) ==
    /\ req[r].pc = "check" /\ req[r].spec = Absent
    /\ Unregister(req[r].rep)
    /\ Return(r)
    /\ UNCHANGED clocks

(* InMemoryBackend.ensure_current: a fresh bucket if the spec differs from the *)
(* registered one, the bucket as it is otherwise.                              *)
EnsureCurrentAlways(rep, s) == Fresh(s)
EnsureCurrent(rep, s) == IF spec[rep] = s THEN bucket[rep] ELSE Fresh(s)

(* check_rate_limits with a limit, in memory: no await separates ensure_current *)
(* from the consume, whose lock is never contended.                            *)
CheckInMemory(r) ==
    LET rep == req[r].rep
        s == req[r].spec
        b == EnsureCurrent(rep, s)
    IN  /\ ~shared /\ req[r].pc = "check" /\ s # Absent
        /\ spec' = [spec EXCEPT ![rep] = s]
        /\ bucket' = [bucket EXCEPT ![rep] = Consume(b, s)]
        /\ NoteChecked(rep, s, Allowed(b, s))
        /\ Return(r)
        /\ UNCHANGED clocks

(* ValkeyBackend: the spec is registered locally and its numbers are sent.     *)
RegisterShared(r) ==
    /\ shared /\ req[r].pc = "check" /\ req[r].spec # Absent
    /\ spec' = [spec EXCEPT ![req[r].rep] = req[r].spec]
    /\ req' = [req EXCEPT ![r].pc = "eval"]
    /\ UNCHANGED <<clocks, bucket, window>>

(* The script runs; its reply reaches the caller, or is lost to a timeout and  *)
(* the call is refused although a token is gone.                               *)
Eval(r, heard) ==
    LET s == req[r].spec
        b == IF bucket["valkey"] = Absent THEN Fresh(s) ELSE bucket["valkey"]
    IN  /\ req[r].pc = "eval"
        /\ bucket' = [bucket EXCEPT !["valkey"] = Consume(b, s)]
        /\ NoteChecked("valkey", s, heard /\ Allowed(b, s))
        /\ Return(r)
        /\ UNCHANGED <<clocks, spec>>

(* The backend cannot be reached: RateLimitBackendUnavailable, a refusal.      *)
EvalUnavailable(r) ==
    /\ req[r].pc = "eval"
    /\ Return(r)
    /\ UNCHANGED <<clocks, spec, bucket, window>>

------------------------------------------------------------------------------
(* EXPIRE: an idle bucket is dropped after two periods of its last spec.       *)
Expire ==
    /\ bucket["valkey"] # Absent /\ wall >= bucket["valkey"].expires
    /\ bucket' = [bucket EXCEPT !["valkey"] = Absent]
    /\ UNCHANGED <<clocks, spec, req, window>>

(* set_policy changes the rate limit; on a slug that is gone, the server is    *)
(* first created anew.                                                         *)
SetRateLimit(s) ==
    /\ edits < MaxEdits /\ s # rate_limit
    /\ rate_limit' = s /\ edits' = edits + 1
    /\ UNCHANGED <<shared, time, wall, deleting, spec, bucket, req, window>>

(* delete_server: the row goes, the admin event is written, and the replica    *)
(* that serves the request forgets its bucket.                                 *)
DeleteServer(rep) ==
    /\ edits < MaxEdits /\ rate_limit # Gone /\ deleting = Absent
    /\ rate_limit' = Gone /\ deleting' = rep /\ edits' = edits + 1
    /\ UNCHANGED <<shared, time, wall, spec, bucket, req, window>>

ForgetBucket ==
    /\ deleting # Absent
    /\ Unregister(deleting) /\ deleting' = Absent
    /\ UNCHANGED <<shared, time, wall, rate_limit, edits, req>>

Tick ==
    /\ time < MaxTime
    /\ time' = time + 1 /\ wall' = wall + 1
    /\ UNCHANGED <<shared, rate_limit, deleting, edits, spec, bucket, req, window>>

(* The wall clock is set back.                                                 *)
SetClockBack(w) ==
    /\ shared /\ edits < MaxEdits /\ w < wall
    /\ wall' = w /\ edits' = edits + 1
    /\ UNCHANGED <<shared, time, rate_limit, deleting, spec, bucket, req, window>>

LimiterNext ==
    \/ \E r \in Requests :
        \/ \E rep \in Replicas : ReadPolicy(r, rep)
        \/ PassUnlimited(r) \/ CheckInMemory(r) \/ RegisterShared(r) \/ EvalUnavailable(r)
        \/ \E heard \in BOOLEAN : Eval(r, heard)
    \/ Expire \/ Tick \/ ForgetBucket
    \/ \E s \in Specs \cup {Absent} : SetRateLimit(s)
    \/ \E rep \in Replicas : DeleteServer(rep)
    \/ \E w \in 0..MaxTime : SetClockBack(w)

LimiterSpec == LimiterInit /\ [][LimiterNext]_limiterVars

------------------------------------------------------------------------------
(* A bucket never goes below empty, whatever the wall clock does, and never    *)
(* holds more than the largest limit: the elapsed < 0 guard of the script, the *)
(* cap and the >= 1 test of TokenBucket.consume.                               *)
BucketOK(b) ==
    /\ b.tokens >= 0 /\ \E s \in Specs : b.tokens <= s.cap
    /\ b.last \in 0..time /\ b.expires \in Nat
LimiterTypeOK ==
    /\ shared \in BOOLEAN /\ time \in 0..MaxTime /\ wall \in 0..time
    /\ rate_limit \in Specs \cup {Absent, Gone} /\ deleting \in Replicas \cup {Absent}
    /\ spec \in [Replicas -> Specs \cup {Absent}]
    /\ \A s \in Slots : bucket[s] # Absent => BucketOK(bucket[s])
    /\ \A r \in Requests : req[r].pc \in {"idle", "check", "eval"} /\ req[r].spec \in Specs \cup {Absent}

(* Over every stretch of real time, a bucket checked under one limit admits no *)
(* more calls than a full bucket plus what the stretch refills.  It holds when *)
(* requests of two replicas interleave, when a policy edit leaves requests     *)
(* with the old limit in flight, when the wall clock is set back, when a reply *)
(* is lost, and when an idle bucket expires (TokenBucket.consume, the Lua      *)
(* script, ensure_current).                                                    *)
WindowLimit ==
    \A slot \in Slots :
        LET w == window[slot] IN
        \A i, j \in DOMAIN w.admits : i <= j =>
            (j - i + 1) * Unit <= w.spec.cap + w.spec.rate * (w.admits[j] - w.admits[i])

(* An expired bucket had nothing left to remember: dropping it is the same as  *)
(* keeping it, for every limit that was used on it last (the EXPIRE comment of *)
(* the script).                                                                *)
ExpiryForgetsNothing ==
    [][Expire => Refilled(bucket["valkey"], window["valkey"].spec) = window["valkey"].spec.cap]_limiterVars
=============================================================================
