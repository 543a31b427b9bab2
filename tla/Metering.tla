------------------------------ MODULE Metering ------------------------------
(* Call quotas over the usage rollups (argus/metering.py, db/repo.py UsageRepo) *)
(* and the 80% / 100% alerts (stoa/webhooks.py, fire_quota_threshold), for the *)
(* concurrent tools/calls of a gateway process.                                *)
(*                                                                            *)
(* A quota check reads a total, and the increment comes several awaits later:  *)
(* the alert, the evaluation and the audit row lie in between.  Both fail      *)
(* open.  The sum of the hour buckets since a period began is the all-time     *)
(* total less the total at that beginning.                                     *)
EXTENDS Integers, Sequences, FiniteSets

CONSTANTS
    Calls,          \* coroutines: the number of calls in flight at once
    Keys,           \* API keys with a quota
    Quota,          \* quota_calls of each key
    StartUsage,     \* usage that may stand when the process starts
    FiredMax,       \* _QUOTA_FIRED_MAX_ENTRIES
    Subscribed,     \* what _load_config may find of the "quota" event: a set of BOOLEANs
    MaxPeriod,      \* bound on billing periods
    MaxStarts,      \* bound on calls made
    None            \* no key, no period, no alert

ASSUME MeteringAssumption ==
    /\ IsFiniteSet(Calls) /\ Calls # {}
    /\ Quota \in Nat \ {0} /\ StartUsage \subseteq 0..Quota /\ MaxPeriod \in Nat
    /\ FiredMax \in Nat \ {0} /\ Subscribed \subseteq BOOLEAN /\ None \notin Nat

Periods == 0..MaxPeriod
Thresholds == {80, 100}

VARIABLES
    period,         \* the current billing period
    total,          \* usage_rollups: calls ever counted for a key
    mark,           \* that total when each period began
    call,           \* each coroutine: [pc, key, since, level, adm]
    fired,          \* _quota_fired, in insertion order: [key, period, level]
    alerts,         \* ghost: quota events this process sent: [key, period, level, held]
    admitted,       \* ghost: calls of a key let past the quota in this period
    free,           \* ghost: of them, admitted because the total could not be read
    lost,           \* ghost: of them, not counted because the write failed
    starts          \* calls made so far

vars == <<period, total, mark, call, fired, alerts, admitted, free, lost, starts>>

Idle == [pc |-> "idle", key |-> None, since |-> None, level |-> None, adm |-> None]
At(c, pc) == call[c].pc = pc
Goto(c, pc) == call' = [call EXCEPT ![c].pc = pc]
ToRecord(c) ==
    call' = [call EXCEPT ![c] = [Idle EXCEPT !.pc = "record", !.key = call[c].key, !.adm = call[c].adm]]

Init ==
    /\ period = 0 /\ starts = 0
    /\ total \in [Keys -> StartUsage]
    /\ mark = [k \in Keys |-> [p \in Periods |-> 0]]
    /\ call = [c \in Calls |-> Idle]
    /\ fired = <<>> /\ alerts = <<>>
    /\ admitted = total
    /\ free = [k \in Keys |-> 0] /\ lost = [k \in Keys |-> 0]

------------------------------------------------------------------------------
(* A call arrives and passes authentication.                                   *)
Start(c, k) ==
    /\ At(c, "idle") /\ starts < MaxStarts
    /\ starts' = starts + 1
    /\ call' = [call EXCEPT ![c] = [Idle EXCEPT !.pc = "rate", !.key = k]]
    /\ UNCHANGED <<period, total, mark, fired, alerts, admitted, free, lost>>

(* The rate limiter refuses it: it is counted all the same.                    *)
RateRefused(c) ==
    /\ At(c, "rate")
    /\ ToRecord(c)
    /\ UNCHANGED <<period, total, mark, fired, alerts, admitted, free, lost, starts>>

(* check_quota works out when the period began, then asks for the total.       *)
RatePassed(c) ==
    /\ At(c, "rate")
    /\ call' = [call EXCEPT ![c].pc = "quota", ![c].since = period]
    /\ UNCHANGED <<period, total, mark, fired, alerts, admitted, free, lost, starts>>

(* UsageRepo.total_since.                                                      *)
TotalSince(k, since) == total[k] - mark[k][since]

(* _maybe_fire_quota_webhook: the thresholds that this call, counted, crosses; *)
(* the highest of them fires.                                                  *)
Crossed(projected) ==
    {t \in Thresholds : 100 * (projected - 1) < t * Quota /\ t * Quota <= 100 * projected}
Highest(S) == CHOOSE t \in S : \A u \in S : u <= t

AdmitsOneMore(used) == used <= Quota
Admits(used) == used < Quota

CountAdmitted(c) == admitted' = [admitted EXCEPT ![call[c].key] = @ + 1]
Admit(c) ==
    /\ call' = [call EXCEPT ![c] = [Idle EXCEPT !.pc = "record", !.key = call[c].key, !.adm = period]]
    /\ CountAdmitted(c)
AdmitWithAlert(c, level) ==
    /\ call' = [call EXCEPT ![c].pc = "alert", ![c].level = level, ![c].adm = period]
    /\ CountAdmitted(c)

QuotaRead(c) ==
    LET used == TotalSince(call[c].key, call[c].since)
        crossed == Crossed(used + 1)
    IN  /\ At(c, "quota")
        /\ \/ Admits(used) /\ crossed # {} /\ AdmitWithAlert(c, Highest(crossed))
           \/ Admits(used) /\ crossed = {} /\ Admit(c)
           \/ ~Admits(used) /\ ToRecord(c) /\ UNCHANGED admitted
        /\ UNCHANGED <<period, total, mark, fired, alerts, free, lost, starts>>

(* The total cannot be read: the call goes on as if there were no quota.       *)
QuotaReadFails(c) ==
    /\ At(c, "quota")
    /\ Admit(c)
    /\ free' = [free EXCEPT ![call[c].key] = @ + 1]
    /\ UNCHANGED <<period, total, mark, fired, alerts, lost, starts>>

------------------------------------------------------------------------------
(* fire_quota_threshold: the configuration is loaded first.                    *)
LoadConfig(c, on) ==
    /\ At(c, "alert")
    /\ IF on THEN Goto(c, "fire") ELSE ToRecord(c)
    /\ UNCHANGED <<period, total, mark, fired, alerts, admitted, free, lost, starts>>

(* Under the lock: has this threshold, or a higher one, fired this period?     *)
Entry(c) == {i \in DOMAIN fired : fired[i].key = call[c].key /\ fired[i].period = call[c].since}
AlreadyFiredNever(c) == FALSE
AlreadyFired(c) == \E i \in Entry(c) : fired[i].level >= call[c].level

(* Setting an entry of the dict keeps its place; past the cap, the older half  *)
(* is dropped.                                                                 *)
Remember(c) ==
    LET new == [key |-> call[c].key, period |-> call[c].since, level |-> call[c].level]
    IN  IF Entry(c) = {} THEN Append(fired, new)
        ELSE [i \in DOMAIN fired |-> IF i \in Entry(c) THEN new ELSE fired[i]]
EvictNever(s) == s
Evict(s) == IF Len(s) > FiredMax THEN SubSeq(s, Len(s) \div 2 + 1, Len(s)) ELSE s

(* Ghost: an alert is held until the eviction drops its entry.                 *)
NoteForgotten(sent) ==
    [i \in DOMAIN sent |-> [sent[i] EXCEPT !.held = @ /\ \E j \in DOMAIN fired' :
        fired'[j].key = sent[i].key /\ fired'[j].period = sent[i].period]]

Fire(c) ==
    /\ At(c, "fire")
    /\ \/ AlreadyFired(c) /\ UNCHANGED <<fired, alerts>>
       \/ /\ ~AlreadyFired(c)
          /\ fired' = Evict(Remember(c))
          /\ alerts' = NoteForgotten(Append(alerts,
                  [key |-> call[c].key, period |-> call[c].since, level |-> call[c].level, held |-> TRUE]))
    /\ ToRecord(c)
    /\ UNCHANGED <<period, total, mark, admitted, free, lost, starts>>

------------------------------------------------------------------------------
(* record_usage: one atomic upsert into the bucket of the present hour, or a   *)
(* failure that is logged and swallowed.  The call then goes upstream, or is   *)
(* answered with its refusal.                                                  *)
CountedNever(ok) == 0
Counted(ok) == IF ok THEN 1 ELSE 0
InThisPeriod(c) == call[c].adm = period
RecordUsage(c, ok) ==
    LET k == call[c].key
    IN  /\ At(c, "record")
        /\ total' = [total EXCEPT ![k] = @ + Counted(ok)]
        /\ lost' = [lost EXCEPT ![k] = @ + (IF ~ok /\ InThisPeriod(c) THEN 1 ELSE 0)]
        /\ call' = [call EXCEPT ![c] = Idle]
        /\ UNCHANGED <<period, mark, fired, alerts, admitted, free, starts>>

(* The call is cancelled before it is counted: it does not go upstream.        *)
Pending(k) == {c \in Calls : call[c].key = k /\ InThisPeriod(c)}
Abandon(c) ==
    /\ ~At(c, "idle")
    /\ admitted' = [admitted EXCEPT ![call[c].key] = @ - (IF InThisPeriod(c) THEN 1 ELSE 0)]
    /\ call' = [call EXCEPT ![c] = Idle]
    /\ UNCHANGED <<period, total, mark, fired, alerts, free, lost, starts>>

(* The process restarts: calls in flight are gone, and so is _quota_fired.     *)
Restart ==
    /\ \E c \in Calls : ~At(c, "idle")
    /\ admitted' = [k \in Keys |-> admitted[k] - Cardinality(Pending(k))]
    /\ call' = [c \in Calls |-> Idle]
    /\ fired' = <<>> /\ alerts' = <<>>
    /\ UNCHANGED <<period, total, mark, free, lost, starts>>

(* A day or a month begins (UTC): period_start gives a new instant, later than *)
(* every bucket so far.                                                        *)
NextPeriod ==
    /\ period < MaxPeriod
    /\ period' = period + 1
    /\ mark' = [k \in Keys |-> [mark[k] EXCEPT ![period + 1] = total[k]]]
    /\ admitted' = [k \in Keys |-> 0]
    /\ free' = [k \in Keys |-> 0] /\ lost' = [k \in Keys |-> 0]
    /\ UNCHANGED <<total, call, fired, alerts, starts>>

Next ==
    \/ \E c \in Calls :
        \/ \E k \in Keys : Start(c, k)
        \/ RateRefused(c) \/ RatePassed(c) \/ QuotaRead(c) \/ QuotaReadFails(c)
        \/ \E on \in Subscribed : LoadConfig(c, on)
        \/ Fire(c)
        \/ \E ok \in BOOLEAN : RecordUsage(c, ok)
        \/ Abandon(c)
    \/ Restart \/ NextPeriod

Spec == Init /\ [][Next]_vars

------------------------------------------------------------------------------
Used(k) == TotalSince(k, period)

(* The state is well formed; a key's total never falls below a mark, so that   *)
(* every sum since a period began is a natural number (UsageRepo.total_since); *)
(* and _quota_fired stays within its bound.                                    *)
PCs == {"idle", "rate", "quota", "alert", "fire", "record"}
CallStates ==
    [pc : PCs, key : Keys \cup {None}, since : Periods \cup {None},
     level : Thresholds \cup {None}, adm : Periods \cup {None}]
TypeOK ==
    /\ period \in Periods /\ starts \in Nat
    /\ total \in [Keys -> Nat] /\ mark \in [Keys -> [Periods -> Nat]]
    /\ call \in [Calls -> CallStates]
    /\ fired \in Seq([key : Keys, period : Periods, level : Thresholds]) /\ Len(fired) <= FiredMax
    /\ \A k \in Keys, p \in Periods : mark[k][p] <= total[k]
    /\ admitted \in [Keys -> Nat] /\ free \in [Keys -> Nat] /\ lost \in [Keys -> Nat]

(* Every call let past the quota in this period is counted in the rollups, or  *)
(* still in flight, or its write failed: cancellations, restarts and the turn  *)
(* of a period between the check and the write lose none (record_usage).       *)
Accounted ==
    \A k \in Keys : admitted[k] <= Used(k) + Cardinality(Pending(k)) + lost[k]

(* The quota is soft, and this is how soft: in one period a key passes at most *)
(* its quota, plus the calls that can be in flight beside the last one, plus   *)
(* those admitted or uncounted because the database failed (check_quota's      *)
(* check-then-count window and its two fail-open paths).                       *)
OvershootBounded ==
    \A k \in Keys : admitted[k] <= Quota + (Cardinality(Calls) - 1) + free[k] + lost[k]

(* What holds of a coroutine at each of its program points.                    *)
CallOK(x) ==
    /\ x.pc = "idle" => x = Idle
    /\ x.pc # "idle" => x.key \in Keys
    /\ x.pc \in {"quota", "alert", "fire"} => x.since \in 0..period
    /\ x.pc \in {"alert", "fire"} => x.level \in Thresholds
    /\ x.pc \in {"rate", "quota"} => x.adm = None
    /\ x.adm # None => x.adm \in 0..period

(* Periods that began later began with a higher total.                         *)
MarksAscend == \A k \in Keys : \A p, q \in 0..period : p <= q => mark[k][p] <= mark[k][q]

(* Only a call that was admitted is taken back when it is cancelled.           *)
PendingAdmitted == \A k \in Keys : Cardinality(Pending(k)) <= admitted[k]

(* The inductive invariant.                                                    *)
Inv ==
    /\ TypeOK /\ \A c \in Calls : CallOK(call[c])
    /\ MarksAscend /\ PendingAdmitted /\ Accounted /\ OvershootBounded

(* While it remembers a key's last alert of a period, a process sends that key *)
(* only higher ones: each threshold once and the lower first, however the      *)
(* calls that cross it interleave, also when the period turns before they get  *)
(* to the lock.  What the eviction of _quota_fired drops may be sent again     *)
(* (fire_quota_threshold).                                                     *)
AlertsAscend ==
    \A i, j \in DOMAIN alerts :
        (/\ i < j /\ alerts[i].held
         /\ alerts[i].key = alerts[j].key /\ alerts[i].period = alerts[j].period)
            => alerts[i].level < alerts[j].level

(* docs/quotas.md: "A threshold fires once when a call pushes a key's usage    *)
(* past 80% of its quota, and once more at 100%".                              *)
ReachedIsAlerted ==
    \A k \in Keys :
        (/\ \A c \in Calls : At(c, "idle")
         /\ Used(k) >= Quota /\ free[k] = 0 /\ lost[k] = 0)
            => \E i \in DOMAIN alerts :
                   alerts[i].key = k /\ alerts[i].period = period /\ alerts[i].level = 100
=============================================================================
