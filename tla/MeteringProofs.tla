--------------------------- MODULE MeteringProofs ---------------------------
(* How far a soft quota can be overshot and in which order its alerts go out,  *)
(* for any number of keys and calls.                                           *)
EXTENDS Metering, FiniteSetTheorems, SequenceTheorems, TLAPS

(* A leaf that names no prover is tried with SMT, with Zenon, and with SMT     *)
(* once more and for longer.                                                   *)
USE SMT, Zenon, SMTT(30)

(* The state in one conjunct: what the steps below assume.                     *)
Typed == TypeOK /\ \A c \in Calls : CallOK(call[c])

(* The calls in flight are finitely many.                                      *)
LEMMA PendingFinite ==
    ASSUME NEW k \in Keys
    PROVE  /\ IsFiniteSet(Pending(k)) /\ Cardinality(Pending(k)) \in Nat
           /\ Cardinality(Pending(k)) <= Cardinality(Calls) /\ Cardinality(Calls) \in Nat
  BY MeteringAssumption, FS_Subset, FS_CardinalityType DEF Pending

(* A call that is not pending leaves room for itself.                          *)
LEMMA PendingRoom ==
    ASSUME NEW k \in Keys, NEW c \in Calls, c \notin Pending(k)
    PROVE  Cardinality(Pending(k)) <= Cardinality(Calls) - 1
  <1>1. Pending(k) \subseteq Calls \ {c} /\ IsFiniteSet(Calls \ {c})
    BY MeteringAssumption, FS_RemoveElement DEF Pending
  <1>2. Cardinality(Calls \ {c}) = Cardinality(Calls) - 1
    BY MeteringAssumption, FS_RemoveElement
  <1> QED
    BY <1>1, <1>2, FS_Subset

(* The highest threshold crossed is one of those crossed.                      *)
LEMMA HighestIs ==
    ASSUME NEW S \in SUBSET Thresholds, S # {}
    PROVE  Highest(S) \in S
  <1>1. \A u \in S : u = 80 \/ u = 100
    BY DEF Thresholds
  <1>2. \E t \in S : \A u \in S : u <= t
    <2>1. CASE 100 \in S
      BY <1>1, <2>1
    <2>2. CASE 100 \notin S
      BY <1>1, <2>2
    <2> QED
      BY <2>1, <2>2
  <1> QED
    BY <1>2 DEF Highest

(* The initial state.                                                          *)
LEMMA InitInv == Init => Inv
  <1> SUFFICES ASSUME Init PROVE Inv
    OBVIOUS
  <1>0. /\ StartUsage \subseteq Nat /\ total \in [Keys -> StartUsage] /\ 0 \in Periods
        /\ mark = [k \in Keys |-> [p \in Periods |-> 0]]
    BY MeteringAssumption DEF Init, Periods
  <1>1. TypeOK
    <2>1. period \in Periods /\ starts \in Nat /\ total \in [Keys -> Nat] /\ admitted \in [Keys -> Nat]
      BY Zenon, <1>0 DEF Init
    <2>2. mark \in [Keys -> [Periods -> Nat]]
      BY <1>0
    <2>3. \A k \in Keys, p \in Periods : mark[k][p] <= total[k]
      <3>1. \A k \in Keys : total[k] \in Nat
        BY Zenon, <1>0
      <3> QED
        BY <1>0, <3>1
    <2>4. free \in [Keys -> Nat] /\ lost \in [Keys -> Nat]
      BY DEF Init
    <2>5. call \in [Calls -> CallStates]
      <3>1. Idle \in CallStates
        BY DEF Idle, CallStates, PCs
      <3> QED
        BY <3>1 DEF Init
    <2>6. fired \in Seq([key : Keys, period : Periods, level : Thresholds]) /\ Len(fired) <= FiredMax
      <3>1. fired = <<>> /\ 0 <= FiredMax
        BY MeteringAssumption DEF Init
      <3> QED
        BY <3>1
    <2> QED
      BY <2>1, <2>2, <2>3, <2>4, <2>5, <2>6 DEF TypeOK
  <1>2. \A c \in Calls : CallOK(call[c]) /\ call[c].adm = None
    BY DEF Init, CallOK, Idle, At
  <1>3. \A k \in Keys : Pending(k) = {}
    BY <1>2, MeteringAssumption DEF Init, Pending, InThisPeriod
  <1>4. \A k \in Keys : Cardinality(Pending(k)) = 0
    BY <1>3, FS_EmptySet
  <1>5. Cardinality(Calls) \in Nat \ {0}
    BY MeteringAssumption, FS_CardinalityType, FS_EmptySet
  <1>6. \A k \in Keys : admitted[k] = total[k] /\ total[k] \in 0..Quota /\ mark[k][0] = 0
                        /\ free[k] = 0 /\ lost[k] = 0
    <2>1. admitted = total /\ free = [k \in Keys |-> 0] /\ lost = [k \in Keys |-> 0]
      BY DEF Init
    <2>2. \A k \in Keys : total[k] \in 0..Quota
      BY Zenon, <1>0, MeteringAssumption
    <2>3. \A k \in Keys : mark[k][0] = 0
      BY <1>0
    <2> QED
      BY <2>1, <2>2, <2>3
  <1>7. MarksAscend
    BY MeteringAssumption DEF Init, MarksAscend, Periods
  <1>8. PendingAdmitted /\ Accounted /\ OvershootBounded
    BY <1>4, <1>5, <1>6, MeteringAssumption
       DEF Init, PendingAdmitted, Accounted, OvershootBounded, Used, TotalSince
  <1> QED
    BY <1>1, <1>2, <1>7, <1>8 DEF Inv

------------------------------------------------------------------------------
(* One coroutine moves, the others stand still.                                *)
Moves(c, x) == call' = [call EXCEPT ![c] = x]

(* What the actions on a call make of its record.                              *)
LEMMA Moved ==
    ASSUME Typed, NEW c \in Calls
    PROVE  /\ \A pc : Goto(c, pc) => Moves(c, [call[c] EXCEPT !.pc = pc])
           /\ ToRecord(c) => Moves(c, [Idle EXCEPT !.pc = "record", !.key = call[c].key, !.adm = call[c].adm])
           /\ \A l : AdmitWithAlert(c, l) =>
                  Moves(c, [call[c] EXCEPT !.pc = "alert", !.level = l, !.adm = period])
           /\ RatePassed(c) => Moves(c, [call[c] EXCEPT !.pc = "quota", !.since = period])
  <1>1. call \in [Calls -> CallStates] /\ call[c] \in CallStates
    BY DEF Typed, TypeOK
  <1>2. \A pc : Goto(c, pc) => Moves(c, [call[c] EXCEPT !.pc = pc])
    BY <1>1 DEF Goto, Moves
  <1>3. ToRecord(c) => Moves(c, [Idle EXCEPT !.pc = "record", !.key = call[c].key, !.adm = call[c].adm])
    BY DEF ToRecord, Moves
  <1>4. \A l : AdmitWithAlert(c, l) =>
            Moves(c, [call[c] EXCEPT !.pc = "alert", !.level = l, !.adm = period])
    BY Zenon, <1>1 DEF AdmitWithAlert, Moves
  <1>5. RatePassed(c) => Moves(c, [call[c] EXCEPT !.pc = "quota", !.since = period])
    BY Zenon, <1>1 DEF RatePassed, Moves
  <1> QED
    BY Zenon, <1>2, <1>3, <1>4, <1>5

(* The pending calls when a coroutine moves within a period.                   *)
LEMMA PendingKept ==
    ASSUME Typed, period' = period, NEW c \in Calls, NEW x, Moves(c, x),
           x.adm = call[c].adm, x.key = call[c].key \/ x.adm = None
    PROVE  \A k \in Keys : Pending(k)' = Pending(k)
  <1>1. call \in [Calls -> CallStates] /\ period \in Nat /\ None \notin Nat
    BY MeteringAssumption DEF Typed, TypeOK, Periods
  <1> QED
    BY <1>1 DEF Moves, Pending, InThisPeriod

(* A call that is admitted becomes pending, and was not before.               *)
LEMMA PendingGains ==
    ASSUME Typed, period' = period, NEW c \in Calls, NEW x, Moves(c, x),
           NEW k \in Keys, call[c].key = k, call[c].adm = None, x.adm = period, x.key = k
    PROVE  /\ \A j \in Keys : j # k => Pending(j)' = Pending(j)
           /\ Cardinality(Pending(k)') = Cardinality(Pending(k)) + 1
           /\ Cardinality(Pending(k)) <= Cardinality(Calls) - 1
  <1>1. call \in [Calls -> CallStates] /\ period \in Nat /\ None \notin Nat
    BY MeteringAssumption DEF Typed, TypeOK, Periods
  <1>2. \A j \in Keys : j # k => Pending(j)' = Pending(j)
    BY <1>1 DEF Moves, Pending, InThisPeriod
  <1>3. Pending(k)' = Pending(k) \cup {c} /\ c \notin Pending(k)
    BY <1>1 DEF Moves, Pending, InThisPeriod
  <1>4. Cardinality(Pending(k)') = Cardinality(Pending(k)) + 1
    BY Zenon, <1>3, PendingFinite, FS_AddElement
  <1> QED
    BY <1>2, <1>3, <1>4, PendingRoom

(* A call that leaves its record step is pending no more.                     *)
LEMMA PendingDrops ==
    ASSUME Typed, period' = period, NEW c \in Calls, Moves(c, Idle),
           NEW k \in Keys, call[c].key = k
    PROVE  /\ \A j \in Keys : j # k => Pending(j)' = Pending(j)
           /\ Cardinality(Pending(k)') =
                  Cardinality(Pending(k)) - (IF InThisPeriod(c) THEN 1 ELSE 0)
           /\ InThisPeriod(c) => Cardinality(Pending(k)) >= 1
  <1>1. call \in [Calls -> CallStates] /\ period \in Nat /\ None \notin Nat
    BY MeteringAssumption DEF Typed, TypeOK, Periods
  <1>2. \A j \in Keys : Pending(j)' = Pending(j) \ {c}
    BY <1>1 DEF Moves, Pending, InThisPeriod, Idle
  <1>3. \A j \in Keys : j # k => c \notin Pending(j)
    BY DEF Pending
  <1>4. c \in Pending(k) <=> InThisPeriod(c)
    BY DEF Pending
  <1>5. CASE InThisPeriod(c)
    <2>1. Cardinality(Pending(k)') = Cardinality(Pending(k)) - 1
      BY <1>2, <1>4, <1>5, PendingFinite, FS_RemoveElement
    <2>2. Cardinality(Pending(k)) # 0
      BY <1>4, <1>5, PendingFinite, FS_EmptySet
    <2>3. Cardinality(Pending(k)) \in Nat
      BY PendingFinite
    <2>4. \A j \in Keys : j # k => Pending(j)' = Pending(j)
      BY <1>2, <1>3
    <2> QED
      BY <1>5, <2>1, <2>2, <2>3, <2>4
  <1>6. CASE ~InThisPeriod(c)
    <2>1. Pending(k)' = Pending(k)
      BY <1>2, <1>4, <1>6
    <2>2. Cardinality(Pending(k)) \in Nat
      BY PendingFinite
    <2>3. \A j \in Keys : j # k => Pending(j)' = Pending(j)
      BY <1>2, <1>3
    <2> QED
      BY <1>6, <2>1, <2>2, <2>3
  <1> QED
    BY <1>5, <1>6

------------------------------------------------------------------------------
(* A well-formed move keeps the coroutines well formed.                        *)
CallsOK == call \in [Calls -> CallStates] /\ \A c \in Calls : CallOK(call[c])

(* Replacing one call by a well-formed one keeps all of them well formed.     *)
LEMMA MoveOK ==
    ASSUME Typed, period' = period, NEW c \in Calls, NEW x \in CallStates, CallOK(x), Moves(c, x)
    PROVE  CallsOK'
  <1>1. call \in [Calls -> CallStates] /\ \A d \in Calls : CallOK(call[d])
    BY DEF Typed, TypeOK
  <1>2. call' \in [Calls -> CallStates]
    BY <1>1 DEF Moves
  <1>3. ASSUME NEW d \in Calls PROVE CallOK(call[d])'
    <2>1. call'[d] = x \/ call'[d] = call[d]
      BY <1>1 DEF Moves
    <2> QED
      BY <1>1, <2>1 DEF CallOK, Idle
  <1> QED
    BY <1>2, <1>3 DEF CallsOK

(* Every action on a call leaves the coroutines well formed.                   *)
LEMMA CallsStep ==
    ASSUME Typed, [Next]_vars
    PROVE  CallsOK'
  <1>1. /\ call \in [Calls -> CallStates] /\ \A d \in Calls : CallOK(call[d])
        /\ period \in Periods /\ period \in 0..period /\ period # None
    BY MeteringAssumption DEF Typed, TypeOK, Periods
  <1>2. Idle \in CallStates /\ CallOK(Idle)
    BY DEF Idle, CallStates, PCs, CallOK
  <1>3. ASSUME NEW c \in Calls, NEW k \in Keys, Start(c, k) PROVE CallsOK'
    <2> DEFINE x == [Idle EXCEPT !.pc = "rate", !.key = k]
    <2>1. x \in CallStates /\ CallOK(x)
      BY Zenon DEF Idle, CallStates, PCs, CallOK
    <2>2. Moves(c, x) /\ period' = period
      BY <1>3 DEF Start, Moves
    <2> QED
      BY <2>1, <2>2, MoveOK
  <1>4. ASSUME NEW c \in Calls, ToRecord(c), ~At(c, "idle"), period' = period PROVE CallsOK'
    <2> DEFINE x == [Idle EXCEPT !.pc = "record", !.key = call[c].key, !.adm = call[c].adm]
    <2>1. call[c] \in CallStates /\ CallOK(call[c])
      BY <1>1
    <2>2. x \in CallStates /\ CallOK(x)
      BY Zenon, <1>4, <2>1 DEF Idle, CallStates, PCs, CallOK, At
    <2> QED
      BY Zenon, <1>4, <2>2, Moved, MoveOK
  <1>5. ASSUME NEW c \in Calls, RatePassed(c) PROVE CallsOK'
    <2> DEFINE x == [call[c] EXCEPT !.pc = "quota", !.since = period]
    <2>1. call[c] \in CallStates /\ CallOK(call[c]) /\ call[c].pc = "rate"
      BY <1>1, <1>5 DEF RatePassed, At
    <2>2. x \in CallStates /\ CallOK(x)
      BY Zenon, <1>1, <2>1 DEF CallStates, PCs, CallOK
    <2> QED
      BY Zenon, <1>5, <2>2, Moved, MoveOK DEF RatePassed
  <1>6. ASSUME NEW c \in Calls, Admit(c), At(c, "quota"), period' = period PROVE CallsOK'
    <2> DEFINE x == [Idle EXCEPT !.pc = "record", !.key = call[c].key, !.adm = period]
    <2>1. call[c] \in CallStates /\ CallOK(call[c])
      BY <1>1
    <2>2. x \in CallStates /\ CallOK(x)
      BY Zenon, <1>1, <1>6, <2>1 DEF Idle, CallStates, PCs, CallOK, At
    <2> QED
      BY Zenon, <1>6, <2>2, MoveOK DEF Admit, Moves
  <1>7. ASSUME NEW c \in Calls, NEW l \in Thresholds, AdmitWithAlert(c, l), At(c, "quota"), period' = period
        PROVE  CallsOK'
    <2> DEFINE x == [call[c] EXCEPT !.pc = "alert", !.level = l, !.adm = period]
    <2>1. call[c] \in CallStates /\ CallOK(call[c])
      BY <1>1
    <2>2. x \in CallStates /\ CallOK(x)
      BY Zenon, <1>1, <1>7, <2>1 DEF CallStates, PCs, CallOK, At
    <2> QED
      BY Zenon, <1>7, <2>2, Moved, MoveOK
  <1>8. ASSUME NEW c \in Calls, QuotaRead(c) PROVE CallsOK'
    <2> DEFINE used == TotalSince(call[c].key, call[c].since)
    <2>1. CASE Crossed(used + 1) # {} /\ AdmitWithAlert(c, Highest(Crossed(used + 1)))
      <3>1. Highest(Crossed(used + 1)) \in Thresholds
        BY <2>1, HighestIs DEF Crossed
      <3> QED
        BY <1>7, <1>8, <2>1, <3>1 DEF QuotaRead
    <2>2. CASE Admit(c)
      BY <1>6, <1>8, <2>2 DEF QuotaRead
    <2>3. CASE ToRecord(c)
      BY <1>4, <1>8, <2>3 DEF QuotaRead, At
    <2> QED
      BY <1>8, <2>1, <2>2, <2>3 DEF QuotaRead
  <1>9. ASSUME NEW c \in Calls, NEW on, LoadConfig(c, on) PROVE CallsOK'
    <2>1. CASE ToRecord(c)
      BY ZenonT(30), <1>4, <1>9, <2>1 DEF LoadConfig, At
    <2>2. CASE Goto(c, "fire")
      <3> DEFINE x == [call[c] EXCEPT !.pc = "fire"]
      <3>1. call[c] \in CallStates /\ CallOK(call[c]) /\ call[c].pc = "alert"
        BY <1>1, <1>9 DEF LoadConfig, At
      <3>2. x \in CallStates /\ CallOK(x)
        BY <3>1 DEF CallStates, PCs, CallOK
      <3> QED
        BY Zenon, <1>9, <2>2, <3>2, Moved, MoveOK DEF LoadConfig
    <2> QED
      BY <1>9, <2>1, <2>2 DEF LoadConfig
  <1>10. ASSUME NEW c \in Calls, RateRefused(c) \/ Fire(c) PROVE CallsOK'
    BY <1>4, <1>10 DEF RateRefused, Fire, At
  <1>11. ASSUME NEW c \in Calls, QuotaReadFails(c) PROVE CallsOK'
    BY <1>6, <1>11 DEF QuotaReadFails
  <1>12. ASSUME NEW c \in Calls, NEW ok, RecordUsage(c, ok) \/ Abandon(c) PROVE CallsOK'
    BY <1>2, <1>12, MoveOK DEF RecordUsage, Abandon, Moves
  <1>13. CASE Restart
    BY <1>2, <1>13 DEF Restart, CallsOK, CallOK, Idle
  <1>14. CASE NextPeriod
    BY <1>1, <1>14 DEF NextPeriod, CallsOK, CallOK, Periods, Idle
  <1>15. CASE UNCHANGED vars
    BY <1>1, <1>15 DEF vars, CallsOK, CallOK, Idle
  <1> QED
    BY ZenonT(30), <1>3, <1>5, <1>8, <1>9, <1>10, <1>11, <1>12, <1>13, <1>14, <1>15 DEF Next

(* _quota_fired stays a well-formed dict within its bound.                     *)
Entries == [key : Keys, period : Periods, level : Thresholds]
FiredOK == fired \in Seq(Entries) /\ Len(fired) <= FiredMax

(* Remember and Evict keep _quota_fired within its bound.                     *)
LEMMA FiredStep ==
    ASSUME Typed, [Next]_vars
    PROVE  FiredOK'
  <1>1. FiredOK /\ FiredMax \in Nat \ {0}
    BY MeteringAssumption DEF Typed, TypeOK, FiredOK, Entries
  <1>2. ASSUME NEW c \in Calls, Fire(c), fired' # fired PROVE FiredOK'
    <2> DEFINE new == [key |-> call[c].key, period |-> call[c].since, level |-> call[c].level]
               s == Remember(c)
    <2>1. new \in Entries
      BY <1>2, MeteringAssumption DEF Fire, At, Typed, TypeOK, CallOK, Periods, Entries
    <2>2. s \in Seq(Entries) /\ Len(s) <= FiredMax + 1
      <3>1. CASE Entry(c) = {}
        BY <1>1, <2>1, <3>1 DEF Remember, FiredOK
      <3>2. CASE Entry(c) # {}
        <4>1. s = [i \in 1..Len(fired) |-> IF i \in Entry(c) THEN new ELSE fired[i]]
          <5>1. DOMAIN fired = 1..Len(fired)
            BY <1>1 DEF FiredOK
          <5>2. s = [i \in DOMAIN fired |-> IF i \in Entry(c) THEN new ELSE fired[i]]
            BY <3>2, Zenon DEF Remember
          <5> HIDE DEF s, new
          <5> QED
            BY <5>1, <5>2, Zenon
        <4>2. \A i \in 1..Len(fired) : (IF i \in Entry(c) THEN new ELSE fired[i]) \in Entries
          BY <1>1, <2>1 DEF FiredOK
        <4>3. s \in Seq(Entries) /\ Len(s) = Len(fired)
          BY <1>1, <4>1, <4>2 DEF FiredOK
        <4> QED
          BY <1>1, <4>3 DEF FiredOK
      <3> QED
        BY <3>1, <3>2
    <2>3. Evict(s) \in Seq(Entries) /\ Len(Evict(s)) <= FiredMax
      <3>1. CASE Len(s) <= FiredMax
        BY <1>1, <2>2, <3>1 DEF Evict
      <3>2. CASE Len(s) > FiredMax
        <4> DEFINE n == Len(s) \div 2 + 1
        <4>0. Len(s) \in Nat /\ Len(s) >= 2
          BY <1>1, <2>2, <3>2
        <4>1. n \in 2..Len(s)
          <5>1. \A m \in Nat : m >= 2 => m \div 2 + 1 \in 2..m
            OBVIOUS
          <5> QED
            BY <4>0, <5>1
        <4>2. SubSeq(s, n, Len(s)) \in Seq(Entries) /\ Len(SubSeq(s, n, Len(s))) = Len(s) - n + 1
          <5> HIDE DEF s, n
          <5> QED
            BY <2>2, <4>0, <4>1, SubSeqProperties
        <4> QED
          BY <1>1, <2>2, <3>2, <4>1, <4>2 DEF Evict
      <3> QED
        BY <1>1, <2>2, <3>1, <3>2
    <2>4. fired' = Evict(s)
      BY <1>2 DEF Fire
    <2> QED
      BY ZenonT(30), <2>3, <2>4 DEF FiredOK
  <1>3. CASE fired' = fired
    BY <1>1, <1>3 DEF FiredOK
  <1>4. CASE Restart
    <2>1. fired' = <<>>
      BY Zenon, <1>4 DEF Restart
    <2> QED
      BY <1>1, <2>1 DEF FiredOK
  <1>5. fired' = fired \/ Restart \/ \E c \in Calls : Fire(c)
    BY Zenon DEF Next, vars, Start, RateRefused, RatePassed, QuotaRead, QuotaReadFails, LoadConfig,
           RecordUsage, Abandon, NextPeriod
  <1> QED
    BY <1>2, <1>3, <1>4, <1>5

------------------------------------------------------------------------------
(* The counters: their types, and the parts of the invariant that relate them. *)
CountersOK ==
    /\ period \in Periods /\ starts \in Nat
    /\ total \in [Keys -> Nat] /\ mark \in [Keys -> [Periods -> Nat]]
    /\ \A k \in Keys, p \in Periods : mark[k][p] <= total[k]
    /\ admitted \in [Keys -> Nat] /\ free \in [Keys -> Nat] /\ lost \in [Keys -> Nat]
Related == MarksAscend /\ PendingAdmitted /\ Accounted /\ OvershootBounded

(* The same for one key, as numbers: u is used, n pending, w the calls at once. *)
KeyOK(k, u, n, w) ==
    /\ n <= admitted[k] /\ admitted[k] <= u + n + lost[k]
    /\ admitted[k] <= Quota + (w - 1) + free[k] + lost[k]

(* Accounted and OvershootBounded, key by key.                                *)
LEMMA RelatedByKey ==
    Related <=> /\ MarksAscend
                /\ \A k \in Keys : KeyOK(k, Used(k), Cardinality(Pending(k)), Cardinality(Calls))
  BY DEF Related, PendingAdmitted, Accounted, OvershootBounded, KeyOK

(* Steps that touch neither the counters nor the pending calls.                *)
LEMMA QuietStep ==
    ASSUME Inv, UNCHANGED <<period, total, mark, admitted, free, lost>>, starts' \in Nat,
           \A k \in Keys : Pending(k)' = Pending(k)
    PROVE  CountersOK' /\ Related'
  BY DEF Inv, TypeOK, CountersOK, Related, MarksAscend, PendingAdmitted, Accounted,
         OvershootBounded, Used, TotalSince

(* The arithmetic of an admission: a calls admitted, u counted, n pending of   *)
(* w at once, f and g the free ones before and after, l lost, q the quota.     *)
LEMMA Slack ==
    ASSUME NEW a \in Nat, NEW u \in Nat, NEW n \in Nat, NEW w \in Nat,
           NEW f \in Nat, NEW g \in Nat, NEW l \in Nat, NEW q \in Nat,
           a <= u + n + l, a <= q + (w - 1) + f + l,
           \/ g = f /\ u < q /\ n <= w - 1
           \/ g = f + 1
    PROVE  a + 1 <= q + (w - 1) + g + l
  OBVIOUS
(* A call is admitted, with a total read below the quota or because it could   *)
(* not be read.                                                                *)
LEMMA AdmitStep ==
    ASSUME Inv, NEW c \in Calls, NEW x, Moves(c, x), NEW k \in Keys, call[c].key = k,
           At(c, "quota"), x.adm = period, x.key = k, CountAdmitted(c),
           UNCHANGED <<period, total, mark, lost, starts>>,
           \/ UNCHANGED free /\ TotalSince(k, call[c].since) < Quota
           \/ free' = [free EXCEPT ![k] = @ + 1]
    PROVE  CountersOK' /\ Related'
  <1>1. /\ Typed /\ call[c].adm = None /\ call[c].since \in 0..period
        /\ period \in Periods /\ starts \in Nat /\ Quota \in Nat
        /\ total \in [Keys -> Nat] /\ mark \in [Keys -> [Periods -> Nat]]
        /\ \A j \in Keys, p \in Periods : mark[j][p] <= total[j]
        /\ admitted \in [Keys -> Nat] /\ free \in [Keys -> Nat] /\ lost \in [Keys -> Nat]
    BY Zenon, MeteringAssumption DEF Inv, Typed, TypeOK, CallOK, At
  <1>2. /\ \A j \in Keys : j # k => Pending(j)' = Pending(j)
        /\ Cardinality(Pending(k)') = Cardinality(Pending(k)) + 1
        /\ Cardinality(Pending(k)) <= Cardinality(Calls) - 1
    BY <1>1, PendingGains
  <1>3. admitted' = [admitted EXCEPT ![k] = @ + 1]
    BY DEF CountAdmitted
  <1>4. free' \in [Keys -> Nat] /\ \A j \in Keys : free'[j] >= free[j]
    <2>1. CASE free' = free
      BY <1>1, <2>1
    <2>2. CASE free' = [free EXCEPT ![k] = @ + 1]
      BY <1>1, <2>2
    <2> QED
      BY <2>1, <2>2
  <1>5. CountersOK'
    <2>1. admitted' \in [Keys -> Nat]
      BY <1>1, <1>3
    <2> QED
      BY Zenon, <1>1, <1>4, <2>1 DEF CountersOK
  <1>6. \A j \in Keys : Used(j)' = Used(j)
    BY DEF Used, TotalSince
  <1>7. Cardinality(Calls) \in Nat /\ \A j \in Keys : Cardinality(Pending(j)) \in Nat
    BY PendingFinite
  <1>8. \A j \in Keys : Used(j) \in Nat
    BY <1>1 DEF Used, TotalSince
  <1>9. \A j \in Keys : KeyOK(j, Used(j), Cardinality(Pending(j)), Cardinality(Calls)) /\ MarksAscend
    BY RelatedByKey DEF Inv, Related
  <1>10. free' = free => Used(k) < Quota
    <2>1. CASE TotalSince(k, call[c].since) < Quota
      <3>1. mark[k][call[c].since] <= mark[k][period]
        BY <1>1, <1>9 DEF MarksAscend, Periods
      <3>2. mark[k][call[c].since] \in Nat /\ mark[k][period] \in Nat /\ total[k] \in Nat
        <4>1. call[c].since \in Periods /\ period \in Periods
          BY <1>1, MeteringAssumption DEF Periods
        <4> QED
          BY <1>1, <4>1
      <3> QED
        BY <2>1, <3>1, <3>2, <1>1 DEF Used, TotalSince
    <2>2. CASE free' = [free EXCEPT ![k] = @ + 1]
      <3>1. free'[k] = free[k] + 1 /\ free[k] \in Nat
        BY <1>1, <2>2
      <3> QED
        BY <3>1
    <2> QED
      BY Zenon, <2>1, <2>2
  <1>11. free' = free \/ free'[k] = free[k] + 1
    BY Zenon, <1>1
  <1>12. ASSUME NEW j \in Keys
         PROVE  KeyOK(j, Used(j), Cardinality(Pending(j)), Cardinality(Calls))'
    <2>1. CASE j # k
      <3>1. admitted'[j] = admitted[j] /\ lost'[j] = lost[j] /\ free'[j] >= free[j]
        BY Zenon, <1>1, <1>3, <1>4, <2>1
      <3>2. free[j] \in Nat /\ free'[j] \in Nat /\ lost[j] \in Nat /\ admitted[j] \in Nat
        BY Zenon, <1>1, <1>4
      <3> QED
        BY Zenon, <1>1, <1>2, <1>6, <1>7, <1>8, <1>9, <2>1, <3>1, <3>2 DEF KeyOK
    <2>2. CASE j = k
      <3>1. admitted'[k] = admitted[k] + 1 /\ lost'[k] = lost[k] /\ free'[k] >= free[k]
        BY Zenon, <1>1, <1>3, <1>4
      <3>2. free[k] \in Nat /\ free'[k] \in Nat /\ lost[k] \in Nat /\ admitted[k] \in Nat
        BY <1>1, <1>4
      <3>3. KeyOK(k, Used(k), Cardinality(Pending(k)), Cardinality(Calls))
        BY <1>9
      <3>4. admitted[k] + 1 <= Quota + (Cardinality(Calls) - 1) + free'[k] + lost[k]
        <4>0. /\ admitted[k] <= Used(k) + Cardinality(Pending(k)) + lost[k]
              /\ admitted[k] <= Quota + (Cardinality(Calls) - 1) + free[k] + lost[k]
              /\ Quota \in Nat /\ Used(k) \in Nat
              /\ Cardinality(Calls) \in Nat /\ Cardinality(Pending(k)) \in Nat
          BY Zenon, <1>1, <1>7, <1>8, <3>3 DEF KeyOK
        <4>1. CASE free' = free
          <5>1. Used(k) < Quota /\ Cardinality(Pending(k)) <= Cardinality(Calls) - 1
            BY ZenonT(30), <1>2, <1>10, <4>1
          <5> QED
            BY Zenon, <3>2, <4>0, <4>1, <5>1, Slack
        <4>2. CASE free'[k] = free[k] + 1
          BY Zenon, <3>2, <4>0, <4>2, Slack
        <4> QED
          BY Zenon, <1>11, <4>1, <4>2
      <3>5. /\ Cardinality(Pending(k)) + 1 <= admitted[k] + 1
            /\ admitted[k] + 1 <= Used(k) + (Cardinality(Pending(k)) + 1) + lost[k]
        BY <1>7, <1>8, <3>2, <3>3 DEF KeyOK
      <3> QED
        BY Zenon, <1>2, <1>6, <2>2, <3>1, <3>4, <3>5 DEF KeyOK
    <2> QED
      BY Zenon, <2>1, <2>2
  <1>13. MarksAscend'
    BY <1>9 DEF MarksAscend
  <1> QED
    BY Zenon, <1>5, <1>12, <1>13, RelatedByKey DEF Related, PendingAdmitted, Accounted, OvershootBounded, KeyOK

(* What the invariant says of the counters, as facts to cite.                  *)
LEMMA Facts ==
    ASSUME Inv
    PROVE  /\ Typed /\ CountersOK /\ MarksAscend /\ Quota \in Nat
           /\ \A j \in Keys :
               /\ KeyOK(j, Used(j), Cardinality(Pending(j)), Cardinality(Calls))
               /\ Used(j) \in Nat /\ Cardinality(Pending(j)) \in Nat /\ Cardinality(Calls) \in Nat
               /\ admitted[j] \in Nat /\ free[j] \in Nat /\ lost[j] \in Nat /\ total[j] \in Nat
  <1>1. Typed /\ CountersOK /\ MarksAscend /\ Quota \in Nat
    BY MeteringAssumption DEF Inv, Typed, TypeOK, CountersOK
  <1>2. \A j \in Keys : KeyOK(j, Used(j), Cardinality(Pending(j)), Cardinality(Calls))
    BY RelatedByKey DEF Inv, Related
  <1>3. \A j \in Keys : /\ Used(j) \in Nat /\ admitted[j] \in Nat /\ free[j] \in Nat
                        /\ lost[j] \in Nat /\ total[j] \in Nat
    BY <1>1 DEF CountersOK, Used, TotalSince
  <1> QED
    BY <1>1, <1>2, <1>3, PendingFinite

(* A call is counted, or its write fails.                                      *)
LEMMA RecordStep ==
    ASSUME Inv, NEW c \in Calls, NEW ok \in BOOLEAN, RecordUsage(c, ok)
    PROVE  CountersOK' /\ Related'
  <1>1. PICK k \in Keys : call[c].key = k
    BY DEF Inv, CallOK, RecordUsage, At
  <1> DEFINE up == Counted(ok)
             gone == IF InThisPeriod(c) THEN 1 ELSE 0
             miss == IF ~ok /\ InThisPeriod(c) THEN 1 ELSE 0
  <1>2. /\ total' = [total EXCEPT ![k] = @ + up] /\ lost' = [lost EXCEPT ![k] = @ + miss]
        /\ UNCHANGED <<period, mark, admitted, free, starts>> /\ Moves(c, Idle)
    BY <1>1 DEF RecordUsage, Moves
  <1>3. up \in Nat /\ miss \in Nat /\ gone \in Nat /\ gone <= up + miss
    BY DEF Counted
  <1> HIDE DEF up, gone, miss
  <1>4. /\ \A j \in Keys : j # k => Pending(j)' = Pending(j)
        /\ Cardinality(Pending(k)') = Cardinality(Pending(k)) - gone
    BY Zenon, <1>1, <1>2, Facts, PendingDrops DEF gone
  <1>5. CountersOK'
    <2>1. total' \in [Keys -> Nat] /\ lost' \in [Keys -> Nat]
      BY <1>2, <1>3, Facts DEF CountersOK
    <2>2. \A j \in Keys, p \in Periods : mark[j][p] <= total'[j]
      BY <1>2, <1>3, Facts DEF CountersOK
    <2> QED
      BY Zenon, <1>2, <2>1, <2>2, Facts DEF CountersOK
  <1>6. ASSUME NEW j \in Keys
        PROVE  KeyOK(j, Used(j), Cardinality(Pending(j)), Cardinality(Calls))'
    <2>1. mark[j][period] \in Nat /\ admitted'[j] = admitted[j] /\ free'[j] = free[j]
      BY Zenon, <1>2, Facts DEF CountersOK
    <2>2. CASE j # k
      <3>1. Used(j)' = Used(j) /\ lost'[j] = lost[j]
        BY Zenon, <1>2, <2>2, Facts DEF Used, TotalSince, CountersOK
      <3> QED
        BY Zenon, <1>4, <2>1, <2>2, <3>1, Facts DEF KeyOK
    <2>3. CASE j = k
      <3>1. Used(k)' = Used(k) + up /\ lost'[k] = lost[k] + miss
        BY <1>2, <1>3, <2>1, <2>3, Facts DEF Used, TotalSince, CountersOK
      <3> QED
        BY <1>3, <1>4, <2>1, <2>3, <3>1, Facts DEF KeyOK
    <2> QED
      BY <2>2, <2>3
  <1>7. MarksAscend'
    BY <1>2, Facts DEF MarksAscend
  <1> QED
    BY Zenon, <1>5, <1>6, <1>7 DEF Related, PendingAdmitted, Accounted, OvershootBounded, KeyOK

(* A call is cancelled before it is counted.                                   *)
LEMMA AbandonStep ==
    ASSUME Inv, NEW c \in Calls, Abandon(c)
    PROVE  CountersOK' /\ Related'
  <1>1. PICK k \in Keys : call[c].key = k
    BY DEF Inv, CallOK, Abandon, At
  <1> DEFINE gone == IF InThisPeriod(c) THEN 1 ELSE 0
  <1>2. /\ admitted' = [admitted EXCEPT ![k] = @ - gone]
        /\ UNCHANGED <<period, total, mark, free, lost, starts>> /\ Moves(c, Idle)
    BY <1>1 DEF Abandon, Moves
  <1>3. /\ \A j \in Keys : j # k => Pending(j)' = Pending(j)
        /\ Cardinality(Pending(k)') = Cardinality(Pending(k)) - gone
        /\ gone \in 0..1 /\ gone <= Cardinality(Pending(k))
    <2>1. Typed /\ period' = period
      BY <1>2, Facts
    <2>2. /\ \A j \in Keys : j # k => Pending(j)' = Pending(j)
          /\ Cardinality(Pending(k)') = Cardinality(Pending(k)) - gone
          /\ InThisPeriod(c) => Cardinality(Pending(k)) >= 1
      BY <1>1, <1>2, <2>1, PendingDrops, ZenonT(30)
    <2>3. Cardinality(Pending(k)) \in Nat
      BY Facts
    <2>4. gone \in 0..1 /\ gone <= Cardinality(Pending(k))
      <3>1. CASE InThisPeriod(c)
        BY <2>2, <2>3, <3>1
      <3>2. CASE ~InThisPeriod(c)
        BY <2>3, <3>2
      <3> QED
        BY <3>1, <3>2
    <2> QED
      BY ZenonT(30), <2>2, <2>4
  <1> HIDE DEF gone
  <1>4. admitted[k] - gone \in Nat
    <2>1. admitted[k] \in Nat /\ Cardinality(Pending(k)) \in Nat /\ Cardinality(Pending(k)) <= admitted[k]
      BY Facts DEF KeyOK
    <2> QED
      BY <1>3, <2>1
  <1>5. CountersOK'
    <2>1. admitted' \in [Keys -> Nat]
      BY <1>2, <1>4, Facts DEF CountersOK
    <2> QED
      BY <1>2, <2>1, Facts DEF CountersOK
  <1>6. ASSUME NEW j \in Keys
        PROVE  KeyOK(j, Used(j), Cardinality(Pending(j)), Cardinality(Calls))'
    <2>1. Used(j)' = Used(j) /\ free'[j] = free[j] /\ lost'[j] = lost[j]
      BY <1>2 DEF Used, TotalSince
    <2>2. CASE j # k
      <3>1. admitted'[j] = admitted[j]
        BY Zenon, <1>2, <2>2, Facts DEF CountersOK
      <3> QED
        BY <1>3, <2>1, <2>2, <3>1, Facts DEF KeyOK
    <2>3. CASE j = k
      <3>1. admitted'[k] = admitted[k] - gone
        BY <1>2, Facts DEF CountersOK
      <3> QED
        BY <1>3, <2>1, <2>3, <3>1, Facts DEF KeyOK
    <2> QED
      BY <2>2, <2>3
  <1>7. MarksAscend'
    BY <1>2, Facts DEF MarksAscend
  <1> QED
    BY <1>5, <1>6, <1>7 DEF Related, PendingAdmitted, Accounted, OvershootBounded, KeyOK

(* The process restarts.                                                       *)
LEMMA RestartStep ==
    ASSUME Inv, Restart
    PROVE  CountersOK' /\ Related'
  <1>1. /\ admitted' = [k \in Keys |-> admitted[k] - Cardinality(Pending(k))]
        /\ call' = [c \in Calls |-> Idle]
        /\ UNCHANGED <<period, total, mark, free, lost, starts>>
    BY DEF Restart
  <1>2. period' # None
    BY <1>1, Facts, MeteringAssumption DEF CountersOK, Periods
  <1>3. \A k \in Keys : Pending(k)' = {}
    BY <1>1, <1>2 DEF Pending, InThisPeriod, Idle
  <1>4. \A k \in Keys : Cardinality(Pending(k)') = 0
    BY <1>3, FS_EmptySet
  <1>5. \A k \in Keys : admitted[k] - Cardinality(Pending(k)) \in Nat
    BY Facts DEF KeyOK
  <1>6. CountersOK'
    <2>1. admitted' \in [Keys -> Nat]
      BY <1>1, <1>5
    <2> QED
      BY <1>1, <2>1, Facts DEF CountersOK
  <1>7. ASSUME NEW j \in Keys
        PROVE  KeyOK(j, Used(j), Cardinality(Pending(j)), Cardinality(Calls))'
    <2>1. Used(j)' = Used(j) /\ free'[j] = free[j] /\ lost'[j] = lost[j]
      BY <1>1 DEF Used, TotalSince
    <2>2. admitted'[j] = admitted[j] - Cardinality(Pending(j)) /\ admitted'[j] \in Nat
      BY <1>1, <1>5
    <2> QED
      BY <1>4, <2>1, <2>2, Facts DEF KeyOK
  <1>8. MarksAscend'
    BY <1>1, Facts DEF MarksAscend
  <1> QED
    BY <1>6, <1>7, <1>8 DEF Related, PendingAdmitted, Accounted, OvershootBounded, KeyOK

(* A billing period begins.                                                    *)
LEMMA PeriodStep ==
    ASSUME Inv, NextPeriod
    PROVE  CountersOK' /\ Related'
  <1>1. /\ period < MaxPeriod /\ period' = period + 1
        /\ mark' = [k \in Keys |-> [mark[k] EXCEPT ![period + 1] = total[k]]]
        /\ admitted' = [k \in Keys |-> 0]
        /\ free' = [k \in Keys |-> 0] /\ lost' = [k \in Keys |-> 0]
        /\ UNCHANGED <<total, call, fired, alerts, starts>>
    BY DEF NextPeriod
  <1>2. period \in Nat /\ MaxPeriod \in Nat /\ period' \in Periods /\ period \in Periods
    BY <1>1, Facts, MeteringAssumption DEF CountersOK, Periods
  <1>3. \A k \in Keys : Pending(k)' = {}
    <2>1. \A c \in Calls : call[c].adm # period + 1
      BY <1>2, MeteringAssumption DEF Inv, CallOK
    <2> QED
      BY <1>1, <2>1 DEF Pending, InThisPeriod
  <1>4. \A k \in Keys : Cardinality(Pending(k)') = 0
    BY <1>3, FS_EmptySet
  <1>5. \A k \in Keys : mark[k] \in [Periods -> Nat] /\ total[k] \in Nat
    BY Facts DEF CountersOK
  <1>6. \A k \in Keys : /\ mark'[k] = [mark[k] EXCEPT ![period + 1] = total[k]]
                        /\ mark'[k] \in [Periods -> Nat] /\ mark'[k][period + 1] = total[k]
                        /\ \A p \in Periods : p # period + 1 => mark'[k][p] = mark[k][p]
    BY <1>1, <1>2, <1>5
  <1>7. CountersOK'
    <2>1. mark' \in [Keys -> [Periods -> Nat]]
      BY Zenon, <1>1, <1>5
    <2>2. \A k \in Keys, p \in Periods : mark'[k][p] <= total[k]
      <3>1. ASSUME NEW k \in Keys, NEW p \in Periods PROVE mark'[k][p] <= total[k]
        <4>1. mark[k][p] <= total[k] /\ total[k] \in Nat
          BY <1>5, Facts DEF CountersOK
        <4>2. mark'[k][p] = total[k] \/ mark'[k][p] = mark[k][p]
          BY Zenon, <1>6
        <4> QED
          BY <4>1, <4>2
      <3> QED
        BY <3>1
    <2>3. admitted' \in [Keys -> Nat] /\ free' \in [Keys -> Nat] /\ lost' \in [Keys -> Nat]
      BY <1>1
    <2> QED
      BY <1>1, <1>2, <2>1, <2>2, <2>3, Facts DEF CountersOK
  <1>8. ASSUME NEW j \in Keys
        PROVE  KeyOK(j, Used(j), Cardinality(Pending(j)), Cardinality(Calls))'
    <2>1. Used(j)' = 0
      BY <1>1, <1>5, <1>6 DEF Used, TotalSince
    <2>2. admitted'[j] = 0 /\ free'[j] = 0 /\ lost'[j] = 0
      BY <1>1
    <2>3. Cardinality(Calls) \in Nat \ {0}
      BY MeteringAssumption, FS_CardinalityType, FS_EmptySet
    <2> QED
      BY <1>4, <2>1, <2>2, <2>3, Facts DEF KeyOK
  <1>9. MarksAscend'
    <2>1. ASSUME NEW k \in Keys, NEW p \in 0..period', NEW q \in 0..period', p <= q
          PROVE  mark'[k][p] <= mark'[k][q]
      <3>1. p \in Periods /\ q \in Periods
        BY <1>1, <1>2, <2>1 DEF Periods
      <3>2. CASE q = period + 1
        <4>1. mark'[k][p] <= total'[k]
          BY <1>7, <3>1 DEF CountersOK
        <4> QED
          BY <1>1, <1>6, <3>2, <4>1
      <3>3. CASE q # period + 1
        <4>1. p \in 0..period /\ q \in 0..period /\ p # period + 1
          BY <1>1, <1>2, <2>1, <3>3
        <4> QED
          BY ZenonT(30), <1>6, <2>1, <3>1, <3>3, <4>1, Facts DEF MarksAscend
      <3> QED
        BY <3>2, <3>3
    <2> QED
      BY <2>1 DEF MarksAscend
  <1> QED
    BY <1>7, <1>8, <1>9 DEF Related, PendingAdmitted, Accounted, OvershootBounded, KeyOK

(* Every step keeps the counters related.                                      *)
counters == <<period, total, mark, admitted, free, lost>>

(* Every step keeps what the invariant says of the counters.                  *)
LEMMA CountersStep ==
    ASSUME Inv, [Next]_vars
    PROVE  CountersOK' /\ Related'
  <1>0. Typed /\ starts \in Nat /\ call \in [Calls -> CallStates]
    BY ZenonT(30), Facts DEF CountersOK, Typed, TypeOK
  <1>1. ASSUME NEW c \in Calls, NEW x, Moves(c, x), UNCHANGED counters, starts' \in Nat,
               x.adm = call[c].adm, x.key = call[c].key \/ x.adm = None
        PROVE  CountersOK' /\ Related'
    BY Zenon, <1>0, <1>1, PendingKept, QuietStep DEF counters
  <1>2. ASSUME NEW c \in Calls, ToRecord(c), UNCHANGED counters, starts' \in Nat
        PROVE  CountersOK' /\ Related'
    <2> DEFINE x == [Idle EXCEPT !.pc = "record", !.key = call[c].key, !.adm = call[c].adm]
    <2>1. x.adm = call[c].adm /\ x.key = call[c].key
      BY DEF Idle
    <2>2. Moves(c, x)
      BY Zenon, <1>0, <1>2, Moved
    <2> QED
      BY Zenon, <1>1, <1>2, <2>1, <2>2
  <1>3. ASSUME NEW c \in Calls, NEW k \in Keys, Start(c, k) PROVE CountersOK' /\ Related'
    <2> DEFINE x == [Idle EXCEPT !.pc = "rate", !.key = k]
    <2>1. x.adm = call[c].adm /\ x.adm = None
      BY <1>0, <1>3 DEF Start, At, Typed, CallOK, Idle
    <2>2. Moves(c, x) /\ UNCHANGED counters /\ starts' \in Nat
      BY <1>0, <1>3 DEF Start, Moves, counters
    <2> QED
      BY Zenon, <1>1, <2>1, <2>2
  <1>4. ASSUME NEW c \in Calls, RatePassed(c) PROVE CountersOK' /\ Related'
    <2> DEFINE x == [call[c] EXCEPT !.pc = "quota", !.since = period]
    <2>1. x.adm = call[c].adm /\ x.key = call[c].key
      BY <1>0 DEF CallStates
    <2>2. Moves(c, x) /\ UNCHANGED counters /\ starts' \in Nat
      BY Zenon, <1>0, <1>4, Moved DEF RatePassed, counters
    <2> QED
      BY Zenon, <1>1, <2>1, <2>2
  <1>5. ASSUME NEW c \in Calls, NEW on, LoadConfig(c, on) PROVE CountersOK' /\ Related'
    <2> DEFINE x == [call[c] EXCEPT !.pc = "fire"]
    <2>1. UNCHANGED counters /\ starts' \in Nat
      BY <1>0, <1>5 DEF LoadConfig, counters
    <2>2. CASE ToRecord(c)
      BY <1>2, <2>1, <2>2
    <2>3. CASE Goto(c, "fire")
      <3>1. x.adm = call[c].adm /\ x.key = call[c].key
        BY <1>0 DEF CallStates
      <3>2. Moves(c, x)
        BY Zenon, <1>0, <2>3, Moved
      <3> QED
        BY Zenon, <1>1, <2>1, <3>1, <3>2
    <2> QED
      BY <1>5, <2>2, <2>3 DEF LoadConfig
  <1>6. ASSUME NEW c \in Calls, RateRefused(c) \/ Fire(c) PROVE CountersOK' /\ Related'
    BY Zenon, <1>0, <1>2, <1>6 DEF RateRefused, Fire, counters
  <1>7. ASSUME NEW c \in Calls, QuotaRead(c) PROVE CountersOK' /\ Related'
    <2>1. PICK k \in Keys : call[c].key = k
      BY <1>0, <1>7 DEF QuotaRead, At, Typed, CallOK
    <2> DEFINE used == TotalSince(call[c].key, call[c].since)
               l == Highest(Crossed(used + 1))
               x == [call[c] EXCEPT !.pc = "alert", !.level = l, !.adm = period]
               y == [Idle EXCEPT !.pc = "record", !.key = call[c].key, !.adm = period]
    <2>2. At(c, "quota") /\ UNCHANGED <<period, total, mark, lost, starts, free>>
      BY <1>7 DEF QuotaRead
    <2>3. CASE Admits(used) /\ AdmitWithAlert(c, l)
      <3>1. Moves(c, x) /\ x.adm = period /\ x.key = k
        BY Zenon, <1>0, <2>1, <2>3, Moved DEF CallStates
      <3>2. CountAdmitted(c) /\ TotalSince(k, call[c].since) < Quota
        BY <2>1, <2>3 DEF AdmitWithAlert, Admits
      <3> HIDE DEF x, l
      <3> QED
        BY ZenonT(30), <2>1, <2>2, <3>1, <3>2, AdmitStep
    <2>4. CASE Admits(used) /\ Admit(c)
      <3>1. Moves(c, y) /\ y.adm = period /\ y.key = k
        BY <2>1, <2>4 DEF Admit, Moves, Idle
      <3>2. CountAdmitted(c) /\ TotalSince(k, call[c].since) < Quota
        BY <2>1, <2>4 DEF Admit, Admits
      <3> HIDE DEF y
      <3> QED
        BY <2>1, <2>2, <3>1, <3>2, AdmitStep
    <2>5. CASE ToRecord(c) /\ UNCHANGED admitted
      BY ZenonT(30), <1>0, <1>2, <2>2, <2>5 DEF counters
    <2> QED
      BY ZenonT(30), <1>7, <2>3, <2>4, <2>5 DEF QuotaRead
  <1>8. ASSUME NEW c \in Calls, QuotaReadFails(c) PROVE CountersOK' /\ Related'
    <2>1. PICK k \in Keys : call[c].key = k
      BY <1>0, <1>8 DEF QuotaReadFails, At, Typed, CallOK
    <2> DEFINE y == [Idle EXCEPT !.pc = "record", !.key = call[c].key, !.adm = period]
    <2>2. Moves(c, y) /\ y.adm = period /\ y.key = k
      BY <2>1, <1>8 DEF QuotaReadFails, Admit, Moves, Idle
    <2>3. /\ At(c, "quota") /\ UNCHANGED <<period, total, mark, lost, starts>>
          /\ free' = [free EXCEPT ![k] = @ + 1] /\ CountAdmitted(c)
      BY <1>8, <2>1 DEF QuotaReadFails, Admit
    <2> HIDE DEF y
    <2> QED
      BY Zenon, <2>1, <2>2, <2>3, AdmitStep
  <1>9. CASE UNCHANGED vars
    <2>1. \A k \in Keys : Pending(k)' = Pending(k)
      BY <1>9 DEF vars, Pending, InThisPeriod
    <2> QED
      BY <1>0, <1>9, <2>1, QuietStep DEF vars
  <1> QED
    BY ZenonT(30), <1>3, <1>4, <1>5, <1>6, <1>7, <1>8, <1>9, RecordStep, AbandonStep, RestartStep, PeriodStep
       DEF Next

(* The invariant is inductive.                                                 *)
LEMMA StepInv == Inv /\ [Next]_vars => Inv'
  <1> SUFFICES ASSUME Inv, [Next]_vars PROVE Inv'
    BY ZenonT(30)
  <1>1. CallsOK' /\ FiredOK'
    BY CallsStep, FiredStep, Facts
  <1>2. CountersOK' /\ Related'
    BY CountersStep
  <1>3. TypeOK'
    BY <1>1, <1>2 DEF CallsOK, FiredOK, CountersOK, TypeOK, Entries
  <1> QED
    BY <1>1, <1>2, <1>3 DEF Inv, CallsOK, Related

------------------------------------------------------------------------------
(* The rollups and _quota_fired keep their types and bounds (UsageRepo,        *)
(* fire_quota_threshold).                                                      *)
THEOREM TypeCorrect == Spec => []TypeOK
  BY InitInv, StepInv, PTL DEF Spec, Inv

(* Every admitted call is counted, in flight, or a failed write (record_usage). *)
THEOREM AdmittedAccounted == Spec => []Accounted
  BY InitInv, StepInv, PTL DEF Spec, Inv

(* A key passes at most its quota plus the calls that can be in flight beside  *)
(* the last, plus the database failures (check_quota and record_usage), for    *)
(* any quota and any number of keys, calls and periods.                        *)
THEOREM SoftQuotaBound == Spec => []OvershootBounded
  BY InitInv, StepInv, PTL DEF Spec, Inv

------------------------------------------------------------------------------
(* The alerts: _quota_fired holds one entry for a key and a period, and for an *)
(* alert that is held the entry has its level or a higher one.                 *)
AlertT == [key : Keys, period : Periods, level : Thresholds, held : BOOLEAN]
Same(x, y) == x.key = y.key /\ x.period = y.period
OneEntryEach(s) == \A i, j \in 1..Len(s) : Same(s[i], s[j]) => i = j
HeldRemembered ==
    \A i \in DOMAIN alerts : alerts[i].held => \E j \in 1..Len(fired) :
        Same(fired[j], alerts[i]) /\ alerts[i].level <= fired[j].level
AlertInv == alerts \in Seq(AlertT) /\ OneEntryEach(fired) /\ HeldRemembered /\ AlertsAscend

(* The entry a call asks for.                                                  *)
Asked(c) == [key |-> call[c].key, period |-> call[c].since, level |-> call[c].level]

(* Remember writes the entry that is asked for and keeps the others.           *)
LEMMA RememberFacts ==
    ASSUME Typed, OneEntryEach(fired), NEW c \in Calls, At(c, "fire")
    PROVE  /\ Asked(c) \in Entries /\ Remember(c) \in Seq(Entries)
           /\ \A i \in 1..Len(Remember(c)) :
               \/ Remember(c)[i] = Asked(c)
               \/ i \in 1..Len(fired) /\ Remember(c)[i] = fired[i] /\ ~Same(fired[i], Asked(c))
           /\ OneEntryEach(Remember(c))
<1> DEFINE new == Asked(c)
           s == Remember(c)
<1>1. fired \in Seq(Entries) /\ DOMAIN fired = 1..Len(fired) /\ Len(fired) \in Nat
  BY DEF Typed, TypeOK, Entries
<1>2. new \in Entries
  BY MeteringAssumption DEF At, Typed, TypeOK, CallOK, Periods, Entries, Asked
<1>3. Entry(c) = {i \in 1..Len(fired) : Same(fired[i], new)}
  BY <1>1 DEF Entry, Same, Asked
<1>4. CASE Entry(c) = {}
  <2>1. s = Append(fired, new)
    BY <1>4, Zenon DEF Remember, Asked
  <2> HIDE DEF s, new
  <2>2. /\ s \in Seq(Entries) /\ Len(s) = Len(fired) + 1 /\ s[Len(fired) + 1] = new
        /\ \A i \in 1..Len(fired) : s[i] = fired[i]
    BY <1>1, <1>2, <2>1, AppendProperties
  <2>3. \A i \in 1..Len(fired) : ~Same(fired[i], new)
    BY <1>3, <1>4
  <2>4. \A i \in 1..Len(s) : i \in 1..Len(fired) \/ i = Len(fired) + 1
    BY <1>1, <2>2
  <2>5. \A i \in 1..Len(s) : s[i] = new \/ (i \in 1..Len(fired) /\ s[i] = fired[i] /\ ~Same(fired[i], new))
    BY <2>2, <2>3, <2>4
  <2>6. ASSUME NEW i \in 1..Len(s), NEW j \in 1..Len(s), Same(s[i], s[j]) PROVE i = j
    <3>1. CASE i \in 1..Len(fired) /\ j \in 1..Len(fired)
      BY <2>2, <2>6, <3>1, Zenon DEF OneEntryEach
    <3>2. CASE i \in 1..Len(fired) /\ j = Len(fired) + 1
      BY <2>2, <2>3, <2>6, <3>2, Zenon
    <3>3. CASE i = Len(fired) + 1 /\ j \in 1..Len(fired)
      <4>1. Same(fired[j], new)
        BY <2>2, <2>6, <3>3 DEF Same
      <4>. QED BY <2>3, <3>3, <4>1, Zenon
    <3>. QED BY <2>4, <3>1, <3>2, <3>3, Zenon
  <2>7. OneEntryEach(s)
    BY <2>6, Zenon DEF OneEntryEach
  <2>. QED BY <1>2, <2>2, <2>5, <2>7 DEF new, s
<1>5. CASE Entry(c) # {}
  <2>1. s = [i \in 1..Len(fired) |-> IF i \in Entry(c) THEN new ELSE fired[i]]
    <3>1. s = [i \in DOMAIN fired |-> IF i \in Entry(c) THEN new ELSE fired[i]]
      BY <1>5, Zenon DEF Remember, Asked
    <3> HIDE DEF s, new
    <3>. QED BY <1>1, <3>1, Zenon
  <2> HIDE DEF s, new
  <2>2. \A i \in 1..Len(fired) : (IF i \in Entry(c) THEN new ELSE fired[i]) \in Entries
    BY <1>1, <1>2
  <2>3. s \in Seq(Entries) /\ Len(s) = Len(fired)
    BY <1>1, <2>1, <2>2
  <2>4. \A i \in 1..Len(fired) : s[i] = IF i \in Entry(c) THEN new ELSE fired[i]
    BY <2>1, Zenon
  <2>5. \A i \in 1..Len(s) : s[i] = new \/ (i \in 1..Len(fired) /\ s[i] = fired[i] /\ ~Same(fired[i], new))
    BY <1>3, <2>3, <2>4, Zenon
  <2>6. \A i \in 1..Len(s) : Same(s[i], fired[i])
    BY <1>3, <2>3, <2>4 DEF Same
  <2>7. ASSUME NEW i \in 1..Len(s), NEW j \in 1..Len(s), Same(s[i], s[j]) PROVE i = j
    <3>1. Same(fired[i], fired[j])
      BY <2>6, <2>7, Zenon DEF Same
    <3>. QED BY <2>3, <3>1, Zenon DEF OneEntryEach
  <2>8. OneEntryEach(s)
    BY <2>7, Zenon DEF OneEntryEach
  <2>. QED BY <1>2, <2>3, <2>5, <2>8 DEF new, s
<1>. QED BY <1>4, <1>5

(* Eviction keeps a suffix.                                                    *)
LEMMA EvictFacts ==
    ASSUME NEW s \in Seq(Entries)
    PROVE  /\ Evict(s) \in Seq(Entries)
           /\ \E d \in Nat : \A i \in 1..Len(Evict(s)) : i + d \in 1..Len(s) /\ Evict(s)[i] = s[i + d]
<1>1. CASE ~(Len(s) > FiredMax)
  <2>1. Evict(s) = s
    BY <1>1, Zenon DEF Evict
  <2>2. \A i \in 1..Len(s) : i + 0 \in 1..Len(s) /\ s[i] = s[i + 0]
    OBVIOUS
  <2>. QED BY <2>1, <2>2
<1>2. CASE Len(s) > FiredMax
  <2> DEFINE h == Len(s) \div 2
             e == SubSeq(s, h + 1, Len(s))
  <2>1. Len(s) \in Nat /\ Len(s) >= 1
    BY <1>2, MeteringAssumption
  <2>2. h \in Nat /\ h + 1 <= Len(s)
    <3>1. \A m \in Nat : m >= 1 => m \div 2 \in Nat /\ m \div 2 + 1 <= m
      OBVIOUS
    <3>. QED BY <2>1, <3>1
  <2>3. Evict(s) = e
    BY <1>2, Zenon DEF Evict
  <2> HIDE DEF h
  <2>4. /\ e \in Seq(Entries) /\ Len(e) = Len(s) - (h + 1) + 1
        /\ \A i \in 1..(Len(s) - (h + 1) + 1) : e[i] = s[(h + 1) + i - 1]
    <3>1. \A i \in (h + 1)..Len(s) : s[i] \in Entries
      BY <2>1, <2>2
    <3>. QED BY <2>1, <2>2, <3>1, SubSeqProperties
  <2> HIDE DEF e
  <2>5. ASSUME NEW i \in 1..Len(e) PROVE i + h \in 1..Len(s) /\ e[i] = s[i + h]
    <3>1. i + h \in 1..Len(s) /\ (h + 1) + i - 1 = i + h /\ i \in 1..(Len(s) - (h + 1) + 1)
      BY <2>1, <2>2, <2>4, <2>5
    <3>. QED BY <2>4, <3>1
  <2>. QED BY Zenon, <2>2, <2>3, <2>4, <2>5
<1>. QED BY <1>1, <1>2

(* A function on an initial segment is a sequence.                             *)
LEMMA SeqOfFunction ==
    ASSUME NEW S, NEW m \in Nat, NEW f, f = [i \in 1..m |-> f[i]], \A i \in 1..m : f[i] \in S
    PROVE  f \in Seq(S)
<1>1. f \in [1..m -> S]
  BY Zenon
<1>. QED BY <1>1

(* The alert that is sent under the lock.                                      *)
LEMMA SendStep ==
    ASSUME Typed, AlertInv, NEW c \in Calls, At(c, "fire"), ~AlreadyFired(c),
           fired' = Evict(Remember(c)),
           alerts' = NoteForgotten(Append(alerts,
               [key |-> call[c].key, period |-> call[c].since, level |-> call[c].level, held |-> TRUE]))
    PROVE  AlertInv'
<1> DEFINE new == Asked(c)
           s == Remember(c)
           alert == [key |-> call[c].key, period |-> call[c].since, level |-> call[c].level, held |-> TRUE]
           n == Len(alerts)
           sent == Append(alerts, alert)
<1>0. (\A x \in Entries : x.level \in Nat) /\ (\A x \in AlertT : x.level \in Nat)
  BY DEF Entries, AlertT, Thresholds
<1>1. /\ new \in Entries /\ s \in Seq(Entries) /\ OneEntryEach(s)
      /\ \A i \in 1..Len(s) : s[i] = new \/ (i \in 1..Len(fired) /\ s[i] = fired[i] /\ ~Same(fired[i], new))
  BY Zenon, RememberFacts DEF AlertInv
<1>2. /\ fired' \in Seq(Entries)
      /\ \E d \in Nat : \A i \in 1..Len(fired') : i + d \in 1..Len(s) /\ fired'[i] = s[i + d]
  <2> HIDE DEF s
  <2>1. fired' = Evict(s)
    BY Zenon DEF s
  <2>2. /\ Evict(s) \in Seq(Entries)
        /\ \E d \in Nat : \A i \in 1..Len(Evict(s)) : i + d \in 1..Len(s) /\ Evict(s)[i] = s[i + d]
    BY Zenon, <1>1, EvictFacts
  <2>. QED BY Zenon, <2>1, <2>2
<1>3. /\ alert \in AlertT /\ Same(alert, new) /\ alert.level = new.level /\ alert.held = TRUE
      /\ new.level \in Nat
  <2>1. new.key = call[c].key /\ new.period = call[c].since /\ new.level = call[c].level
    BY DEF Asked
  <2>2. /\ alert.key = call[c].key /\ alert.period = call[c].since /\ alert.level = call[c].level
        /\ alert.held = TRUE
    BY Zenon
  <2>3. new.key \in Keys /\ new.period \in Periods /\ new.level \in Thresholds
    BY Zenon, <1>1 DEF Entries
  <2>4. alert \in AlertT
    BY Zenon, <2>1, <2>3 DEF AlertT
  <2>5. new.level \in Nat
    BY ZenonT(30), <1>0, <1>1
  <2> HIDE DEF alert, new
  <2>. QED BY <2>1, <2>2, <2>4, <2>5, Zenon DEF Same
<1>4. \A i \in 1..Len(fired) : Same(fired[i], new) => fired[i].level < new.level
  <2>1. fired \in Seq(Entries)
    BY Zenon DEF Typed, TypeOK, Entries
  <2>2. \A i \in 1..Len(fired) : fired[i].level \in Nat
    BY <1>0, <2>1
  <2>3. \A i \in 1..Len(fired) : Same(fired[i], new) => ~(fired[i].level >= new.level)
    <3>1. new.key = call[c].key /\ new.period = call[c].since /\ new.level = call[c].level
      BY DEF Asked
    <3>2. DOMAIN fired = 1..Len(fired)
      BY <2>1
    <3>3. \A i \in DOMAIN fired : Same(fired[i], new) => i \in Entry(c)
      BY <3>1, Zenon DEF Entry, Same
    <3>. QED BY <3>1, <3>2, <3>3, Zenon DEF AlreadyFired
  <2>. QED BY <1>3, <2>2, <2>3
<1>5. alerts \in Seq(AlertT) /\ n \in Nat /\ DOMAIN alerts = 1..n
  BY DEF AlertInv
<1>6. /\ sent \in Seq(AlertT) /\ Len(sent) = n + 1 /\ DOMAIN sent = 1..(n + 1) /\ sent[n + 1] = alert
      /\ \A i \in 1..n : sent[i] = alerts[i]
  <2> HIDE DEF alert
  <2>. QED BY <1>3, <1>5, AppendProperties
<1> HIDE DEF alert, sent
<1> DEFINE kept(i) == sent[i].held /\ \E j \in DOMAIN fired' :
                          fired'[j].key = sent[i].key /\ fired'[j].period = sent[i].period
<1>7. /\ DOMAIN alerts' = 1..(n + 1)
      /\ \A i \in 1..(n + 1) : alerts'[i] = [sent[i] EXCEPT !.held = kept(i)]
  <2>1. alerts' = NoteForgotten(sent)
    BY Zenon DEF sent, alert
  <2>2. alerts' = [i \in DOMAIN sent |-> [sent[i] EXCEPT !.held = kept(i)]]
    BY Zenon, <2>1 DEF NoteForgotten
  <2> HIDE DEF kept
  <2>. QED BY Zenon, <1>6, <2>2
<1>8. \A i \in 1..(n + 1) : kept(i) \in BOOLEAN
  BY <1>6 DEF AlertT
<1>9. \A i \in 1..(n + 1) : /\ alerts'[i] \in AlertT /\ alerts'[i].key = sent[i].key
                            /\ alerts'[i].period = sent[i].period /\ alerts'[i].level = sent[i].level
                            /\ alerts'[i].held = kept(i)
  <2> HIDE DEF kept
  <2>1. \A i \in 1..(n + 1) : sent[i] \in AlertT
    BY <1>6
  <2>. QED BY ZenonT(30), <1>7, <1>8, <2>1 DEF AlertT
<1>10. alerts' \in Seq(AlertT)
  <2>1. alerts' = [i \in 1..(n + 1) |-> alerts'[i]]
    <3>1. alerts' = [i \in DOMAIN sent |-> [sent[i] EXCEPT !.held = kept(i)]]
      BY DEF NoteForgotten, sent, alert
    <3> HIDE DEF kept
    <3>. QED BY Zenon, <1>6, <3>1
  <2>2. n + 1 \in Nat /\ \A i \in 1..(n + 1) : alerts'[i] \in AlertT
    <3>1. n + 1 \in Nat
      BY <1>5
    <3>. QED BY <1>9, <3>1, Zenon
  <2> HIDE DEF n
  <2>. QED BY Zenon, <2>1, <2>2, SeqOfFunction
<1>11. ASSUME NEW i \in 1..n, sent[i].held PROVE
         \E j \in 1..Len(fired) : Same(fired[j], sent[i]) /\ sent[i].level <= fired[j].level
  BY <1>5, <1>6, <1>11, Zenon DEF AlertInv, HeldRemembered
<1>12. \A i \in 1..(n + 1) : sent[i].level \in Nat
  <2>1. \A i \in 1..(n + 1) : sent[i] \in AlertT
    BY <1>6
  <2>. QED BY <1>0, <2>1, ZenonT(30)
<1>13. ASSUME NEW i \in 1..n, sent[i].held, Same(sent[i], new) PROVE sent[i].level < new.level
  <2>1. PICK j \in 1..Len(fired) : Same(fired[j], sent[i]) /\ sent[i].level <= fired[j].level
    BY Zenon, <1>11, <1>13
  <2>2. Same(fired[j], new)
    BY Zenon, <1>13, <2>1 DEF Same
  <2>3. fired[j].level < new.level /\ fired[j].level \in Nat
    <3>1. fired \in Seq(Entries)
      BY Zenon DEF Typed, TypeOK, Entries
    <3>2. fired[j] \in Entries
      BY <3>1
    <3>. QED BY <1>0, <1>4, <2>2, <3>2, ZenonT(30)
  <2>4. sent[i].level \in Nat
    BY <1>5, <1>12
  <2>. QED BY <1>3, <2>1, <2>3, <2>4
<1>14. AlertsAscend'
  <2>. SUFFICES ASSUME NEW i \in 1..(n + 1), NEW j \in 1..(n + 1), i < j, alerts'[i].held,
                       alerts'[i].key = alerts'[j].key, alerts'[i].period = alerts'[j].period
                PROVE  alerts'[i].level < alerts'[j].level
    BY <1>7, Zenon DEF AlertsAscend
  <2>0. i \in 1..n /\ (j \in 1..n \/ j = n + 1)
    BY <1>5
  <2>1. sent[i].held /\ Same(sent[i], sent[j])
    BY <1>9, Zenon DEF Same
  <2>2. CASE j \in 1..n
    <3>1. alerts[i].held /\ Same(alerts[i], alerts[j])
      BY <1>6, <2>0, <2>1, <2>2, Zenon
    <3>2. alerts[i].level < alerts[j].level
      BY <1>5, <2>0, <2>2, <3>1, Zenon DEF AlertInv, AlertsAscend, Same
    <3>3. sent[i].level = alerts[i].level /\ sent[j].level = alerts[j].level
      BY <1>6, <2>0, <2>2, Zenon
    <3>4. alerts'[i].level = sent[i].level /\ alerts'[j].level = sent[j].level
      BY <1>9, ZenonT(30)
    <3>. QED BY <3>2, <3>3, <3>4, Zenon
  <2>3. CASE j = n + 1
    <3>1. Same(sent[i], new)
      BY ZenonT(30), <1>3, <1>6, <2>1, <2>3 DEF Same
    <3>2. sent[i].level < new.level
      BY ZenonT(30), <1>13, <2>0, <2>1, <3>1
    <3>3. alerts'[i].level = sent[i].level /\ alerts'[j].level = new.level
      BY ZenonT(30), <1>3, <1>6, <1>9, <2>3
    <3>. QED BY ZenonT(30), <3>2, <3>3
  <2>. QED BY ZenonT(30), <2>0, <2>2, <2>3
<1>15. PICK d \in Nat : \A i \in 1..Len(fired') : i + d \in 1..Len(s) /\ fired'[i] = s[i + d]
  BY ZenonT(30), <1>2
<1>16. OneEntryEach(fired)'
  <2>. SUFFICES ASSUME NEW i \in 1..Len(fired'), NEW j \in 1..Len(fired'), Same(fired'[i], fired'[j])
                PROVE  i = j
    BY DEF OneEntryEach, Same
  <2> HIDE DEF s
  <2>1. i + d = j + d
    BY <1>1, <1>15, ZenonT(30) DEF OneEntryEach
  <2>. QED BY <1>2, <2>1
<1>17. HeldRemembered'
  <2>. SUFFICES ASSUME NEW i \in 1..(n + 1), alerts'[i].held
                PROVE  \E j \in 1..Len(fired') :
                           Same(fired'[j], alerts'[i]) /\ alerts'[i].level <= fired'[j].level
    BY Zenon, <1>7 DEF HeldRemembered, Same
  <2>1. PICK j \in DOMAIN fired' : fired'[j].key = sent[i].key /\ fired'[j].period = sent[i].period
    BY <1>9, Zenon
  <2>2. j \in 1..Len(fired') /\ j + d \in 1..Len(s) /\ fired'[j] = s[j + d] /\ sent[i].held
    <3> HIDE DEF s
    <3>1. j \in 1..Len(fired')
      BY <1>2, <2>1
    <3>2. kept(i)
      BY <1>9, Zenon
    <3>3. sent[i].held
      BY <3>2, ZenonT(30)
    <3>. QED BY <1>15, <3>1, <3>3, ZenonT(30)
  <2>3. Same(fired'[j], sent[i])
    BY Zenon, <2>1 DEF Same
  <2>4. sent[i].level <= fired'[j].level
    <3>0. i \in 1..n \/ i = n + 1
      BY <1>5
    <3>1. CASE s[j + d] = new
      <4>1. Same(sent[i], new) /\ fired'[j].level = new.level
        BY ZenonT(30), <2>2, <2>3, <3>1 DEF Same
      <4>2. CASE i \in 1..n
        <5>1. sent[i].level < new.level
          BY <1>13, <2>2, <4>1, <4>2, Zenon
        <5>2. sent[i].level \in Nat /\ new.level \in Nat
          BY <1>3, <1>12, ZenonT(30)
        <5>. QED BY <4>1, <5>1, <5>2
      <4>3. CASE i = n + 1
        <5>1. sent[i].level = new.level /\ new.level \in Nat
          BY <1>3, <1>6, <4>3, ZenonT(30)
        <5>. QED BY <4>1, <5>1
      <4>. QED BY Zenon, <3>0, <4>2, <4>3
    <3>2. CASE j + d \in 1..Len(fired) /\ s[j + d] = fired[j + d] /\ ~Same(fired[j + d], new)
      <4>1. Same(fired[j + d], sent[i])
        BY Zenon, <2>2, <2>3, <3>2 DEF Same
      <4>2. i # n + 1
        BY Zenon, <1>3, <1>6, <3>2, <4>1 DEF Same
      <4>3. PICK m \in 1..Len(fired) : Same(fired[m], sent[i]) /\ sent[i].level <= fired[m].level
        BY ZenonT(30), <1>11, <2>2, <3>0, <4>2
      <4>4. Same(fired[m], fired[j + d])
        BY Zenon, <4>1, <4>3 DEF Same
      <4>5. m = j + d
        BY <3>2, <4>4, ZenonT(30) DEF AlertInv, OneEntryEach
      <4>. QED BY Zenon, <2>2, <3>2, <4>3, <4>5
    <3>. QED BY ZenonT(30), <1>1, <2>2, <3>1, <3>2
  <2>5. Same(fired'[j], alerts'[i]) /\ alerts'[i].level <= fired'[j].level
    BY Zenon, <1>9, <2>3, <2>4 DEF Same
  <2>. QED BY Zenon, <2>2, <2>5
<1>. QED BY Zenon, <1>10, <1>14, <1>16, <1>17 DEF AlertInv

(* No alert has been sent.                                                     *)
LEMMA AlertInit == Init => AlertInv
<1>. SUFFICES ASSUME Init PROVE AlertInv
  OBVIOUS
<1>1. alerts = <<>> /\ fired = <<>>
  BY DEF Init
<1>2. alerts \in Seq(AlertT) /\ DOMAIN alerts = {} /\ Len(fired) = 0
  BY <1>1
<1>. QED BY <1>2 DEF AlertInv, OneEntryEach, HeldRemembered, AlertsAscend

(* Only Fire and Restart touch _quota_fired.                                   *)
LEMMA AlertStep == Inv /\ AlertInv /\ [Next]_vars => AlertInv'
<1>. SUFFICES ASSUME Inv, AlertInv, [Next]_vars PROVE AlertInv'
  BY Zenon
<1>1. CASE UNCHANGED <<fired, alerts>>
  BY Zenon, <1>1 DEF AlertInv, OneEntryEach, HeldRemembered, AlertsAscend, Same
<1>2. CASE Restart
  <2>1. alerts' = <<>> /\ fired' = <<>>
    BY <1>2 DEF Restart
  <2>2. alerts' \in Seq(AlertT) /\ DOMAIN alerts' = {} /\ Len(fired') = 0
    BY <2>1
  <2>. QED BY <2>2 DEF AlertInv, OneEntryEach, HeldRemembered, AlertsAscend
<1>3. ASSUME NEW c \in Calls, Fire(c) PROVE AlertInv'
  <2>1. Typed /\ At(c, "fire")
    BY <1>3 DEF Inv, Typed, Fire
  <2>2. CASE ~AlreadyFired(c) /\ ~UNCHANGED <<fired, alerts>>
    BY <1>3, <2>1, <2>2, SendStep, Zenon DEF Fire
  <2>3. CASE AlreadyFired(c)
    BY <1>1, <1>3, <2>3, ZenonT(30) DEF Fire
  <2>. QED BY ZenonT(30), <1>1, <2>2, <2>3
<1>4. UNCHANGED <<fired, alerts>> \/ Restart \/ \E c \in Calls : Fire(c)
  BY ZenonT(30) DEF Next, vars, Start, RateRefused, RatePassed, QuotaRead, QuotaReadFails, LoadConfig,
         RecordUsage, Abandon, NextPeriod
<1>. QED BY <1>1, <1>2, <1>3, <1>4

(* While its entry is remembered a key's alerts of a period only go up, each   *)
(* threshold once, for any number of concurrent calls and any cap on           *)
(* _quota_fired (fire_quota_threshold).                                        *)
THEOREM AlertsGoUp == Spec => []AlertsAscend
<1>1. AlertInv => AlertsAscend
  BY DEF AlertInv
<1>. QED BY <1>1, InitInv, StepInv, AlertInit, AlertStep, PTL DEF Spec
=============================================================================
