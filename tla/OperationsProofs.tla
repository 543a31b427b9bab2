-------------------------- MODULE OperationsProofs --------------------------
(* The audit trail and the webhook dispatcher under the gateway's background   *)
(* work, for any number of events, batches, sends and refusals.                *)
EXTENDS Operations, FiniteSetTheorems, SequenceTheorems, TLAPS

(* A leaf that names no prover is tried with SMT, with Zenon, and with SMT     *)
(* once more and for longer.                                                   *)
USE SMT, Zenon, SMTT(30)

------------------------------------------------------------------------------
(* Sequences of event numbers.                                                 *)
Below(s, t) == \A x \in Events(s), y \in Events(t) : x < y

(* What a concatenation holds, and when it is in order.                        *)
LEMMA Concatenated ==
    ASSUME NEW s \in Seq(Nat), NEW t \in Seq(Nat)
    PROVE  /\ s \o t \in Seq(Nat)
           /\ Events(s \o t) = Events(s) \cup Events(t)
           /\ Ascends(s \o t) <=> Ascends(s) /\ Ascends(t) /\ Below(s, t)
<1>1. /\ s \o t \in Seq(Nat) /\ Len(s \o t) = Len(s) + Len(t) /\ Len(s) \in Nat /\ Len(t) \in Nat
      /\ \A i \in 1 .. Len(s) : (s \o t)[i] = s[i]
      /\ \A i \in 1 .. Len(t) : (s \o t)[Len(s) + i] = t[i]
  OBVIOUS
<1>2. \A i \in 1 .. Len(s) + Len(t) : i \in 1 .. Len(s) \/ \E j \in 1 .. Len(t) : i = Len(s) + j
  <2>. TAKE i \in 1 .. Len(s) + Len(t)
  <2>1. CASE i <= Len(s)
    BY <1>1, <2>1
  <2>2. CASE i > Len(s)
    <3>1. i - Len(s) \in 1 .. Len(t) /\ i = Len(s) + (i - Len(s))
      BY <1>1, <2>2
    <3>. QED BY Zenon, <3>1
  <2>. QED BY <1>1, <2>1, <2>2
<1>3. /\ \A i \in 1 .. Len(s) : i \in 1 .. Len(s) + Len(t)
      /\ \A i \in 1 .. Len(t) : Len(s) + i \in 1 .. Len(s) + Len(t)
  BY <1>1
<1>4. Events(s \o t) = Events(s) \cup Events(t)
  <2>1. ASSUME NEW i \in 1 .. Len(s) + Len(t) PROVE (s \o t)[i] \in Events(s) \cup Events(t)
    BY ZenonT(30), <1>1, <1>2 DEF Events
  <2>2. ASSUME NEW i \in 1 .. Len(s) PROVE s[i] \in Events(s \o t)
    BY <1>1, <1>3 DEF Events
  <2>3. ASSUME NEW i \in 1 .. Len(t) PROVE t[i] \in Events(s \o t)
    BY Zenon, <1>1, <1>3 DEF Events
  <2>4. Events(s \o t) \subseteq Events(s) \cup Events(t)
    BY <1>1, <2>1 DEF Events
  <2>5. Events(s) \subseteq Events(s \o t) /\ Events(t) \subseteq Events(s \o t)
    <3>1. \A x \in Events(s) : \E i \in 1 .. Len(s) : x = s[i]
      BY DEF Events
    <3>2. \A x \in Events(t) : \E i \in 1 .. Len(t) : x = t[i]
      BY DEF Events
    <3>. QED BY Zenon, <2>2, <2>3, <3>1, <3>2
  <2>. QED BY <2>4, <2>5
<1>5. ASSUME Ascends(s \o t) PROVE Ascends(s) /\ Ascends(t) /\ Below(s, t)
  <2>1. Ascends(s)
    BY <1>1, <1>3, <1>5 DEF Ascends
  <2>2. Ascends(t)
    <3>. SUFFICES ASSUME NEW i \in 1 .. Len(t), NEW j \in 1 .. Len(t), i < j PROVE t[i] < t[j]
      BY DEF Ascends
    <3>1. Len(s) + i < Len(s) + j
      BY <1>1
    <3>. QED BY Zenon, <1>1, <1>3, <1>5, <3>1 DEF Ascends
  <2>3. Below(s, t)
    <3>. SUFFICES ASSUME NEW i \in 1 .. Len(s), NEW j \in 1 .. Len(t) PROVE s[i] < t[j]
      BY DEF Below, Events
    <3>1. i < Len(s) + j
      BY <1>1
    <3>. QED BY Zenon, <1>1, <1>3, <1>5, <3>1 DEF Ascends
  <2>. QED BY <2>1, <2>2, <2>3
<1>6. ASSUME Ascends(s), Ascends(t), Below(s, t) PROVE Ascends(s \o t)
  <2>. SUFFICES ASSUME NEW i \in 1 .. Len(s) + Len(t), NEW j \in 1 .. Len(s) + Len(t), i < j
                PROVE  (s \o t)[i] < (s \o t)[j]
    BY <1>1 DEF Ascends
  <2>1. CASE j \in 1 .. Len(s)
    <3>1. i \in 1 .. Len(s)
      BY <1>1, <2>1
    <3>. QED BY <1>1, <1>6, <2>1, <3>1 DEF Ascends
  <2>2. ASSUME NEW k \in 1 .. Len(t), j = Len(s) + k PROVE (s \o t)[i] < (s \o t)[j]
    <3>1. CASE i \in 1 .. Len(s)
      BY <1>1, <1>6, <2>2, <3>1 DEF Below, Events
    <3>2. ASSUME NEW l \in 1 .. Len(t), i = Len(s) + l PROVE (s \o t)[i] < (s \o t)[j]
      <4>1. l < k
        BY <1>1, <2>2, <3>2
      <4>. QED BY <1>1, <1>6, <2>2, <3>2, <4>1 DEF Ascends
    <3>. QED BY <1>2, <3>1, <3>2
  <2>. QED BY Zenon, <1>2, <2>1, <2>2
<1>. QED BY <1>1, <1>4, <1>5, <1>6

(* A batch and what stays in the queue are the queue.                          *)
LEMMA BatchAndRest ==
    ASSUME NEW q \in Seq(Nat)
    PROVE  /\ FirstOf(q) \in Seq(Nat) /\ Rest(q) \in Seq(Nat) /\ Len(FirstOf(q)) <= MaxBatch
           /\ FirstOf(q) \o Rest(q) = q
<1>. DEFINE n == IF Len(q) < MaxBatch THEN Len(q) ELSE MaxBatch
<1>0. n \in Nat /\ n <= Len(q) /\ n <= MaxBatch /\ Len(q) \in Nat /\ MaxBatch \in Nat
  BY AuditAssumption
<1>1. FirstOf(q) = SubSeq(q, 1, n)
  BY DEF FirstOf
<1>2. Rest(q) = SubSeq(q, n + 1, Len(q))
  <2>1. CASE Len(q) < MaxBatch
    <3>1. SubSeq(q, MaxBatch + 1, Len(q)) = << >>
      BY <1>0, <2>1, SubSeqEmpty
    <3>2. SubSeq(q, Len(q) + 1, Len(q)) = << >>
      BY <1>0, SubSeqEmpty
    <3>. QED BY Zenon, <2>1, <3>1, <3>2 DEF Rest
  <2>2. CASE ~(Len(q) < MaxBatch)
    BY Zenon, <2>2 DEF Rest
  <2>. QED BY <2>1, <2>2
<1>. HIDE DEF n
<1>3. /\ SubSeq(q, 1, n) \in Seq(Nat) /\ Len(SubSeq(q, 1, n)) = IF 1 <= n THEN n - 1 + 1 ELSE 0
  <2>1. \A i \in 1 .. n : q[i] \in Nat
    BY <1>0
  <2>. QED BY <1>0, <2>1, SubSeqProperties
<1>4. SubSeq(q, n + 1, Len(q)) \in Seq(Nat)
  <2>1. \A i \in n + 1 .. Len(q) : q[i] \in Nat
    BY <1>0
  <2>. QED BY <1>0, <2>1, SubSeqProperties
<1>5. SubSeq(q, 1, n) \o SubSeq(q, n + 1, Len(q)) = q
  <2>1. 1 \in 1 .. Len(q) + 1 /\ n \in 1 - 1 .. Len(q) /\ Len(q) \in n .. Len(q)
    BY <1>0
  <2>2. SubSeq(q, 1, n) \o SubSeq(q, n + 1, Len(q)) = SubSeq(q, 1, Len(q))
    BY Zenon, <2>1, ConcatAdjacentSubSeq
  <2>. QED BY Zenon, <2>2, SubSeqFull
<1>6. Len(FirstOf(q)) <= MaxBatch
  BY <1>0, <1>1, <1>3
<1>. QED BY Zenon, <1>1, <1>2, <1>3, <1>4, <1>5, <1>6

(* One more event at the end of a queue.                                       *)
LEMMA Appended ==
    ASSUME NEW s \in Seq(Nat), NEW e \in Nat
    PROVE  /\ Append(s, e) \in Seq(Nat)
           /\ Events(Append(s, e)) = Events(s) \cup {e}
           /\ Ascends(s) /\ (\A x \in Events(s) : x < e) => Ascends(Append(s, e))
<1>1. /\ Append(s, e) \in Seq(Nat) /\ Len(Append(s, e)) = Len(s) + 1 /\ Len(s) \in Nat
      /\ \A i \in 1 .. Len(s) : Append(s, e)[i] = s[i]
      /\ Append(s, e)[Len(s) + 1] = e
  OBVIOUS
<1>2. \A i \in 1 .. Len(s) + 1 : i \in 1 .. Len(s) \/ i = Len(s) + 1
  BY <1>1
<1>3. \A i \in 1 .. Len(s) : i \in 1 .. Len(s) + 1
  BY <1>1
<1>4. Events(Append(s, e)) = Events(s) \cup {e}
  <2>1. Len(s) + 1 \in 1 .. Len(s) + 1
    BY <1>1
  <2>. QED BY <1>1, <1>2, <1>3, <2>1 DEF Events
<1>5. ASSUME Ascends(s), \A x \in Events(s) : x < e PROVE Ascends(Append(s, e))
  <2>. SUFFICES ASSUME NEW i \in 1 .. Len(s) + 1, NEW j \in 1 .. Len(s) + 1, i < j
                PROVE  Append(s, e)[i] < Append(s, e)[j]
    BY <1>1 DEF Ascends
  <2>1. i \in 1 .. Len(s)
    BY <1>1
  <2>2. CASE j \in 1 .. Len(s)
    BY <1>1, <1>5, <2>1, <2>2 DEF Ascends
  <2>3. CASE j = Len(s) + 1
    BY <1>1, <1>5, <2>1, <2>3 DEF Events
  <2>. QED BY <1>2, <2>2, <2>3
<1>. QED BY <1>1, <1>4, <1>5

(* No more events than places.                                                 *)
LEMMA EventsBound ==
    ASSUME NEW s \in Seq(Nat)
    PROVE  IsFiniteSet(Events(s)) /\ Cardinality(Events(s)) <= Len(s)
<1>0. Len(s) \in Nat
  OBVIOUS
<1>1. IsFiniteSet(1 .. Len(s)) /\ Cardinality(1 .. Len(s)) = Len(s)
  <2>1. /\ IsFiniteSet(1 .. Len(s))
        /\ Cardinality(1 .. Len(s)) = IF 1 > Len(s) THEN 0 ELSE Len(s) - 1 + 1
    BY <1>0, FS_Interval
  <2>. QED BY <1>0, <2>1
<1>. DEFINE f == [i \in 1 .. Len(s) |-> s[i]]
<1>2. f \in Surjection(1 .. Len(s), Events(s))
  BY DEF Surjection, Events
<1>. HIDE DEF f
<1>. QED BY <1>1, <1>2, FS_Surjection

------------------------------------------------------------------------------
(* What is stored came before what is being inserted, and that before what is  *)
(* queued; every number up to the last logged is in one of them or lost.       *)
AInv ==
    /\ logged \in Nat /\ failures \in Nat
    /\ stored \in Seq(Nat) /\ batch \in Seq(Nat) /\ queue \in Seq(Nat) /\ Len(batch) <= MaxBatch
    /\ Ascends(stored) /\ Ascends(batch) /\ Ascends(queue)
    /\ Below(stored, batch) /\ Below(stored, queue) /\ Below(batch, queue)
    /\ Events(stored) \cup Events(batch) \cup Events(queue) \cup lost = 1 .. logged
    /\ (Events(stored) \cup Events(batch) \cup Events(queue)) \cap lost = {}
LossInv == phase # "stopped" => Cardinality(lost) <= MaxBatch * failures

(* Nothing is in an empty sequence.                                            *)
LEMMA EmptyEvents ==
    Events(<< >>) = {} /\ Ascends(<< >>) /\ << >> \in Seq(Nat) /\ Len(<< >>) = 0
BY DEF Events, Ascends

(* The properties for readers follow.                                          *)
LEMMA AInvImplies ==
    ASSUME AInv, LossInv
    PROVE  EventsAccounted
<1>1. /\ stored \o batch \in Seq(Nat)
      /\ Events(stored \o batch) = Events(stored) \cup Events(batch) /\ Ascends(stored \o batch)
  BY Concatenated DEF AInv
<1>2. Below(stored \o batch, queue)
  BY <1>1 DEF AInv, Below
<1>3. /\ Events((stored \o batch) \o queue) = Events(stored) \cup Events(batch) \cup Events(queue)
      /\ Ascends((stored \o batch) \o queue)
  BY ZenonT(30), <1>1, <1>2, Concatenated DEF AInv
<1>. QED BY <1>3 DEF EventsAccounted, AuditAccounted, AInv, LossInv

(* log() numbers the event after all others.                                   *)
LEMMA LogKeeps ==
    ASSUME AInv, NEW b \in BOOLEAN, Log(b)
    PROVE  AInv' /\ UNCHANGED <<lost, failures>>
<1>0. /\ logged' = logged + 1 /\ logged + 1 \in Nat /\ queue' = Append(queue, logged + 1)
      /\ UNCHANGED <<batch, stored, lost, failures>>
  BY DEF AInv, Log
<1>1. \A x \in Events(stored) \cup Events(batch) \cup Events(queue) \cup lost : x < logged + 1
  BY DEF AInv
<1>2. /\ queue' \in Seq(Nat) /\ Events(queue') = Events(queue) \cup {logged + 1} /\ Ascends(queue')
  BY <1>0, <1>1, Appended DEF AInv
<1>3. Below(stored, queue') /\ Below(batch, queue')
  BY <1>1, <1>2 DEF AInv, Below
<1>4. 1 .. logged + 1 = (1 .. logged) \cup {logged + 1} /\ logged + 1 \notin lost
  BY <1>1 DEF AInv
<1>5. /\ Events(stored) \cup Events(batch) \cup Events(queue') \cup lost = 1 .. logged + 1
      /\ (Events(stored) \cup Events(batch) \cup Events(queue')) \cap lost = {}
  BY <1>2, <1>4 DEF AInv
<1>. QED BY <1>0, <1>2, <1>3, <1>5 DEF AInv

(* A batch is taken from the front of the queue, an earlier one being out of   *)
(* the way.                                                                    *)
LEMMA TakeKeeps ==
    ASSUME AInv, batch = << >>, batch' = FirstOf(queue), queue' = Rest(queue), UNCHANGED <<logged, stored, lost, failures>>
    PROVE  AInv'
<1>1. /\ batch' \in Seq(Nat) /\ queue' \in Seq(Nat) /\ Len(batch') <= MaxBatch /\ batch' \o queue' = queue
  BY Zenon, BatchAndRest DEF AInv
<1>2. Events(queue) = Events(batch') \cup Events(queue') /\ Ascends(batch') /\ Ascends(queue') /\ Below(batch', queue')
  BY Zenon, <1>1, Concatenated DEF AInv
<1>3. Below(stored, batch') /\ Below(stored, queue')
  BY <1>2 DEF AInv, Below
<1>4. /\ Events(stored) \cup Events(batch') \cup Events(queue') \cup lost = 1 .. logged
      /\ (Events(stored) \cup Events(batch') \cup Events(queue')) \cap lost = {}
  BY <1>2, EmptyEvents DEF AInv
<1>. QED BY <1>1, <1>2, <1>3, <1>4 DEF AInv

(* A batch is stored, or is lost: then the queue still follows the table.      *)
LEMMA BatchKeeps ==
    ASSUME AInv, batch' = << >>, failures' \in Nat, UNCHANGED <<logged, queue>>,
           \/ stored' = stored \o batch /\ lost' = lost
           \/ stored' = stored /\ lost' = lost \cup Events(batch)
    PROVE  AInv'
<1>0. /\ Events(batch') = {} /\ Ascends(batch') /\ batch' \in Seq(Nat) /\ Len(batch') <= MaxBatch
  BY EmptyEvents, AuditAssumption
<1>1. Below(stored', batch') /\ Below(batch', queue')
  BY <1>0 DEF Below
<1>2. CASE stored' = stored \o batch /\ lost' = lost
  <2>1. /\ stored' \in Seq(Nat) /\ Events(stored') = Events(stored) \cup Events(batch) /\ Ascends(stored')
    BY <1>2, Concatenated DEF AInv
  <2>2. Below(stored', queue)
    BY <2>1 DEF AInv, Below
  <2>. QED BY <1>0, <1>1, <1>2, <2>1, <2>2 DEF AInv
<1>3. CASE stored' = stored /\ lost' = lost \cup Events(batch)
  <2>1. \A x \in Events(batch) : x \in Nat
    BY DEF AInv
  <2>2. (Events(stored) \cup Events(queue)) \cap Events(batch) = {}
    BY <2>1 DEF AInv, Below
  <2>3. /\ Events(stored) \cup Events(batch') \cup Events(queue) \cup lost' = 1 .. logged
        /\ (Events(stored) \cup Events(batch') \cup Events(queue)) \cap lost' = {}
    BY <1>0, <1>3, <2>2 DEF AInv
  <2>. QED BY <1>0, <1>1, <1>3, <2>3 DEF AInv
<1>. QED BY <1>2, <1>3

(* A failed insert costs at most its batch.                                    *)
LEMMA LossBound ==
    ASSUME AInv, Cardinality(lost) <= MaxBatch * failures
    PROVE  Cardinality(lost \cup Events(batch)) <= MaxBatch * (failures + 1)
<1>1. IsFiniteSet(lost) /\ Cardinality(lost) \in Nat
  <2>1. lost \subseteq 1 .. logged
    BY DEF AInv
  <2>2. IsFiniteSet(1 .. logged)
    BY FS_Interval DEF AInv
  <2>. QED BY Zenon, <2>1, <2>2, FS_Subset, FS_CardinalityType
<1>2. IsFiniteSet(Events(batch)) /\ Cardinality(Events(batch)) <= Len(batch) /\ Cardinality(Events(batch)) \in Nat
  BY EventsBound, FS_CardinalityType DEF AInv
<1>3. Cardinality(lost \cup Events(batch)) =
        Cardinality(lost) + Cardinality(Events(batch)) - Cardinality(lost \cap Events(batch))
  BY <1>1, <1>2, FS_Union
<1>4. Cardinality(lost \cap Events(batch)) \in Nat
  BY Zenon, <1>1, FS_Intersection, FS_CardinalityType
<1>5. MaxBatch * (failures + 1) = MaxBatch * failures + MaxBatch /\ MaxBatch * failures \in Nat /\ MaxBatch \in Nat
  BY AuditAssumption DEF AInv
<1>6. Len(batch) \in Nat /\ Len(batch) <= MaxBatch
  BY DEF AInv
<1>. QED BY <1>1, <1>2, <1>3, <1>4, <1>5, <1>6

(* stop() settles the batch under way and takes the last one.                  *)
LEMMA StopKeeps ==
    ASSUME AInv, NEW committed \in BOOLEAN, StopFlush(committed)
    PROVE  AInv'
<1>0. /\ batch' = FirstOf(queue) /\ queue' = Rest(queue) /\ logged' = logged
      /\ failures' \in Nat
      /\ \/ stored' = stored \o batch /\ lost' = lost
         \/ stored' = stored /\ lost' = lost \cup Events(batch)
  BY DEF AInv, StopFlush
<1>1. /\ batch' \in Seq(Nat) /\ queue' \in Seq(Nat) /\ Len(batch') <= MaxBatch /\ batch' \o queue' = queue
  BY Zenon, <1>0, BatchAndRest DEF AInv
<1>2. Events(queue) = Events(batch') \cup Events(queue') /\ Ascends(batch') /\ Ascends(queue') /\ Below(batch', queue')
  BY ZenonT(30), <1>1, Concatenated DEF AInv
<1>3. CASE stored' = stored \o batch /\ lost' = lost
  <2>1. /\ stored' \in Seq(Nat) /\ Events(stored') = Events(stored) \cup Events(batch) /\ Ascends(stored')
    BY <1>3, Concatenated DEF AInv
  <2>2. Below(stored', batch') /\ Below(stored', queue')
    BY <1>2, <2>1 DEF AInv, Below
  <2>3. /\ Events(stored') \cup Events(batch') \cup Events(queue') \cup lost' = 1 .. logged
        /\ (Events(stored') \cup Events(batch') \cup Events(queue')) \cap lost' = {}
    BY Zenon, <1>2, <1>3, <2>1 DEF AInv
  <2>. QED BY <1>0, <1>1, <1>2, <2>1, <2>2, <2>3 DEF AInv
<1>4. CASE stored' = stored /\ lost' = lost \cup Events(batch)
  <2>1. \A x \in Events(batch) : x \in Nat
    BY DEF AInv
  <2>2. (Events(stored) \cup Events(queue)) \cap Events(batch) = {}
    BY <2>1 DEF AInv, Below
  <2>3. Below(stored, batch') /\ Below(stored, queue')
    BY <1>2 DEF AInv, Below
  <2>4. /\ Events(stored) \cup Events(batch') \cup Events(queue') \cup lost' = 1 .. logged
        /\ (Events(stored) \cup Events(batch') \cup Events(queue')) \cap lost' = {}
    BY <1>2, <1>4, <2>2 DEF AInv
  <2>. QED BY ZenonT(30), <1>0, <1>1, <1>2, <1>4, <2>3, <2>4 DEF AInv
<1>. QED BY <1>0, <1>3, <1>4

(* What the end of the process takes with it.                                  *)
LEMMA EndKeeps ==
    ASSUME AInv, ProcessEnds
    PROVE  AInv'
<1>0. /\ batch = << >> /\ lost' = lost \cup Events(queue) /\ queue' = << >>
      /\ UNCHANGED <<logged, batch, stored, failures>>
  BY DEF ProcessEnds
<1>1. Events(queue') = {} /\ Ascends(queue') /\ queue' \in Seq(Nat)
  BY <1>0, EmptyEvents
<1>2. Below(stored, queue') /\ Below(batch, queue')
  BY <1>1 DEF Below
<1>3. (Events(stored) \cup Events(batch)) \cap Events(queue) = {}
  <2>1. \A x \in Events(queue) : x \in Nat
    BY DEF AInv
  <2>. QED BY <2>1 DEF AInv, Below
<1>4. /\ Events(stored) \cup Events(batch) \cup Events(queue') \cup lost' = 1 .. logged
      /\ (Events(stored) \cup Events(batch) \cup Events(queue')) \cap lost' = {}
  BY <1>0, <1>1, <1>3 DEF AInv
<1>. QED BY <1>0, <1>1, <1>2, <1>4 DEF AInv

(* Every step keeps the trail in order and its losses bounded.                 *)
LEMMA StepAudit ==
    ASSUME AInv, LossInv, [Next]_vars
    PROVE  AInv' /\ LossInv'
<1>1. ASSUME UNCHANGED <<logged, queue, batch, stored, lost, failures, phase>> PROVE AInv' /\ LossInv'
  BY <1>1 DEF AInv, LossInv
<1>2. ASSUME UNCHANGED <<lost, failures>>, phase' # "stopped" => phase # "stopped" PROVE LossInv'
  BY <1>2 DEF LossInv
<1>3. ASSUME NEW b \in BOOLEAN, Log(b), UNCHANGED phase PROVE AInv' /\ LossInv'
  BY <1>2, <1>3, LogKeeps
<1>4. ASSUME InsertFails, phase # "stopped" PROVE AInv' /\ LossInv'
  <2>1. AInv'
    <3>1. failures' \in Nat
      BY <1>4 DEF InsertFails, AInv
    <3>. QED BY ZenonT(30), <1>4, <3>1, BatchKeeps DEF InsertFails
  <2>2. LossInv'
    BY <1>4, LossBound DEF InsertFails, LossInv
  <2>. QED BY <2>1, <2>2
<1>5. ASSUME Inserted, UNCHANGED phase PROVE AInv' /\ LossInv'
  <2>1. UNCHANGED <<lost, failures, logged, queue>> /\ failures' \in Nat
    BY <1>5 DEF Inserted, AInv
  <2>2. AInv'
    BY <1>5, <2>1, BatchKeeps DEF Inserted
  <2>. QED BY <1>2, <1>5, <2>1, <2>2
<1>6. ASSUME TakeBatch, UNCHANGED phase PROVE AInv' /\ LossInv'
  BY <1>2, <1>6, TakeKeeps DEF TakeBatch
<1>7. CASE Refusal \/ CallLogged
  BY Zenon, <1>3, <1>7 DEF Refusal, CallLogged, Input, Onward
<1>8. CASE Flushing
  BY <1>5, <1>6, <1>8 DEF Flushing, Onward
<1>9. CASE InsertFault
  BY <1>4, <1>9 DEF InsertFault, Input, Running
<1>10. CASE StopAudit
  <2>1. PICK committed \in BOOLEAN : StopFlush(committed)
    BY <1>10 DEF StopAudit
  <2>2. phase # "stopped" /\ phase' # "stopped"
    BY <1>10 DEF StopAudit
  <2>3. CASE lost' = lost /\ failures' = failures
    BY <1>2, <2>1, <2>2, <2>3, StopKeeps
  <2>4. CASE lost' = lost \cup Events(batch) /\ failures' = failures + 1
    BY ZenonT(30), <2>1, <2>2, <2>4, StopKeeps, LossBound DEF LossInv
  <2>5. CASE batch = << >> /\ lost' = lost \cup Events(batch) /\ failures' = failures
    BY <2>3, <2>5, EmptyEvents
  <2>. QED BY <2>1, <2>3, <2>4, <2>5 DEF StopFlush
<1>11. CASE LastFlush
  <2>1. CASE Inserted /\ UNCHANGED phase
    BY <1>5, <2>1
  <2>2. CASE InsertFails /\ UNCHANGED phase
    BY <1>4, <1>11, <2>2 DEF LastFlush
  <2>3. CASE ProcessEnds /\ phase' = "stopped"
    BY <2>3, EndKeeps DEF LossInv
  <2>. QED BY <1>11, <2>1, <2>2, <2>3 DEF LastFlush
<1>12. CASE StopPoller \/ StopWebhooks
  <2>1. UNCHANGED <<logged, queue, batch, stored, lost, failures>> /\ phase # "stopped"
    BY <1>12 DEF StopPoller, StopWebhooks, StopDispatcher, Unsubscribe, avars, Running
  <2>2. AInv'
    BY <2>1 DEF AInv
  <2>. QED BY <1>2, <2>1, <2>2
<1>13. CASE Request \/ World \/ CallFault \/ Poll \/ ProbeFault \/ CallWork \/ Probing
  <2>1. UNCHANGED <<avars, phase>>
    BY <1>13, Zenon DEF Request, World, CallFault, Poll, ProbeFault, CallWork, Probing, Input, Onward
  <2>. QED BY <1>1, <2>1 DEF avars
<1>14. CASE OtherAlert \/ Alerting
  BY ZenonT(30), <1>1, <1>14 DEF OtherAlert, Alerting, avars, Input, Onward
<1>15. CASE WebhookInput
  BY <1>1, <1>15 DEF WebhookInput, ToggleWebhook, CapWindowEnds, AlertCut, avars, Input
<1>16. CASE Dispatching
  <2>1. UNCHANGED <<logged, queue, batch, stored, lost, failures>>
    BY Zenon, <1>16 DEF Dispatching, HandleEvent, TaskWork, DebouncedSend, NoticeSent, PostDone, WindowEnds, avars
  <2>. QED BY <1>1, <1>16, <2>1 DEF Dispatching, Onward
<1>17. CASE UNCHANGED vars
  BY <1>1, <1>17 DEF vars, avars
<1>. QED BY ZenonT(30), <1>7, <1>8, <1>9, <1>10, <1>11, <1>12, <1>13, <1>14, <1>15, <1>16, <1>17 DEF Next, Stopped

(* Nothing is logged at first.                                                 *)
LEMMA InitAudit ==
    ASSUME Init
    PROVE  AInv /\ LossInv
<1>1. AInv
  <2>1. logged = 0 /\ failures = 0 /\ stored = << >> /\ batch = << >> /\ queue = << >> /\ lost = {}
    BY DEF Init, AuditInit
  <2>2. 1 .. 0 = {} /\ 0 <= MaxBatch
    BY AuditAssumption
  <2>. QED BY <2>1, <2>2, EmptyEvents DEF AInv, Below
<1>2. LossInv
  <2>1. Cardinality(lost) = 0 /\ failures = 0
    BY FS_EmptySet DEF Init, AuditInit
  <2>. QED BY <2>1, AuditAssumption DEF LossInv
<1>. QED BY <1>1, <1>2

(* Every event is stored in order, on its way, or lost to an insert that       *)
(* failed or to the end of the process (log, _flush_batch, _on_stop).          *)
THEOREM EventsAreAccountedFor == Spec => []EventsAccounted
<1>1. Init => AInv /\ LossInv
  BY InitAudit
<1>2. AInv /\ LossInv /\ [Next]_vars => (AInv /\ LossInv)'
  BY StepAudit
<1>3. AInv /\ LossInv => EventsAccounted
  BY AInvImplies
<1>. QED BY <1>1, <1>2, <1>3, PTL DEF Spec

------------------------------------------------------------------------------
TaskT == [pc : {"none", "sleep", "ripe", "notice", "post"}, blocked : BOOLEAN]
CapT == [count : Nat, suppressed : Nat, old : BOOLEAN]
Over == phase \notin {"running", "stopping"}

WType ==
    /\ enabled \in BOOLEAN /\ unsaid \in BOOLEAN /\ late \in BOOLEAN /\ rolled \in BOOLEAN
    /\ entry = Nothing \/ entry \in EntryT
    /\ task \in [Tasks -> TaskT] /\ cap \in CapT
    /\ untold \in Int /\ unnoticed \in Int

Pending(t) == task[t].pc \in {"sleep", "ripe"}
TaskOK(t) == (Pending(t) => task[t].blocked) /\ (Doing(t, "none") => ~task[t].blocked)

(* While no refusal came during the message of its window, one task at most is *)
(* about refusals, the entry is its, and it has yet to speak exactly if there  *)
(* is something to say.                                                        *)
RefusalInv ==
    ~Over =>
        /\ unsaid => \E t \in Tasks : Pending(t)
        /\ ~late =>
              /\ \A t, u \in Tasks : task[t].blocked /\ task[u].blocked => t = u
              /\ \A t \in Tasks : task[t].blocked => entry # Nothing /\ entry.task = t
              /\ \A t \in Tasks : Pending(t) => unsaid
              /\ untold = IF unsaid THEN entry.count ELSE 0

(* While no notice overlapped another, there is one at most, of a window that  *)
(* is over, and the tally is the cap's.                                        *)
NoticeInv ==
    ~rolled =>
        /\ \A t, u \in Notices : t = u
        /\ Notices # {} => cap.old
        /\ (Over => enabled) => unnoticed = IF Notices = {} THEN cap.suppressed ELSE 0

WInv == WType /\ (\A t \in Tasks : TaskOK(t)) /\ RefusalInv /\ NoticeInv

(* The records everything starts from.                                         *)
LEMMA TaskConstants ==
    /\ NoTask \in TaskT /\ NoTask.pc = "none" /\ NoTask.blocked = FALSE
    /\ FreshCap \in CapT /\ FreshCap.count = 0 /\ FreshCap.suppressed = 0 /\ FreshCap.old = FALSE
    /\ \A t \in Tasks, n \in Nat : /\ [task |-> t, count |-> n] # Nothing
                                   /\ [task |-> t, count |-> n] \in EntryT
                                   /\ [task |-> t, count |-> n].task = t /\ [task |-> t, count |-> n].count = n
BY WebhooksAssumption DEF NoTask, TaskT, FreshCap, CapT, EntryT

(* Which tasks are at a notice, when one task changes.                         *)
LEMMA NoticesAfter ==
    ASSUME WType, NEW t \in Tasks, NEW rec \in TaskT, task' = [task EXCEPT ![t] = rec]
    PROVE  /\ task'[t] = rec /\ (\A u \in Tasks \ {t} : task'[u] = task[u]) /\ task' \in [Tasks -> TaskT]
           /\ Notices' = IF rec.pc = "notice" THEN Notices \cup {t} ELSE Notices \ {t}
<1>1. task'[t] = rec /\ (\A u \in Tasks \ {t} : task'[u] = task[u]) /\ task' \in [Tasks -> TaskT]
  BY DEF WType
<1>. QED BY <1>1 DEF Notices, Doing

(* What the cap does to a send: it goes out, or is suppressed and its debounce *)
(* entry popped.                                                               *)
SendsOrNot(t, b, rec) ==
    /\ task' = [task EXCEPT ![t] = rec]
    /\ \/ rec = NoTask /\ entry' = IF b THEN Nothing ELSE entry
       \/ rec.pc \in {"notice", "post"} /\ rec.blocked = b /\ entry' = entry

(* Under the cap a send goes out, over it it is added to what was suppressed.  *)
LEMMA CheckCapEffect ==
    ASSUME WType, NEW t \in Tasks, NEW c \in CapT, NEW b \in BOOLEAN, rolled' \in BOOLEAN, CheckCap(t, c, b)
    PROVE  /\ \E rec \in TaskT : SendsOrNot(t, b, rec) /\ rec.pc # "notice"
           /\ cap' \in CapT /\ unnoticed' \in Int
           /\ ~rolled' => unnoticed' - cap'.suppressed = unnoticed - c.suppressed
<1>0. c.suppressed \in Nat /\ c.count \in Nat /\ unnoticed \in Int /\ CapMax \in Nat
  BY WebhooksAssumption DEF CapT, WType
<1>1. CASE c.count >= CapMax
  <2>1. /\ cap' = [c EXCEPT !.suppressed = c.suppressed + 1] /\ unnoticed' = IF rolled' THEN 0 ELSE unnoticed + 1
        /\ task' = [task EXCEPT ![t] = NoTask] /\ entry' = IF b THEN Nothing ELSE entry
    BY <1>1 DEF CheckCap
  <2>2. cap' \in CapT /\ cap'.suppressed = c.suppressed + 1
    BY <1>0, <2>1 DEF CapT
  <2>3. SendsOrNot(t, b, NoTask)
    BY <2>1 DEF SendsOrNot
  <2>. QED BY <1>0, <2>1, <2>2, <2>3, TaskConstants
<1>2. CASE ~(c.count >= CapMax)
  <2>1. /\ cap' = [c EXCEPT !.count = c.count + 1] /\ unnoticed' = IF rolled' THEN 0 ELSE unnoticed
        /\ task' = [task EXCEPT ![t] = [pc |-> "post", blocked |-> b]] /\ entry' = entry
    BY <1>2 DEF CheckCap
  <2>2. cap' \in CapT /\ cap'.suppressed = c.suppressed
    BY <1>0, <2>1 DEF CapT
  <2>3. [pc |-> "post", blocked |-> b] \in TaskT /\ SendsOrNot(t, b, [pc |-> "post", blocked |-> b])
    BY <2>1 DEF SendsOrNot, TaskT
  <2>. QED BY <1>0, <2>1, <2>2, <2>3
<1>. QED BY <1>1, <1>2

(* A task that is not waiting to speak goes on or ends, with its own entry.    *)
LEMMA TaskSettles ==
    ASSUME WInv, NEW t \in Tasks, ~Pending(t), NEW rec \in TaskT, SendsOrNot(t, task[t].blocked, rec),
           UNCHANGED <<unsaid, untold, late>>, Over' = Over
    PROVE  /\ task' \in [Tasks -> TaskT] /\ (entry' = Nothing \/ entry' \in EntryT)
           /\ \A u \in Tasks : TaskOK(u)'
           /\ RefusalInv'
<1>0. /\ task'[t] = rec /\ (\A u \in Tasks \ {t} : task'[u] = task[u]) /\ task' \in [Tasks -> TaskT]
      /\ \A u \in Tasks : task[u] \in TaskT
      /\ task[t].blocked \in BOOLEAN
  BY NoticesAfter DEF WInv, WType, SendsOrNot, TaskT
<1>1. entry' = Nothing \/ entry' \in EntryT
  BY DEF WInv, WType, SendsOrNot
<1>2. /\ rec.pc \notin {"sleep", "ripe"} /\ (rec.pc = "none" => ~rec.blocked) /\ (rec.blocked => task[t].blocked)
      /\ entry' = entry \/ (task[t].blocked /\ ~rec.blocked)
  BY Zenon, <1>0, TaskConstants DEF SendsOrNot
<1>3. \A u \in Tasks : TaskOK(u)'
  BY Zenon, <1>0, <1>2 DEF WInv, TaskOK, Pending, Doing
<1>4. RefusalInv'
  <2>. SUFFICES ASSUME ~Over PROVE RefusalInv'
    BY Zenon DEF RefusalInv
  <2>1. \A u \in Tasks : (Pending(u)' <=> Pending(u)) /\ (task'[u].blocked => task[u].blocked)
    BY Zenon, <1>0, <1>2 DEF Pending
  <2>2. unsaid => \E u \in Tasks : Pending(u)'
    BY Zenon, <2>1 DEF WInv, RefusalInv
  <2>. SUFFICES ASSUME ~late PROVE
              /\ \A v, u \in Tasks : task'[v].blocked /\ task'[u].blocked => v = u
              /\ \A v \in Tasks : task'[v].blocked => entry' # Nothing /\ entry'.task = v
              /\ \A v \in Tasks : Pending(v)' => unsaid
              /\ untold = IF unsaid THEN entry'.count ELSE 0
    BY Zenon, <2>2 DEF RefusalInv
  <2>3. \A v, u \in Tasks : task[v].blocked /\ task[u].blocked => v = u
    BY Zenon DEF WInv, RefusalInv
  <2>4. \A v \in Tasks : Pending(v)' => unsaid
    BY Zenon, <2>1 DEF WInv, RefusalInv
  <2>5. CASE entry' = entry
    BY Zenon, <2>1, <2>3, <2>4, <2>5 DEF WInv, RefusalInv
  <2>6. CASE task[t].blocked /\ ~rec.blocked
    <3>1. \A v \in Tasks : ~task'[v].blocked
      BY ZenonT(30), <1>0, <2>1, <2>3, <2>6
    <3>2. ~unsaid
      <4>1. \A u \in Tasks : Pending(u) => task[u].blocked /\ u = t
        BY Zenon, <2>3, <2>6 DEF WInv, TaskOK
      <4>. QED BY <4>1 DEF WInv, RefusalInv
    <3>. QED BY Zenon, <2>4, <3>1, <3>2 DEF WInv, RefusalInv
  <2>. QED BY Zenon, <1>2, <2>5, <2>6
<1>. QED BY Zenon, <1>0, <1>1, <1>3, <1>4

(* A debounced task speaks: all there is to say is said.                       *)
LEMMA DebouncedSettles ==
    ASSUME WInv, NEW t \in Tasks, Doing(t, "ripe"), NEW rec \in TaskT, SendsOrNot(t, TRUE, rec),
           unsaid' = FALSE, late' = late, Over' = Over,
           untold' = IF late THEN 0 ELSE untold - (IF entry = Nothing THEN 1 ELSE entry.count)
    PROVE  /\ task' \in [Tasks -> TaskT] /\ (entry' = Nothing \/ entry' \in EntryT) /\ untold' \in Int
           /\ \A u \in Tasks : TaskOK(u)'
           /\ RefusalInv'
<1>0. /\ task'[t] = rec /\ (\A u \in Tasks \ {t} : task'[u] = task[u]) /\ task' \in [Tasks -> TaskT]
      /\ Pending(t) /\ task[t].blocked
  BY NoticesAfter DEF WInv, WType, SendsOrNot, Pending, Doing, TaskOK
<1>1. (entry' = Nothing \/ entry' \in EntryT) /\ untold' \in Int
  <2>1. untold \in Int /\ (entry # Nothing => entry.count \in Nat)
    BY Zenon DEF WInv, WType, EntryT
  <2>. QED BY <2>1 DEF WInv, WType, SendsOrNot
<1>2. /\ rec.pc \notin {"sleep", "ripe"} /\ (rec.pc = "none" => ~rec.blocked)
      /\ entry' = entry \/ ~rec.blocked
  BY Zenon, TaskConstants DEF SendsOrNot
<1>3. \A u \in Tasks : TaskOK(u)'
  BY Zenon, <1>0, <1>2 DEF WInv, TaskOK, Pending, Doing
<1>4. RefusalInv'
  <2>. SUFFICES ASSUME ~Over, ~late PROVE
              /\ \A v, u \in Tasks : task'[v].blocked /\ task'[u].blocked => v = u
              /\ \A v \in Tasks : task'[v].blocked => entry' # Nothing /\ entry'.task = v
              /\ \A v \in Tasks : ~Pending(v)'
              /\ untold' = 0
    BY Zenon DEF RefusalInv
  <2>1. \A v \in Tasks : task[v].blocked => v = t
    BY Zenon, <1>0 DEF WInv, RefusalInv
  <2>2. entry # Nothing /\ entry.task = t /\ unsaid /\ untold = entry.count
    BY <1>0 DEF WInv, RefusalInv
  <2>3. untold' = 0
    <3>1. entry.count \in Nat
      BY Zenon, <2>2 DEF WInv, WType, EntryT
    <3>. QED BY <2>2, <3>1
  <2>4. \A v \in Tasks : task'[v].blocked => v = t /\ entry' = entry
    BY Zenon, <1>0, <1>2, <2>1
  <2>5. \A v \in Tasks : ~Pending(v)'
    BY Zenon, <1>0, <1>2, <2>1 DEF Pending, WInv, TaskOK
  <2>. QED BY Zenon, <2>2, <2>3, <2>4, <2>5
<1>. QED BY Zenon, <1>0, <1>1, <1>3, <1>4

(* A send, and the notice before it when a window is over, keep the tally.     *)
LEMMA SendKeepsTally ==
    ASSUME WInv, NEW t \in Tasks, ~Doing(t, "notice"), NEW b \in BOOLEAN, SendIfUnderCap(t, b),
           enabled' = enabled, Over' = Over
    PROVE  /\ \E rec \in TaskT : SendsOrNot(t, b, rec)
           /\ cap' \in CapT /\ unnoticed' \in Int /\ rolled' \in BOOLEAN
           /\ NoticeInv'
<1>0. /\ WType /\ cap \in CapT /\ cap.suppressed \in Nat /\ cap.old \in BOOLEAN /\ unnoticed \in Int
      /\ rolled' = (rolled \/ (cap.old /\ Notices # {})) /\ rolled' \in BOOLEAN
      /\ ~rolled' => ~rolled /\ Notices = {}
      /\ t \notin Notices
  BY DEF WInv, WType, CapT, SendIfUnderCap, NoticeInv, Notices
<1>1. CASE cap.old /\ cap.suppressed > 0
  <2>. DEFINE rec == [pc |-> "notice", blocked |-> b]
  <2>1. /\ task' = [task EXCEPT ![t] = rec] /\ cap' = cap /\ entry' = entry
        /\ unnoticed' = IF rolled' THEN 0 ELSE unnoticed - cap.suppressed
    BY <1>1 DEF SendIfUnderCap
  <2>2. rec \in TaskT /\ rec.pc = "notice" /\ rec.blocked = b
    BY DEF TaskT
  <2>3. SendsOrNot(t, b, rec)
    BY ZenonT(30), <2>1, <2>2 DEF SendsOrNot
  <2>. HIDE DEF rec
  <2>4. Notices' = Notices \cup {t}
    BY Zenon, <1>0, <2>1, <2>2, NoticesAfter
  <2>5. unnoticed' \in Int
    BY <1>0, <2>1
  <2>6. NoticeInv'
    <3>. SUFFICES ASSUME ~rolled' PROVE NoticeInv'
      BY DEF NoticeInv
    <3>1. Notices' = {t} /\ cap'.old
      BY Zenon, <1>0, <1>1, <2>1, <2>4
    <3>2. (Over => enabled) => unnoticed = cap.suppressed
      BY <1>0 DEF WInv, NoticeInv
    <3>3. (Over => enabled) => unnoticed' = 0
      BY <1>0, <2>1, <3>2
    <3>. QED BY <3>1, <3>3 DEF NoticeInv
  <2>. QED BY Zenon, <1>0, <2>1, <2>2, <2>3, <2>5, <2>6
<1>2. CASE ~(cap.old /\ cap.suppressed > 0)
  <2>. DEFINE c == IF cap.old THEN FreshCap ELSE cap
  <2>1. CheckCap(t, c, b) /\ c \in CapT /\ c.suppressed = cap.suppressed
    BY <1>0, <1>2, TaskConstants DEF SendIfUnderCap
  <2>. HIDE DEF c
  <2>2. PICK rec \in TaskT : SendsOrNot(t, b, rec) /\ rec.pc # "notice"
    BY Zenon, <1>0, <2>1, CheckCapEffect
  <2>3. /\ cap' \in CapT /\ unnoticed' \in Int
        /\ ~rolled' => unnoticed' - cap'.suppressed = unnoticed - cap.suppressed
    BY <1>0, <2>1, CheckCapEffect
  <2>4. Notices' = Notices \ {t}
    BY Zenon, <1>0, <2>2, NoticesAfter DEF SendsOrNot
  <2>5. NoticeInv'
    <3>. SUFFICES ASSUME ~rolled' PROVE NoticeInv'
      BY DEF NoticeInv
    <3>1. Notices' = {}
      BY <1>0, <2>4
    <3>2. (Over => enabled) => unnoticed' = cap'.suppressed
      <4>1. (Over => enabled) => unnoticed = cap.suppressed
        BY <1>0 DEF WInv, NoticeInv
      <4>2. cap'.suppressed \in Nat
        BY <2>3 DEF CapT
      <4>. QED BY <1>0, <2>3, <4>1, <4>2
    <3>. QED BY <3>1, <3>2 DEF NoticeInv
  <2>. QED BY ZenonT(30), <1>0, <2>2, <2>3, <2>5
<1>. QED BY Zenon, <1>1, <1>2

(* The invariant is about the dispatcher alone.                                *)
LEMMA WQuietKeeps ==
    ASSUME WInv, UNCHANGED wvars, Over' = Over
    PROVE  WInv'
<1>1. WType' /\ (\A t \in Tasks : TaskOK(t)')
  BY Zenon DEF WInv, WType, TaskOK, Pending, Doing, wvars, ghosts
<1>2. RefusalInv'
  BY ZenonT(30) DEF WInv, RefusalInv, Pending, wvars, ghosts
<1>3. NoticeInv'
  BY Zenon DEF WInv, NoticeInv, Notices, Doing, wvars, ghosts
<1>. QED BY Zenon, <1>1, <1>2, <1>3 DEF WInv

(* A refusal is counted in the open window or opens one (_handle_blocked).     *)
LEMMA DebounceKeeps ==
    ASSUME WInv, Debounce, UNCHANGED <<enabled, cap>>, Over' = Over
    PROVE  WInv'
<1>0. /\ WType /\ untold \in Int /\ late \in BOOLEAN /\ task \in [Tasks -> TaskT]
      /\ unsaid' = TRUE /\ rolled' = rolled /\ unnoticed' = unnoticed
      /\ untold' = IF late' THEN 0 ELSE untold + 1
  BY DEF WInv, WType, Debounce
<1>1. CASE WindowOpen
  <2>1. /\ entry \in EntryT /\ entry.task \in Tasks /\ entry.count \in Nat /\ Pending(entry.task)
        /\ entry' = [entry EXCEPT !.count = entry.count + 1] /\ task' = task /\ late' = late
    BY <1>0, <1>1 DEF Debounce, WindowOpen, WType, EntryT, Pending, Doing
  <2>2. entry' \in EntryT /\ entry'.task = entry.task /\ entry'.count = entry.count + 1 /\ entry' # Nothing
    BY <2>1, WebhooksAssumption DEF EntryT
  <2>3. WType'
    BY <1>0, <2>1, <2>2 DEF WType
  <2>4. \A t \in Tasks : TaskOK(t)'
    BY <2>1 DEF WInv, TaskOK, Pending, Doing
  <2>5. RefusalInv'
    <3>. SUFFICES ASSUME ~Over PROVE RefusalInv'
      BY DEF RefusalInv
    <3>1. \A t \in Tasks : Pending(t)' <=> Pending(t)
      BY <2>1 DEF Pending
    <3>2. CASE late
      BY Zenon, <1>0, <2>1, <3>1, <3>2 DEF RefusalInv
    <3>3. CASE ~late
      <4>1. untold = entry.count
        BY <2>1, <3>3 DEF WInv, RefusalInv
      <4>2. untold' = entry'.count
        BY Zenon, <1>0, <2>1, <2>2, <3>3, <4>1
      <4>3. \A t \in Tasks : task[t].blocked => entry # Nothing /\ entry.task = t
        BY Zenon, <3>3 DEF WInv, RefusalInv
      <4>4. \A t, u \in Tasks : task[t].blocked /\ task[u].blocked => t = u
        BY <3>3 DEF WInv, RefusalInv
      <4>. QED BY Zenon, <1>0, <2>1, <2>2, <3>1, <4>2, <4>3, <4>4 DEF RefusalInv
    <3>. QED BY ZenonT(30), <3>2, <3>3
  <2>6. NoticeInv'
    BY <1>0, <2>1 DEF WInv, NoticeInv, Notices, Doing
  <2>. QED BY <2>3, <2>4, <2>5, <2>6 DEF WInv
<1>2. CASE ~WindowOpen
  <2>. DEFINE rec == [pc |-> "sleep", blocked |-> TRUE]
  <2>1. PICK t \in Tasks : /\ Doing(t, "none") /\ entry' = [task |-> t, count |-> 1]
                           /\ task' = [task EXCEPT ![t] = rec]
                           /\ late' = (late \/ \E u \in Tasks : task[u].blocked)
    BY Zenon, <1>2 DEF Debounce, FirstFree
  <2>2. rec \in TaskT /\ rec.pc = "sleep" /\ rec.blocked = TRUE
    BY ZenonT(30) DEF TaskT
  <2>. HIDE DEF rec
  <2>3. /\ task'[t] = rec /\ (\A u \in Tasks \ {t} : task'[u] = task[u]) /\ task' \in [Tasks -> TaskT]
        /\ Notices' = Notices \ {t}
    BY ZenonT(30), <1>0, <2>1, <2>2, NoticesAfter
  <2>4. entry' \in EntryT /\ entry' # Nothing /\ entry'.task = t /\ entry'.count = 1
    BY <2>1, TaskConstants
  <2>5. late' \in BOOLEAN
    BY <2>1
  <2>6. WType'
    <3>1. untold' \in Int
      BY <1>0
    <3>. QED BY <1>0, <2>3, <2>4, <2>5, <3>1 DEF WType
  <2>7. \A u \in Tasks : TaskOK(u)'
    BY <2>2, <2>3 DEF WInv, TaskOK, Pending, Doing
  <2>8. RefusalInv'
    <3>. SUFFICES ASSUME ~Over PROVE RefusalInv'
      BY DEF RefusalInv
    <3>1. Pending(t)'
      BY Zenon, <2>2, <2>3 DEF Pending
    <3>2. CASE late'
      BY Zenon, <1>0, <3>1, <3>2 DEF RefusalInv
    <3>3. CASE ~late'
      <4>1. ~late /\ \A u \in Tasks : ~task[u].blocked
        BY ZenonT(30), <2>1, <3>3
      <4>2. untold = 0
        BY <4>1 DEF WInv, RefusalInv, TaskOK
      <4>3. untold' = 1
        BY <1>0, <3>3, <4>2
      <4>4. \A u \in Tasks : task'[u].blocked => u = t
        BY <2>3, <4>1
      <4>. QED BY ZenonT(30), <1>0, <2>4, <3>1, <4>3, <4>4 DEF RefusalInv
    <3>. QED BY ZenonT(30), <3>2, <3>3
  <2>9. NoticeInv'
    <3>1. Notices' = Notices
      BY Zenon, <2>1, <2>3 DEF Notices, Doing
    <3>. QED BY Zenon, <1>0, <3>1 DEF WInv, NoticeInv
  <2>. QED BY <2>6, <2>7, <2>8, <2>9 DEF WInv
<1>. QED BY <1>1, <1>2

(* An alert is sent, suppressed or dropped (notify_unhealthy and the others).  *)
LEMMA SendAlertKeeps ==
    ASSUME WInv, SendAlert, UNCHANGED <<enabled, unsaid, untold, late>>, Over' = Over
    PROVE  WInv'
<1>1. CASE ~enabled
  BY Zenon, <1>1, WQuietKeeps DEF SendAlert, wvars, ghosts
<1>2. CASE enabled
  <2>1. PICK t \in Tasks : Doing(t, "none") /\ SendIfUnderCap(t, FALSE)
    BY Zenon, <1>2 DEF SendAlert, FirstFree
  <2>2. ~Pending(t) /\ ~Doing(t, "notice") /\ task[t].blocked = FALSE
    <3>1. task[t].blocked \in BOOLEAN
      BY DEF WInv, WType, TaskT
    <3>. QED BY <2>1, <3>1 DEF WInv, TaskOK, Pending, Doing
  <2>3. /\ \E rec \in TaskT : SendsOrNot(t, FALSE, rec)
        /\ cap' \in CapT /\ unnoticed' \in Int /\ rolled' \in BOOLEAN /\ NoticeInv'
    BY Zenon, <2>1, <2>2, SendKeepsTally
  <2>4. PICK rec \in TaskT : SendsOrNot(t, task[t].blocked, rec)
    BY Zenon, <2>2, <2>3
  <2>5. /\ task' \in [Tasks -> TaskT] /\ (entry' = Nothing \/ entry' \in EntryT)
        /\ (\A u \in Tasks : TaskOK(u)') /\ RefusalInv'
    BY Zenon, <2>2, <2>4, TaskSettles
  <2>6. WType'
    BY <2>3, <2>5 DEF WInv, WType
  <2>. QED BY ZenonT(30), <2>3, <2>5, <2>6 DEF WInv
<1>. QED BY Zenon, <1>1, <1>2 DEF WInv, WType

(* A task's own steps keep the invariant: its window ends, it speaks, its      *)
(* notice or its post returns (_debounced_send, _send_if_under_cap, _post).    *)
LEMMA TaskWorkKeeps ==
    ASSUME WInv, NEW t \in Tasks, TaskWork(t) \/ WindowEnds(t), Over' = Over
    PROVE  WInv'
<1>0. /\ WType /\ task[t] \in TaskT /\ task[t].blocked \in BOOLEAN /\ rolled \in BOOLEAN
      /\ cap \in CapT /\ cap.suppressed \in Nat /\ unnoticed \in Int
  BY DEF WInv, WType, TaskT, CapT
<1>1. CASE WindowEnds(t)
  <2>. DEFINE rec == [pc |-> "ripe", blocked |-> task[t].blocked]
  <2>1. /\ Doing(t, "sleep") /\ task' = [task EXCEPT ![t] = rec]
        /\ UNCHANGED <<enabled, entry, cap, unsaid, untold, late, unnoticed, rolled>>
    <3>1. [task[t] EXCEPT !.pc = "ripe"] = rec
      BY <1>0 DEF TaskT
    <3>2. task' = [task EXCEPT ![t] = [task[t] EXCEPT !.pc = "ripe"]]
      BY <1>1 DEF WindowEnds
    <3>3. task' = [task EXCEPT ![t] = rec]
      BY Zenon, <3>1, <3>2
    <3>. QED BY Zenon, <1>1, <3>3 DEF WindowEnds, ghosts
  <2>2. rec \in TaskT /\ rec.pc = "ripe" /\ rec.blocked = task[t].blocked
    BY <1>0 DEF TaskT
  <2>. HIDE DEF rec
  <2>3. /\ task'[t] = rec /\ (\A u \in Tasks \ {t} : task'[u] = task[u]) /\ task' \in [Tasks -> TaskT]
        /\ Notices' = Notices \ {t}
    BY Zenon, <1>0, <2>1, <2>2, NoticesAfter
  <2>4. WType'
    BY Zenon, <2>1, <2>3 DEF WInv, WType
  <2>5. \A u \in Tasks : (Pending(u)' <=> Pending(u)) /\ (task'[u].blocked = task[u].blocked)
    BY Zenon, <2>1, <2>2, <2>3 DEF Pending, Doing
  <2>6. \A u \in Tasks : TaskOK(u)'
    BY ZenonT(30), <2>2, <2>3, <2>5 DEF WInv, TaskOK, Doing
  <2>7. RefusalInv'
    BY <2>1, <2>5 DEF WInv, RefusalInv
  <2>8. NoticeInv'
    <3>1. Notices' = Notices
      BY <2>1, <2>3 DEF Notices, Doing
    <3>. QED BY <2>1, <3>1 DEF WInv, NoticeInv
  <2>. QED BY <2>4, <2>6, <2>7, <2>8 DEF WInv
<1>2. CASE DebouncedSend(t)
  <2>1. /\ Doing(t, "ripe") /\ ~Doing(t, "notice") /\ SendIfUnderCap(t, TRUE)
        /\ enabled' = enabled /\ late' = late /\ unsaid' = FALSE
        /\ untold' = IF late THEN 0 ELSE untold - (IF entry = Nothing THEN 1 ELSE entry.count)
    BY Zenon, <1>2 DEF DebouncedSend, Doing
  <2>2. /\ \E rec \in TaskT : SendsOrNot(t, TRUE, rec)
        /\ cap' \in CapT /\ unnoticed' \in Int /\ rolled' \in BOOLEAN /\ NoticeInv'
    BY Zenon, <2>1, SendKeepsTally
  <2>3. PICK rec \in TaskT : SendsOrNot(t, TRUE, rec)
    BY Zenon, <2>2
  <2>4. /\ task' \in [Tasks -> TaskT] /\ (entry' = Nothing \/ entry' \in EntryT) /\ untold' \in Int
        /\ (\A u \in Tasks : TaskOK(u)') /\ RefusalInv'
    BY Zenon, <2>1, <2>3, DebouncedSettles
  <2>5. WType'
    <3>1. enabled' \in BOOLEAN /\ late' \in BOOLEAN /\ unsaid' \in BOOLEAN
      BY <2>1, Zenon DEF WInv, WType
    <3>. QED BY <2>2, <2>4, <3>1 DEF WType
  <2>. QED BY ZenonT(30), <2>2, <2>4, <2>5 DEF WInv
<1>3. CASE NoticeSent(t)
  <2>1. /\ Doing(t, "notice") /\ ~Pending(t) /\ rolled' = rolled /\ CheckCap(t, FreshCap, task[t].blocked)
        /\ UNCHANGED <<enabled, unsaid, untold, late>>
    BY Zenon, <1>3 DEF NoticeSent, Doing, Pending
  <2>0. FreshCap \in CapT /\ FreshCap.suppressed = 0 /\ rolled' \in BOOLEAN
    BY Zenon, <1>0, <2>1, TaskConstants
  <2>e. /\ \E rec \in TaskT : SendsOrNot(t, task[t].blocked, rec) /\ rec.pc # "notice"
        /\ cap' \in CapT /\ unnoticed' \in Int
        /\ ~rolled' => unnoticed' - cap'.suppressed = unnoticed - FreshCap.suppressed
    <3>1. CheckCap(t, FreshCap, task[t].blocked)
      BY <2>1
    <3>. QED BY Zenon, <1>0, <2>0, <3>1, CheckCapEffect
  <2>2. PICK rec \in TaskT : SendsOrNot(t, task[t].blocked, rec) /\ rec.pc # "notice"
    BY <2>e
  <2>3. /\ cap' \in CapT /\ unnoticed' \in Int
        /\ ~rolled' => unnoticed' - cap'.suppressed = unnoticed - FreshCap.suppressed
    BY <2>e
  <2>4. /\ task' \in [Tasks -> TaskT] /\ (entry' = Nothing \/ entry' \in EntryT)
        /\ (\A u \in Tasks : TaskOK(u)') /\ RefusalInv'
    BY Zenon, <2>1, <2>2, TaskSettles
  <2>5. WType'
    BY Zenon, <1>0, <2>1, <2>3, <2>4 DEF WInv, WType
  <2>6. NoticeInv'
    <3>. SUFFICES ASSUME ~rolled PROVE NoticeInv'
      BY Zenon, <2>1 DEF NoticeInv
    <3>1. t \in Notices /\ \A u \in Notices : u = t
      BY ZenonT(30), <2>1 DEF WInv, NoticeInv, Notices
    <3>2. Notices' = {}
      BY ZenonT(30), <1>0, <2>2, <3>1, NoticesAfter DEF SendsOrNot
    <3>3. (Over => enabled) => unnoticed = 0
      BY <3>1 DEF WInv, NoticeInv
    <3>4. (Over => enabled) => unnoticed' = cap'.suppressed
      <4>1. cap'.suppressed \in Nat
        BY <2>3 DEF CapT
      <4>2. unnoticed' - cap'.suppressed = unnoticed - 0
        BY <2>0, <2>1, <2>3
      <4>3. unnoticed' \in Int
        BY <2>3
      <4>4. ASSUME Over => enabled PROVE unnoticed' - cap'.suppressed = 0
        BY <3>3, <4>2, <4>4
      <4>. QED BY <4>1, <4>3, <4>4
    <3>. QED BY Zenon, <2>1, <3>2, <3>4 DEF NoticeInv
  <2>. QED BY Zenon, <2>4, <2>5, <2>6 DEF WInv
<1>4. CASE PostDone(t)
  <2>1. /\ Doing(t, "post") /\ ~Pending(t)
        /\ UNCHANGED <<enabled, cap, unsaid, untold, late, unnoticed, rolled>>
    BY Zenon, <1>4 DEF PostDone, Doing, Pending, ghosts
  <2>2. NoTask \in TaskT /\ SendsOrNot(t, task[t].blocked, NoTask)
    BY Zenon, <1>4, TaskConstants DEF PostDone, SendsOrNot
  <2>3. /\ task' \in [Tasks -> TaskT] /\ (entry' = Nothing \/ entry' \in EntryT)
        /\ (\A u \in Tasks : TaskOK(u)') /\ RefusalInv'
    BY Zenon, <2>1, <2>2, TaskSettles
  <2>4. WType'
    BY ZenonT(30), <2>1, <2>3 DEF WInv, WType
  <2>5. Notices' = Notices
    <3>1. Notices' = Notices \ {t}
      BY ZenonT(30), <1>0, <2>2, NoticesAfter, TaskConstants DEF SendsOrNot
    <3>. QED BY Zenon, <2>1, <3>1 DEF Notices, Doing
  <2>6. NoticeInv'
    BY <2>1, <2>5 DEF WInv, NoticeInv
  <2>. QED BY <2>3, <2>4, <2>6 DEF WInv
<1>. QED BY ZenonT(30), <1>1, <1>2, <1>3, <1>4 DEF TaskWork

(* The webhook is toggled, the cap's hour ends, an alert is cut off.           *)
LEMMA WebhookInputKeeps ==
    ASSUME WInv, WebhookInput
    PROVE  WInv'
<1>0. /\ ~Over /\ ~Over' /\ Over' = Over
      /\ WType /\ cap \in CapT /\ unnoticed \in Int /\ rolled \in BOOLEAN
  BY DEF WebhookInput, Input, Running, Over, WInv, WType
<1>1. CASE ToggleWebhook
  <2>1. enabled' = ~enabled /\ UNCHANGED <<entry, task, cap, unsaid, untold, late, unnoticed, rolled>>
    BY Zenon, <1>1 DEF ToggleWebhook, ghosts
  <2>2. WType' /\ (\A t \in Tasks : TaskOK(t)')
    BY Zenon, <1>0, <2>1 DEF WInv, WType, TaskOK, Pending, Doing
  <2>3. RefusalInv'
    BY ZenonT(30), <1>0, <2>1 DEF WInv, RefusalInv, Pending
  <2>4. NoticeInv'
    BY Zenon, <1>0, <2>1 DEF WInv, NoticeInv, Notices, Doing
  <2>. QED BY <2>2, <2>3, <2>4 DEF WInv
<1>2. CASE CapWindowEnds
  <2>1. cap' = [cap EXCEPT !.old = TRUE] /\ UNCHANGED <<enabled, entry, task, unsaid, untold, late, unnoticed, rolled>>
    BY <1>2 DEF CapWindowEnds, ghosts
  <2>2. cap' \in CapT /\ cap'.old = TRUE /\ cap'.suppressed = cap.suppressed
    BY Zenon, <1>0, <2>1 DEF CapT
  <2>3. WType' /\ (\A t \in Tasks : TaskOK(t)')
    BY <1>0, <2>1, <2>2 DEF WInv, WType, TaskOK, Pending, Doing
  <2>4. RefusalInv'
    BY <1>0, <2>1 DEF WInv, RefusalInv, Pending
  <2>5. NoticeInv'
    BY <1>0, <2>1, <2>2 DEF WInv, NoticeInv, Notices, Doing
  <2>. QED BY <2>3, <2>4, <2>5 DEF WInv
<1>3. ASSUME NEW t \in Tasks, AlertCut(t)
      PROVE  WInv'
  <2>1. /\ task[t].pc \in {"notice", "post"} /\ ~Pending(t) /\ ~task[t].blocked
        /\ UNCHANGED <<enabled, entry, cap, unsaid, untold, late>>
        /\ rolled' = (rolled \/ Doing(t, "notice")) /\ rolled' \in BOOLEAN
        /\ unnoticed' = IF rolled' THEN 0 ELSE unnoticed
    BY Zenon, <1>3 DEF AlertCut, Pending
  <2>2. NoTask \in TaskT /\ SendsOrNot(t, task[t].blocked, NoTask)
    BY ZenonT(30), <1>3, <2>1, TaskConstants DEF AlertCut, SendsOrNot
  <2>3. /\ task' \in [Tasks -> TaskT] /\ (entry' = Nothing \/ entry' \in EntryT)
        /\ (\A u \in Tasks : TaskOK(u)') /\ RefusalInv'
    BY ZenonT(30), <1>0, <2>1, <2>2, TaskSettles
  <2>4. WType'
    <3>1. unnoticed' \in Int
      <4>1. unnoticed' = 0 \/ unnoticed' = unnoticed
        BY <2>1, Zenon
      <4>. QED BY <1>0, <4>1
    <3>. QED BY <1>0, <2>1, <2>3, <3>1 DEF WType
  <2>5. NoticeInv'
    <3>. SUFFICES ASSUME ~rolled' PROVE NoticeInv'
      BY Zenon DEF NoticeInv
    <3>1. ~rolled /\ ~Doing(t, "notice") /\ unnoticed' = unnoticed
      BY Zenon, <2>1
    <3>2. Notices' = Notices \ {t}
      BY Zenon, <1>0, <2>2, NoticesAfter, TaskConstants DEF SendsOrNot
    <3>3. Notices' = Notices
      BY <3>1, <3>2 DEF Notices
    <3>. QED BY Zenon, <1>0, <2>1, <3>1, <3>3 DEF WInv, NoticeInv
  <2>. QED BY <2>3, <2>4, <2>5 DEF WInv
<1>. QED BY Zenon, <1>1, <1>2, <1>3 DEF WebhookInput

(* The dispatcher stops and says what it suppressed (stop,                     *)
(* _flush_pending_suppression).                                                *)
LEMMA StopWebhooksKeeps ==
    ASSUME WInv, StopWebhooks
    PROVE  WInv'
<1>0. /\ ~Over /\ Over' /\ WType /\ cap \in CapT /\ cap.suppressed \in Nat /\ unnoticed \in Int
      /\ task \in [Tasks -> TaskT] /\ (entry = Nothing \/ entry \in EntryT)
      /\ StopDispatcher
  BY DEF StopWebhooks, Over, WInv, WType, CapT
<1>1. /\ entry' = Nothing /\ UNCHANGED <<enabled, unsaid, untold, late>>
      /\ rolled' = (rolled \/ Notices # {} \/ \E t \in Tasks : task'[t].pc # "none") /\ rolled' \in BOOLEAN
      /\ cap' = IF cap.suppressed > 0 THEN FreshCap ELSE cap
      /\ unnoticed' = IF rolled' THEN 0 ELSE IF enabled THEN unnoticed - cap.suppressed ELSE unnoticed
  BY <1>0 DEF StopDispatcher, FlushSuppression
<1>2. task' \in [Tasks -> TaskT] /\ \A t \in Tasks : task'[t] = task[t] \/ task'[t] = NoTask
  <2>1. CASE entry = Nothing
    BY Zenon, <1>0, <2>1 DEF StopDispatcher
  <2>2. CASE entry # Nothing
    <3>1. entry.task \in Tasks /\ task' = [task EXCEPT ![entry.task] = NoTask]
      BY <1>0, <2>2 DEF StopDispatcher, EntryT
    <3>. QED BY ZenonT(30), <1>0, <3>1, TaskConstants, NoticesAfter
  <2>. QED BY <2>1, <2>2
<1>3. cap' \in CapT /\ cap'.suppressed = 0
  <2>1. CASE cap.suppressed > 0
    BY <1>1, <2>1, TaskConstants
  <2>2. CASE ~(cap.suppressed > 0)
    <3>1. cap' = cap
      BY Zenon, <1>1, <2>2
    <3>. QED BY <1>0, <2>2, <3>1
  <2>. QED BY Zenon, <2>1, <2>2
<1>4. WType'
  <2>1. unnoticed' \in Int
    BY <1>0, <1>1
  <2>. QED BY ZenonT(30), <1>0, <1>1, <1>2, <1>3, <2>1 DEF WType
<1>5. \A t \in Tasks : TaskOK(t)'
  BY Zenon, <1>2, TaskConstants DEF WInv, TaskOK, Pending, Doing
<1>6. RefusalInv'
  BY Zenon, <1>0 DEF RefusalInv
<1>7. NoticeInv'
  <2>. SUFFICES ASSUME ~rolled' PROVE NoticeInv'
    BY DEF NoticeInv
  <2>1. ~rolled /\ Notices = {} /\ \A t \in Tasks : task'[t].pc = "none"
    BY Zenon, <1>1
  <2>2. Notices' = {}
    BY <2>1 DEF Notices, Doing
  <2>3. unnoticed = cap.suppressed
    BY <1>0, <2>1 DEF WInv, NoticeInv
  <2>4. enabled => unnoticed' = 0
    <3>1. enabled => unnoticed' = unnoticed - cap.suppressed
      BY <1>1, Zenon
    <3>. QED BY <1>0, <2>3, <3>1
  <2>. QED BY ZenonT(30), <1>0, <1>1, <1>3, <2>2, <2>4 DEF NoticeInv
<1>. QED BY ZenonT(30), <1>4, <1>5, <1>6, <1>7 DEF WInv

(* The dispatcher starts with nothing to say.                                  *)
LEMMA InitWebhooks == Init => WInv
<1>. SUFFICES ASSUME Init PROVE WInv
  OBVIOUS
<1>1. /\ enabled = TRUE /\ entry = Nothing /\ cap = FreshCap /\ task = [t \in Tasks |-> NoTask]
      /\ unsaid = FALSE /\ untold = 0 /\ late = FALSE /\ unnoticed = 0 /\ rolled = FALSE
  BY DEF Init, WebhooksInit
<1>2. task \in [Tasks -> TaskT] /\ \A t \in Tasks : task[t].pc = "none" /\ ~task[t].blocked
  BY ZenonT(30), <1>1, TaskConstants
<1>3. WType
  <2>1. enabled \in BOOLEAN /\ unsaid \in BOOLEAN /\ late \in BOOLEAN /\ rolled \in BOOLEAN
    BY <1>1, Zenon
  <2>2. untold \in Int /\ unnoticed \in Int
    BY <1>1
  <2>. QED BY <1>1, <1>2, <2>1, <2>2, TaskConstants DEF WType
<1>4. \A t \in Tasks : TaskOK(t)
  BY <1>2 DEF TaskOK, Pending, Doing
<1>5. RefusalInv
  BY ZenonT(30), <1>1, <1>2 DEF RefusalInv, Pending
<1>6. NoticeInv
  BY <1>1, <1>2, TaskConstants DEF NoticeInv, Notices, Doing
<1>. QED BY <1>3, <1>4, <1>5, <1>6 DEF WInv

(* Every step of the process keeps the dispatcher's invariant.                 *)
LEMMA StepWebhooks == WInv /\ [Next]_vars => WInv'
<1>. SUFFICES ASSUME WInv, [Next]_vars PROVE WInv'
  OBVIOUS
<1>0. phase' = phase => Over' = Over
  BY DEF Over
<1>1. CASE \/ Request \/ World \/ CallFault \/ Refusal \/ Poll \/ ProbeFault \/ InsertFault
           \/ CallWork \/ CallLogged \/ Probing \/ Flushing \/ Stopped \/ UNCHANGED vars
  <2>1. UNCHANGED wvars /\ phase' = phase
    BY <1>1, Zenon DEF Request, World, CallFault, Refusal, Poll, ProbeFault, InsertFault, Input,
                       CallWork, CallLogged, Probing, Flushing, Onward, Stopped, vars
  <2>. QED BY <1>0, <2>1, WQuietKeeps
<1>2. CASE StopPoller \/ StopAudit \/ LastFlush
  <2>1. UNCHANGED wvars
    BY <1>2, ZenonT(30) DEF StopPoller, StopAudit, LastFlush
  <2>2. Over' = Over
    BY <1>2 DEF StopPoller, StopAudit, LastFlush, Running, Over
  <2>. QED BY <2>1, <2>2, WQuietKeeps
<1>3. CASE OtherAlert \/ Alerting
  <2>1. SendAlert /\ UNCHANGED <<enabled, unsaid, untold, late>> /\ phase' = phase
    BY <1>3, Zenon DEF OtherAlert, Alerting, Input, Onward
  <2>. QED BY <1>0, <2>1, SendAlertKeeps
<1>4. CASE Dispatching
  <2>1. Over' = Over
    BY <1>0, <1>4 DEF Dispatching, Onward
  <2>2. CASE HandleEvent
    <3>1. CASE Head(tail) \in blocked /\ enabled
      BY Zenon, <2>1, <2>2, <3>1, DebounceKeeps DEF HandleEvent
    <3>2. CASE ~(Head(tail) \in blocked /\ enabled)
      BY Zenon, <2>1, <2>2, <3>2, WQuietKeeps DEF HandleEvent, wvars
    <3>. QED BY <3>1, <3>2
  <2>3. CASE \E t \in Tasks : TaskWork(t) \/ WindowEnds(t)
    BY <2>1, <2>3, TaskWorkKeeps
  <2>. QED BY <1>4, <2>2, <2>3 DEF Dispatching
<1>5. CASE WebhookInput
  BY <1>5, WebhookInputKeeps
<1>6. CASE StopWebhooks
  BY ZenonT(30), <1>6, StopWebhooksKeeps
<1>. QED BY ZenonT(30), <1>1, <1>2, <1>3, <1>4, <1>5, <1>6 DEF Next

(* The dispatcher's invariant says what a message tells.                       *)
LEMMA WInvImplies == WInv => RefusalsReported
<1>. SUFFICES ASSUME WInv PROVE SilenceMeansNothing(Over)
  BY Zenon DEF RefusalsReported, Over
<1>1. ~Over /\ unsaid => \E t \in Tasks : task[t].blocked /\ task[t].pc \in {"sleep", "ripe"}
  BY Zenon DEF WInv, RefusalInv, TaskOK, Pending
<1>2. ~Over /\ ~late => untold = IF unsaid THEN entry.count ELSE 0
  BY DEF WInv, RefusalInv
<1>3. ~rolled /\ (Over => enabled) => unnoticed = IF Notices = {} THEN cap.suppressed ELSE 0
  BY DEF WInv, NoticeInv
<1>. QED BY <1>1, <1>2, <1>3 DEF SilenceMeansNothing

(* Whatever the number of sends and the cap, no refusal goes without a message *)
(* or a task that will send one, and what the messages and the notices count   *)
(* is what there was, outside the overlaps RefusalsReported names              *)
(* (WebhookDispatcher).                                                        *)
THEOREM RefusalsAreReported == Spec => []RefusalsReported
<1>1. Init => WInv
  BY InitWebhooks
<1>2. WInv /\ [Next]_vars => WInv'
  BY StepWebhooks
<1>3. WInv => RefusalsReported
  BY WInvImplies
<1>. QED BY <1>1, <1>2, <1>3, PTL DEF Spec
=============================================================================
