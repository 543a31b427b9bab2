------------------------------- MODULE Health -------------------------------
(* The health poller (stoa/health.py): a probe reads the server's row, asks    *)
(* the upstream, stores what it found and raises an alert if the row it read   *)
(* was not unhealthy and the one it wrote is.  The poll and a re-probe from    *)
(* the console may probe the same server at once.                              *)
EXTENDS Upstream, Integers

VARIABLES
    health,         \* servers.health_status
    probe,          \* probes: [pc, before, out]
    due,            \* ghost: outages less alerts, raised or lost with their probe
    crossed         \* ghost: two probes overlapped

hvars == <<health, probe, due, crossed>>

NoProbe == [pc |-> "idle", before |-> "unknown", out |-> "unknown"]

HealthInit ==
    /\ health = "unknown"
    /\ probe = [p \in Probes |-> NoProbe]
    /\ due = 0 /\ crossed = FALSE

At(p, pc) == probe[p].pc = pc
Found(p, out) == probe' = [probe EXCEPT ![p].pc = "store", ![p].out = out]

(* poll_once and poll_one: the row, as it was before the probe.                *)
PollOne(p) ==
    /\ At(p, "idle")
    /\ probe' = [probe EXCEPT ![p] = [pc |-> "discover", before |-> health, out |-> "unknown"]]
    /\ crossed' = (crossed \/ \E q \in Probes : probe[q].pc \notin {"idle", "notify"})
    /\ due' = IF crossed' THEN 0 ELSE due
    /\ UNCHANGED <<uvars, health>>

(* probe_server: the credential does not resolve, or server/discover gets no   *)
(* answer within its bounds.                                                   *)
DiscoverFails(p) ==
    /\ At(p, "discover")
    /\ Found(p, "unhealthy")
    /\ UNCHANGED <<uvars, health, due, crossed>>

(* A probe that got through: a server in token mode must also refuse a request *)
(* without a token and one with a token for someone else, or it is unhealthy.  *)
CheckAuthEnforced(p) == \E out \in {"healthy", "unhealthy"} : Found(p, out)

(* A 2026 upstream answers with a result.                                      *)
Discovered(p) ==
    /\ At(p, "discover") /\ reachable
    /\ CheckAuthEnforced(p)
    /\ UNCHANGED <<uvars, health, due, crossed>>

(* A 2025 upstream answers that it does not know the method: the handshake,    *)
(* cached or not, decides.                                                     *)
Discover(p) ==
    /\ At(p, "discover") /\ reachable
    /\ probe' = [probe EXCEPT ![p].pc = "handshake"]
    /\ call' = [call EXCEPT ![p] = [NoCall EXCEPT !.pc = "get"]]
    /\ UNCHANGED <<world, handshakes, catalog, health, due, crossed>>

HandshakeOutcome(p) ==
    /\ At(p, "handshake")
    /\ \/ Is(p, "ready") /\ CheckAuthEnforced(p)
       \/ Is(p, "failed") /\ Found(p, "unhealthy")
    /\ call' = [call EXCEPT ![p] = NoCall]
    /\ UNCHANGED <<world, handshakes, catalog, health, due, crossed>>

(* PROBE_DEADLINE_SECONDS.                                                     *)
ProbeDeadline(p) ==
    /\ At(p, "handshake")
    /\ Cancelled(p, "idle")
    /\ Found(p, "unhealthy")
    /\ UNCHANGED <<health, due, crossed>>

OnEveryFailure(p) == probe[p].out = "unhealthy"

(* The edge, by the row that was read before the probe.                        *)
Edge(p) == probe[p].before # "unhealthy" /\ probe[p].out = "unhealthy"

SetHealth(p) ==
    /\ At(p, "store")
    /\ health' = probe[p].out
    /\ due' = IF ~crossed /\ health # "unhealthy" /\ health' = "unhealthy" THEN due + 1 ELSE due
    /\ probe' = [probe EXCEPT ![p] = IF Edge(p) THEN [@ EXCEPT !.pc = "notify"] ELSE NoProbe]
    /\ UNCHANGED <<uvars, crossed>>

Settled(p) == due' = IF ~crossed /\ At(p, "notify") THEN due - 1 ELSE due

(* The alert is handed to the dispatcher (notify_unhealthy).                   *)
Notify(p) ==
    /\ At(p, "notify")
    /\ Settled(p)
    /\ probe' = [probe EXCEPT ![p] = NoProbe]
    /\ UNCHANGED <<uvars, health, crossed>>

(* The request that asked for the probe goes away.                             *)
ProbeCut(p) ==
    /\ ~At(p, "idle")
    /\ IF call[p].pc \in Ended \cup {"idle", "ready"}
       THEN call' = [call EXCEPT ![p] = NoCall] /\ UNCHANGED <<world, handshakes, catalog>>
       ELSE Cancelled(p, "idle")
    /\ Settled(p)
    /\ probe' = [probe EXCEPT ![p] = NoProbe]
    /\ UNCHANGED <<health, crossed>>

(* The poller is stopped, with every probe under way.                          *)
ProbesCut ==
    /\ lock' = IF lock \in Probes THEN Nobody ELSE lock
    /\ call' = [c \in Actors |-> IF c \in Probes THEN NoCall ELSE call[c]]
    /\ probe' = [p \in Probes |-> NoProbe]
    /\ due' = IF crossed THEN due ELSE due - Cardinality({p \in Probes : At(p, "notify")})
    /\ UNCHANGED <<world, session, aged, catalog, health, crossed>>

ProbeWork(p) ==
    /\ ~At(p, "idle")
    /\ \/ ~reachable /\ DiscoverFails(p)
       \/ Discovered(p) \/ Discover(p) \/ HandshakeOutcome(p) \/ SetHealth(p)

------------------------------------------------------------------------------
(* Every outage raises one alert, and only one, however long it lasts, unless  *)
(* probes of the server overlapped (each compares with the row it read, not    *)
(* the one it replaces), or the probe was stopped between its write and its    *)
(* alert, which no later probe makes up for (_probe_and_store).                *)
AlertPerOutage == ~crossed => due = Cardinality({p \in Probes : At(p, "notify")})
=============================================================================
