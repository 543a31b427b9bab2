----------------------------- MODULE Operations -----------------------------
(* The gateway's background work put together (argus/app.py's lifespan): calls *)
(* and catalog fetches share the handshake cache with the health probes, what  *)
(* they do is logged, refusals reach the webhook dispatcher through the live   *)
(* tail, a probe's alert is a send of the dispatcher, and at shutdown the      *)
(* poller, the dispatcher and the audit logger stop in that order.             *)
(*                                                                            *)
(* Calls, probes, refusals, alerts, the clock, the operator and every fault    *)
(* draw on one budget, so that TLC meets each mix of a few of them in every    *)
(* order.                                                                      *)
EXTENDS Health, Webhooks

CONSTANT MaxInputs
ASSUME OperationsAssumption == MaxInputs \in Nat

VARIABLES
    phase,          \* where the process is in its lifespan
    inputs          \* what has come from outside so far

vars == <<uvars, hvars, avars, wvars, phase, inputs>>

Init ==
    /\ UpstreamInit /\ HealthInit /\ AuditInit /\ WebhooksInit
    /\ phase = "running" /\ inputs = 0

Running == phase = "running"
Input == Running /\ inputs < MaxInputs /\ inputs' = inputs + 1 /\ UNCHANGED phase
Onward == UNCHANGED <<phase, inputs>>

------------------------------------------------------------------------------
(* Traffic and the world.                                                      *)
Request == Input /\ UNCHANGED <<hvars, avars, wvars>>
           /\ \E c \in Calls, flag \in BOOLEAN : BridgeCall(c, flag) \/ GetTools(c, flag)
World == Input /\ UNCHANGED <<hvars, avars, wvars>>
         /\ (UpstreamRestarts \/ UpstreamChanges \/ CacheAges \/ Invalidate)
CallFault == Input /\ UNCHANGED <<hvars, avars, wvars>>
             /\ \E c \in Actors : \/ InitializeFails(c) \/ PostFails(c)
                                  \/ c \in Calls /\ Cancelled(c, "failed")
Refusal == Input /\ Log(TRUE) /\ UNCHANGED <<uvars, hvars, wvars>>
Poll == Input /\ (\E p \in Probes : PollOne(p)) /\ UNCHANGED <<avars, wvars>>
ProbeFault == Input /\ UNCHANGED <<avars, wvars>>
              /\ \E p \in Probes : DiscoverFails(p) \/ ProbeDeadline(p) \/ ProbeCut(p)
InsertFault == Input /\ InsertFails /\ UNCHANGED <<uvars, hvars, wvars>>
WebhookInput == Input /\ UNCHANGED <<uvars, hvars>>
                /\ (ToggleWebhook \/ CapWindowEnds \/ \E t \in Tasks : AlertCut(t))

(* An approval is filed or drift is found: a send that is not a probe's.       *)
OtherAlert ==
    /\ Input /\ enabled
    /\ SendAlert
    /\ UNCHANGED <<uvars, hvars, avars, enabled, unsaid, untold, late>>

------------------------------------------------------------------------------
(* The gateway's own steps.                                                    *)
CallWork == (\E c \in Actors : UpstreamWork(c)) /\ UNCHANGED <<hvars, avars, wvars>> /\ Onward
CallLogged == (\E c \in Calls : Answered(c)) /\ Log(FALSE) /\ UNCHANGED <<hvars, wvars>> /\ Onward
Probing == (\E p \in Probes : ProbeWork(p)) /\ UNCHANGED <<avars, wvars>> /\ Onward
Alerting ==
    /\ (\E p \in Probes : Notify(p)) /\ SendAlert
    /\ UNCHANGED <<avars, enabled, unsaid, untold, late>> /\ Onward
Flushing == (TakeBatch \/ Inserted) /\ phase \notin {"final", "stopped"}
            /\ UNCHANGED <<uvars, hvars, wvars>> /\ Onward
Dispatching == (HandleEvent \/ \E t \in Tasks : TaskWork(t) \/ WindowEnds(t))
               /\ UNCHANGED <<uvars, hvars>> /\ Onward

------------------------------------------------------------------------------
(* The lifespan's end, once the server has drained its requests.               *)
StopPoller ==
    /\ Running /\ \A c \in Calls : Is(c, "idle")
    /\ ProbesCut
    /\ phase' = "stopping" /\ UNCHANGED <<avars, wvars, inputs>>

StopWebhooks ==
    /\ phase = "stopping"
    /\ StopDispatcher
    /\ phase' = "audit" /\ UNCHANGED <<uvars, hvars, inputs>>

StopAudit ==
    /\ phase = "audit" /\ (\E committed \in BOOLEAN : StopFlush(committed))
    /\ phase' = "final" /\ UNCHANGED <<uvars, hvars, wvars, inputs>>

LastFlush ==
    /\ phase = "final"
    /\ \/ (Inserted \/ InsertFails) /\ UNCHANGED phase
       \/ ProcessEnds /\ phase' = "stopped"
    /\ UNCHANGED <<uvars, hvars, wvars, inputs>>

Stopped == phase = "stopped" /\ UNCHANGED vars

Next ==
    \/ Request \/ World \/ CallFault \/ Refusal \/ Poll \/ ProbeFault \/ InsertFault
    \/ WebhookInput \/ OtherAlert
    \/ CallWork \/ CallLogged \/ Probing \/ Alerting \/ Flushing \/ Dispatching
    \/ StopPoller \/ StopWebhooks \/ StopAudit \/ LastFlush \/ Stopped

Spec == Init /\ [][Next]_vars

------------------------------------------------------------------------------
(* AuditAccounted of the audit trail, to the end of the process.               *)
EventsAccounted == AuditAccounted(phase = "stopped")

(* SilenceMeansNothing of the dispatcher, to its stop and beyond.              *)
RefusalsReported == SilenceMeansNothing(phase \notin {"running", "stopping"})
=============================================================================
