------------------------------ MODULE Approvals ------------------------------
(* Four-eyes change control of one server's policy: the PUT that queues or     *)
(* writes (archon/api.py, set_policy), the proposals and their resolution      *)
(* (archon/approvals.py, db/repo.py ProposalRepo), the expiry sweep            *)
(* (stoa/proposals.py), beside server deletion, the settings toggle and the    *)
(* GitOps reconcile, none of which the gate covers.                            *)
(*                                                                            *)
(* A handler is one request's coroutine; a step is one database statement or   *)
(* transaction with the code up to the next await.  get_policy is one step     *)
(* here; Pipeline looks inside it.                                             *)
EXTENDS Integers

CONSTANTS
    Handlers,       \* concurrent control-plane requests
    People,         \* identities, as _identity tells them apart
    Proposals,      \* rows the proposals table may come to hold
    Policies,       \* policies
    Default,        \* the policy of a new server
    MaxEdits,       \* bound on PUTs, toggles, reconciles and deletions
    NoOne,          \* no person, no proposal
    Sweep           \* the resolver the expiry sweep signs with

ASSUME ConstantsAssumption ==
    /\ Default \in Policies
    /\ MaxEdits \in Nat
    /\ NoOne \notin People \cup Proposals
    /\ Sweep \notin People \cup {NoOne}

VARIABLES
    enabled,        \* the approvals_enabled setting
    expiring,       \* the approvals_ttl_days setting is above 0
    server,         \* id of the server behind the slug, 0 when there is none
    created,        \* server ids handed out
    policy,         \* its policy rows
    prop,           \* the proposals table
    old,            \* proposals created longer ago than approvals_ttl_days
    events,         \* proposal.* admin events
    handler,        \* the coroutines
    applied,        \* ghost: which proposals' policies were written, and by whom
    drifted,        \* ghost: proposals applied over neither their baseline nor themselves
    ungated,        \* ghost: a writer that needs no approval has been possible
    edits           \* PUTs, toggles, reconciles and deletions so far

vars == <<enabled, expiring, server, created, policy, prop, old, events, handler, applied, drifted, ungated, edits>>

NoRow == [state |-> "none", req |-> Default, base |-> Default, proposer |-> NoOne, resolver |-> NoOne]

IdleHandler ==
    [pc |-> "idle", who |-> NoOne, prop |-> NoOne, req |-> Default, server |-> 0, cur |-> Default]

At(h, pc) == handler[h].pc = pc
Idle(h) == At(h, "idle")
Begin(h, pc, who, p, req, id) ==
    handler' = [handler EXCEPT ![h] =
        [pc |-> pc, who |-> who, prop |-> p, req |-> req, server |-> id, cur |-> Default]]
Goto(h, pc) == handler' = [handler EXCEPT ![h].pc = pc]
GotoEventNoProposal(h, pc, p) == Begin(h, pc, NoOne, NoOne, Default, 0)
GotoEvent(h, pc, p) == Begin(h, pc, NoOne, p, Default, 0)
Return(h) == handler' = [handler EXCEPT ![h] = IdleHandler]

(* No approvals_ttl_days row yet, which stands for DEFAULT_TTL_DAYS.           *)
Init ==
    /\ enabled \in BOOLEAN /\ expiring = TRUE
    /\ server = 1 /\ created = 1
    /\ policy = Default
    /\ prop = [p \in Proposals |-> NoRow]
    /\ old = {} /\ events = {} /\ applied = {} /\ drifted = {}
    /\ handler = [h \in Handlers |-> IdleHandler]
    /\ ungated = ~enabled
    /\ edits = 0

Edit == edits < MaxEdits /\ edits' = edits + 1

(* get_policy by server id: the rows of a deleted server are gone, and read as *)
(* the default policy.                                                         *)
PolicyOf(id) == IF id = server THEN policy ELSE Default

------------------------------------------------------------------------------
(* PUT /servers/{slug}/policy                                                  *)

PutGetServer(h, who, req) ==
    /\ Idle(h) /\ server # 0 /\ Edit
    /\ Begin(h, "put_gate", who, NoOne, req, server)
    /\ UNCHANGED <<enabled, expiring, server, created, policy, prop, old, events, applied, drifted, ungated>>

(* The gate is the settings row at this moment.                                *)
GatedAlwaysOpen == FALSE
Gated == enabled
PutGate(h) ==
    /\ At(h, "put_gate")
    /\ Goto(h, IF Gated THEN "propose_server" ELSE "direct_write")
    /\ UNCHANGED <<enabled, expiring, server, created, policy, prop, old, events, applied, drifted, ungated, edits>>

(* set_policy by id: the foreign key refuses a server that is gone.            *)
DirectWrite(h) ==
    /\ At(h, "direct_write")
    /\ policy' = IF handler[h].server = server THEN handler[h].req ELSE policy
    /\ Return(h)
    /\ UNCHANGED <<enabled, expiring, server, created, prop, old, events, applied, drifted, ungated, edits>>

(* propose_policy_change looks the slug up again, then reads the baseline.     *)
ProposeGetServer(h) ==
    /\ At(h, "propose_server")
    /\ IF server = 0 THEN Return(h)
       ELSE handler' = [handler EXCEPT ![h].pc = "propose_read", ![h].server = server]
    /\ UNCHANGED <<enabled, expiring, server, created, policy, prop, old, events, applied, drifted, ungated, edits>>

ProposeReadBaseline(h) ==
    /\ At(h, "propose_read")
    /\ handler' = [handler EXCEPT ![h].pc = "propose_create",
                                  ![h].cur = PolicyOf(handler[h].server)]
    /\ UNCHANGED <<enabled, expiring, server, created, policy, prop, old, events, applied, drifted, ungated, edits>>

ProposeCreate(h, p) ==
    /\ At(h, "propose_create") /\ prop[p].state = "none"
    /\ prop' = [prop EXCEPT ![p] =
            [state |-> "pending", req |-> handler[h].req, base |-> handler[h].cur,
             proposer |-> handler[h].who, resolver |-> NoOne]]
    /\ GotoEvent(h, "propose_event", p)
    /\ UNCHANGED <<enabled, expiring, server, created, policy, old, events, applied, drifted, ungated, edits>>

RecordEvent(h, action) == events' = events \cup {[prop |-> handler[h].prop, action |-> action]}

ProposeEvent(h) ==
    /\ At(h, "propose_event")
    /\ RecordEvent(h, "create")
    /\ Return(h)
    /\ UNCHANGED <<enabled, expiring, server, created, policy, prop, old, applied, drifted, ungated, edits>>

------------------------------------------------------------------------------
(* POST /proposals/{id}/approve: get, four eyes, staleness, apply, resolve.    *)

(* A proposal that is no longer pending is a conflict, and so is one's own.    *)
MayApproveOwn(who, p) == prop[p].state = "pending"
MayApprove(who, p) == prop[p].state = "pending" /\ who # prop[p].proposer

ApproveGet(h, who, p) ==
    /\ Idle(h) /\ MayApprove(who, p)
    /\ Begin(h, "approve_server", who, p, Default, 0)
    /\ UNCHANGED <<enabled, expiring, server, created, policy, prop, old, events, applied, drifted, ungated, edits>>

ApproveGetServer(h) ==
    /\ At(h, "approve_server")
    /\ IF server = 0 THEN Return(h)
       ELSE handler' = [handler EXCEPT ![h].pc = "approve_check", ![h].server = server]
    /\ UNCHANGED <<enabled, expiring, server, created, policy, prop, old, events, applied, drifted, ungated, edits>>

(* The TOCTOU guard: the policy now must be the baseline, or the proposal is   *)
(* stale.                                                                      *)
AfterCheckResolve == "approve_resolve"
AfterCheck == "approve_apply"
ApproveCheck(h) ==
    /\ At(h, "approve_check")
    /\ IF PolicyOf(handler[h].server) = prop[handler[h].prop].base
       THEN Goto(h, AfterCheck) ELSE Return(h)
    /\ UNCHANGED <<enabled, expiring, server, created, policy, prop, old, events, applied, drifted, ungated, edits>>

(* set_policy, a transaction of its own.                                       *)
ApproveApply(h) ==
    /\ At(h, "approve_apply")
    /\ IF handler[h].server = server
       THEN /\ policy' = prop[handler[h].prop].req
            /\ applied' = applied \cup {[prop |-> handler[h].prop, who |-> handler[h].who]}
            /\ drifted' = IF policy \in {prop[handler[h].prop].base, prop[handler[h].prop].req} THEN drifted
                          ELSE drifted \cup {handler[h].prop}
            /\ handler' = [handler EXCEPT ![h].pc = "approve_resolve", ![h].server = 0]
       ELSE Return(h) /\ UNCHANGED <<policy, applied, drifted>>
    /\ UNCHANGED <<enabled, expiring, server, created, prop, old, events, ungated, edits>>

(* resolve: UPDATE ... WHERE state = 'pending'; no row means someone else won. *)
ResolvableAlways(p) == TRUE
Resolvable(p) == prop[p].state = "pending"
Resolve(h, p, state, event) ==
    IF Resolvable(p)
    THEN /\ prop' = [prop EXCEPT ![p].state = state, ![p].resolver = handler[h].who]
         /\ GotoEvent(h, event, p)
    ELSE Return(h) /\ UNCHANGED prop

ApproveResolve(h) ==
    /\ At(h, "approve_resolve")
    /\ Resolve(h, handler[h].prop, "approved", "approve_event")
    /\ UNCHANGED <<enabled, expiring, server, created, policy, old, events, applied, drifted, ungated, edits>>

ApproveEvent(h) ==
    /\ At(h, "approve_event")
    /\ RecordEvent(h, "approve")
    /\ Return(h)
    /\ UNCHANGED <<enabled, expiring, server, created, policy, prop, old, applied, drifted, ungated, edits>>

(* POST /proposals/{id}/reject: the proposer may withdraw, so no four eyes.    *)
RejectGet(h, who, p) ==
    /\ Idle(h) /\ prop[p].state = "pending"
    /\ Begin(h, "reject_resolve", who, p, Default, 0)
    /\ UNCHANGED <<enabled, expiring, server, created, policy, prop, old, events, applied, drifted, ungated, edits>>

RejectResolve(h) ==
    /\ At(h, "reject_resolve")
    /\ Resolve(h, handler[h].prop, "rejected", "reject_event")
    /\ UNCHANGED <<enabled, expiring, server, created, policy, old, events, applied, drifted, ungated, edits>>

RejectEvent(h) ==
    /\ At(h, "reject_event")
    /\ RecordEvent(h, "reject")
    /\ Return(h)
    /\ UNCHANGED <<enabled, expiring, server, created, policy, prop, old, applied, drifted, ungated, edits>>

(* The request is cancelled, or the process dies, between two steps.           *)
Crash(h) ==
    /\ ~Idle(h)
    /\ Return(h)
    /\ UNCHANGED <<enabled, expiring, server, created, policy, prop, old, events, applied, drifted, ungated, edits>>

------------------------------------------------------------------------------
(* The expiry sweep: one UPDATE over every pending row created before the      *)
(* cutoff.                                                                     *)
Pending == {p \in Proposals : prop[p].state = "pending"}

Age(p) ==
    /\ p \in Pending \ old
    /\ old' = old \cup {p}
    /\ UNCHANGED <<enabled, expiring, server, created, policy, prop, events, handler, applied, drifted, ungated, edits>>

DueIfRecent == Pending \ old
Due == Pending \cap old

(* With approvals_ttl_days at 0 or below the sweep returns at once.  Else one   *)
(* UPDATE expires all that are due.  The event it is followed by counts them   *)
(* and names none, so it is not one of events.                                 *)
ExpireDue ==
    /\ expiring /\ Due # {}
    /\ prop' = [p \in Proposals |->
            IF p \in Due THEN [prop[p] EXCEPT !.state = "expired", !.resolver = Sweep]
            ELSE prop[p]]
    /\ UNCHANGED <<enabled, expiring, server, created, policy, old, events, handler, applied, drifted, ungated, edits>>

------------------------------------------------------------------------------
(* What goes on around the gate: the toggle and server CRUD are direct, and    *)
(* POST /config/reconcile writes without asking for an approval.               *)
ToggleSetting ==
    /\ Edit
    /\ enabled' = ~enabled
    /\ ungated' = (ungated \/ enabled)
    /\ UNCHANGED <<expiring, server, created, policy, prop, old, events, handler, applied, drifted>>

(* The TTL: PUT /settings refuses 0 and below, a config import and the         *)
(* settings table take any number.  Under a longer TTL, old proposals are      *)
(* young again.                                                                *)
SetTtl ==
    /\ Edit
    /\ expiring' \in BOOLEAN
    /\ old' \in SUBSET old
    /\ UNCHANGED <<enabled, server, created, policy, prop, events, handler, applied, drifted, ungated>>

Reconcile(q) ==
    /\ Edit /\ server # 0
    /\ policy' = q
    /\ ungated' = TRUE
    /\ UNCHANGED <<enabled, expiring, server, created, prop, old, events, handler, applied, drifted>>

DeleteServer ==
    /\ Edit /\ server # 0
    /\ server' = 0 /\ policy' = Default
    /\ UNCHANGED <<enabled, expiring, created, prop, old, events, handler, applied, drifted, ungated>>

CreateServer ==
    /\ server = 0
    /\ server' = created + 1 /\ created' = created + 1
    /\ UNCHANGED <<enabled, expiring, policy, prop, old, events, handler, applied, drifted, ungated, edits>>

------------------------------------------------------------------------------
HandlerStep(h) ==
    \/ \E who \in People, req \in Policies : PutGetServer(h, who, req)
    \/ PutGate(h) \/ DirectWrite(h)
    \/ ProposeGetServer(h) \/ ProposeReadBaseline(h) \/ ProposeEvent(h)
    \/ \E p \in Proposals : ProposeCreate(h, p)
    \/ \E who \in People, p \in Proposals : ApproveGet(h, who, p) \/ RejectGet(h, who, p)
    \/ ApproveGetServer(h) \/ ApproveCheck(h) \/ ApproveApply(h)
    \/ ApproveResolve(h) \/ ApproveEvent(h)
    \/ RejectResolve(h) \/ RejectEvent(h)
    \/ Crash(h)

Next ==
    \/ \E h \in Handlers : HandlerStep(h)
    \/ \E p \in Proposals : Age(p)
    \/ ExpireDue
    \/ ToggleSetting \/ SetTtl \/ DeleteServer \/ CreateServer
    \/ \E q \in Policies : Reconcile(q)

(* The job's loop sweeps again and again, whatever an iteration raises, and    *)
(* time passes.  Neither helps while the TTL setting keeps proposals for ever. *)
Fairness == WF_vars(ExpireDue) /\ \A p \in Proposals : WF_vars(Age(p))

Spec == Init /\ [][Next]_vars /\ Fairness

------------------------------------------------------------------------------
States == {"none", "pending", "approved", "rejected", "expired"}
PCs == {"idle", "put_gate", "direct_write", "propose_server", "propose_read", "propose_create",
        "propose_event", "approve_server", "approve_check", "approve_apply", "approve_resolve",
        "approve_event", "reject_resolve", "reject_event"}

Rows == [state : States, req : Policies, base : Policies,
         proposer : People \cup {NoOne}, resolver : People \cup {NoOne, Sweep}]
HandlerStates ==
    [pc : PCs, who : People \cup {NoOne}, prop : Proposals \cup {NoOne}, req : Policies,
     server : Nat, cur : Policies]

(* The shape of the tables and of the coroutines.                              *)
TypeOK ==
    /\ enabled \in BOOLEAN /\ expiring \in BOOLEAN
    /\ created \in Nat \ {0}
    /\ server \in 0..created
    /\ policy \in Policies
    /\ prop \in [Proposals -> Rows]
    /\ old \subseteq Proposals
    /\ events \subseteq [prop : Proposals, action : {"create", "approve", "reject"}]
    /\ handler \in [Handlers -> HandlerStates]
    /\ applied \subseteq [prop : Proposals, who : People]
    /\ drifted \subseteq Proposals
    /\ ungated \in BOOLEAN
    /\ edits \in 0..MaxEdits

(* Four eyes: whoever writes a proposed policy, and whoever a proposal was     *)
(* approved by, is a person other than its proposer, although the identity     *)
(* check and the write are several awaits apart (approve, _identity).          *)
FourEyes ==
    /\ \A a \in applied : a.who # prop[a.prop].proposer
    /\ \A p \in Proposals : prop[p].state = "approved" =>
            prop[p].resolver \in People \ {prop[p].proposer}

(* A proposal that reads approved has been applied, by the person who approved *)
(* it, wherever a crash or another resolver cut in: the reason approve applies *)
(* before it resolves.                                                         *)
ApprovedWasApplied ==
    \A p \in Proposals : prop[p].state = "approved" =>
        \E a \in applied : a.prop = p /\ a.who = prop[p].resolver

(* With the gate on from the start and no reconcile, the policy in force is    *)
(* the one a new server gets or one that a second person applied: no request   *)
(* in flight, crash or re-created server lets an unreviewed policy in.         *)
GatedPolicyReviewed ==
    ~ungated => \/ policy = Default
                \/ \E a \in applied : policy = prop[a.prop].req /\ a.who # prop[a.prop].proposer

(* An admin event never tells of a resolution that did not happen, and stays   *)
(* true: the loser of the compare-and-swap records nothing.                    *)
EventsAreTrue ==
    \A e \in events :
        /\ prop[e.prop].state # "none"
        /\ e.action = "approve" => prop[e.prop].state = "approved"
        /\ e.action = "reject" => prop[e.prop].state = "rejected"

(* A resolved proposal keeps its resolution and its resolver, and a proposal's *)
(* request, baseline and proposer never change (resolve's WHERE clause).       *)
ResolvedIsFinal ==
    [][\A p \in Proposals :
        /\ prop[p].state \notin {"none", "pending"} => prop'[p] = prop[p]
        /\ prop[p].state # "none" =>
            /\ prop'[p].state # "none"
            /\ <<prop'[p].req, prop'[p].base, prop'[p].proposer>>
                  = <<prop[p].req, prop[p].base, prop[p].proposer>>]_vars

(* Once approvals_ttl_days is above 0 for good, no proposal stays pending for  *)
(* ever, whoever crashes while resolving it: the sweep gets it in the end,     *)
(* also one that was created, or came of age, while the setting was 0          *)
(* (expire_due reads the setting on every sweep).                              *)
PendingIsResolved ==
    \A p \in Proposals :
        <>[]expiring => (prop[p].state = "pending" ~> prop[p].state \notin {"none", "pending"})

(* What each await of a handler may rely on: the facts the properties above    *)
(* rest on, which hold from the check that established them to the end.        *)
HandlerOK(h) ==
    LET p == handler[h].prop IN
    /\ handler[h].pc \in {"put_gate", "propose_server", "propose_read", "propose_create"} =>
           handler[h].who \in People
    /\ handler[h].pc \in {"approve_server", "approve_check", "approve_apply", "approve_resolve"} =>
           /\ p \in Proposals /\ handler[h].who \in People
           /\ prop[p].state # "none" /\ handler[h].who # prop[p].proposer
    /\ handler[h].pc = "approve_resolve" => [prop |-> p, who |-> handler[h].who] \in applied
    /\ handler[h].pc = "reject_resolve" =>
           p \in Proposals /\ handler[h].who \in People /\ prop[p].state # "none"
    /\ handler[h].pc = "propose_event" => p \in Proposals /\ prop[p].state # "none"
    /\ handler[h].pc = "approve_event" => p \in Proposals /\ prop[p].state = "approved"
    /\ handler[h].pc = "reject_event" => p \in Proposals /\ prop[p].state = "rejected"
    /\ handler[h].pc = "direct_write" => ungated

AppliedOK == \A a \in applied : prop[a.prop].state # "none"
GateOK == ungated \/ enabled

Inv ==
    /\ TypeOK
    /\ \A h \in Handlers : HandlerOK(h)
    /\ AppliedOK /\ GateOK
    /\ FourEyes /\ ApprovedWasApplied /\ GatedPolicyReviewed /\ EventsAreTrue

------------------------------------------------------------------------------
(* "On approval, the change applies only if the target hasn't drifted since    *)
(* the proposal was created" (docs/approvals.md): what a proposal overwrites   *)
(* is its baseline (or itself, when two people approve it at once), at least   *)
(* when every writer goes through the gate.  The code compares in one step and *)
(* writes in a later one.                                                      *)
AppliedOnBaseline == ~ungated => drifted = {}
=============================================================================
