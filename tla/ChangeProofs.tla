---------------------------- MODULE ChangeProofs ----------------------------
(* The two changes of stored rows that take several statements while others    *)
(* read and write: a reviewed policy, and a rotated signing key.               *)
(*                                                                            *)
(* Approvals, for any number of requests, people, proposals and policies: its  *)
(* safety properties.                                                          *)
(*                                                                            *)
(* SigningKeys, for any number of rotations and readers, any token lifetime    *)
(* and any bound: the issuer is what the fingerprint says, a cached token is   *)
(* signed by the current key, a gap in the published keys has one of its       *)
(* causes, and every step of the manager is a step of RowCopy.                 *)
EXTENDS Approvals, SigningKeys, TLAPS

(* A leaf that names no prover is tried with SMT, with Zenon, and with SMT     *)
(* once more and for longer.                                                   *)
USE SMT, Zenon, SMTT(30)

(* The initial states satisfy the inductive invariant.                         *)
LEMMA InitInv == Init => Inv
  <1> SUFFICES ASSUME Init PROVE Inv
      OBVIOUS
  <1>1. TypeOK
      BY ConstantsAssumption
      DEF Init, TypeOK, NoRow, IdleHandler, Rows, States, HandlerStates, PCs
  <1>2. \A h \in Handlers : HandlerOK(h)
      BY ZenonT(30) DEF Init, HandlerOK, IdleHandler
  <1>3. AppliedOK /\ GateOK /\ FourEyes /\ ApprovedWasApplied /\ GatedPolicyReviewed /\ EventsAreTrue
      BY Zenon DEF Init, AppliedOK, GateOK, FourEyes, ApprovedWasApplied, GatedPolicyReviewed,
             EventsAreTrue, NoRow
  <1> QED  BY <1>1, <1>2, <1>3 DEF Inv

(* Every step of the system keeps the shape of the state.                      *)
LEMMA TypeStep == TypeOK /\ (\A h \in Handlers : HandlerOK(h)) /\ [Next]_vars => TypeOK'
  <1> SUFFICES ASSUME TypeOK, \A h \in Handlers : HandlerOK(h), [Next]_vars PROVE TypeOK'
      OBVIOUS
  <1> USE ConstantsAssumption DEF TypeOK, At, Idle, Edit
  <1>1. ASSUME NEW h \in Handlers, NEW who \in People, NEW want \in Policies,
               PutGetServer(h, who, want)
        PROVE  TypeOK'
      BY <1>1 DEF PutGetServer, Begin, HandlerStates, PCs
  <1>2. ASSUME NEW h \in Handlers, PutGate(h) PROVE TypeOK'
      BY <1>2 DEF PutGate, Goto, HandlerStates, PCs
  <1>3. ASSUME NEW h \in Handlers, DirectWrite(h) PROVE TypeOK'
      BY <1>3 DEF DirectWrite, Return, IdleHandler, HandlerStates, PCs
  <1>4. ASSUME NEW h \in Handlers, ProposeGetServer(h) PROVE TypeOK'
      BY <1>4 DEF ProposeGetServer, Return, IdleHandler, HandlerStates, PCs
  <1>5. ASSUME NEW h \in Handlers, ProposeReadBaseline(h) PROVE TypeOK'
    <2>1. PolicyOf(handler[h].server) \in Policies
        BY DEF PolicyOf
    <2>2. PICK c \in Policies : handler' = [handler EXCEPT ![h].pc = "propose_create", ![h].cur = c]
        BY <1>5, <2>1, Zenon DEF ProposeReadBaseline
    <2>3. [handler[h] EXCEPT !.pc = "propose_create", !.cur = c] \in HandlerStates
      <3>1. ASSUME NEW x \in HandlerStates
            PROVE  [x EXCEPT !.pc = "propose_create", !.cur = c] \in HandlerStates
          BY Zenon DEF HandlerStates, PCs
      <3> QED  BY <3>1, Zenon
    <2>4. handler' \in [Handlers -> HandlerStates]
        BY <2>2, <2>3
    <2> QED  BY <1>5, <2>4 DEF ProposeReadBaseline
  <1>6. ASSUME NEW h \in Handlers, NEW p \in Proposals, ProposeCreate(h, p) PROVE TypeOK'
      BY <1>6 DEF ProposeCreate, GotoEvent, Begin, HandlerOK, HandlerStates, PCs, Rows, States
  <1>7. ASSUME NEW h \in Handlers, ProposeEvent(h) PROVE TypeOK'
    <2>1. handler[h].prop \in Proposals
        BY <1>7, Zenon DEF ProposeEvent, HandlerOK
    <2>2. events' \subseteq [prop : Proposals, action : {"create", "approve", "reject"}]
        BY <1>7, <2>1 DEF ProposeEvent, RecordEvent
    <2> QED  BY <1>7, <2>2 DEF ProposeEvent, Return, IdleHandler, HandlerStates, PCs
  <1>8. ASSUME NEW h \in Handlers, NEW who \in People, NEW p \in Proposals,
               ApproveGet(h, who, p) \/ RejectGet(h, who, p)
        PROVE  TypeOK'
      BY <1>8 DEF ApproveGet, RejectGet, Begin, HandlerStates, PCs
  <1>9. ASSUME NEW h \in Handlers, ApproveGetServer(h) PROVE TypeOK'
      BY <1>9 DEF ApproveGetServer, Return, IdleHandler, HandlerStates, PCs
  <1>10. ASSUME NEW h \in Handlers, ApproveCheck(h) PROVE TypeOK'
      BY <1>10 DEF ApproveCheck, AfterCheck, Goto, Return, IdleHandler, HandlerStates, PCs
  <1>11. ASSUME NEW h \in Handlers, ApproveApply(h) PROVE TypeOK'
    <2>1. handler[h].prop \in Proposals /\ handler[h].who \in People
        BY <1>11, Zenon DEF ApproveApply, HandlerOK
    <2>2. policy' \in Policies /\ drifted' \subseteq Proposals
        BY <1>11, <2>1 DEF ApproveApply, Rows
    <2>3. applied' \subseteq [prop : Proposals, who : People]
        BY <1>11, <2>1 DEF ApproveApply
    <2>4. handler' \in [Handlers -> HandlerStates]
        BY <1>11 DEF ApproveApply, Return, IdleHandler, HandlerStates, PCs
    <2> QED  BY <1>11, <2>2, <2>3, <2>4 DEF ApproveApply
  <1>12. ASSUME NEW h \in Handlers, ApproveResolve(h) \/ RejectResolve(h) PROVE TypeOK'
    <2>1. handler[h].prop \in Proposals /\ handler[h].who \in People
        BY <1>12, Zenon DEF ApproveResolve, RejectResolve, HandlerOK
    <2>2. PICK state \in {"approved", "rejected"}, event \in {"approve_event", "reject_event"} :
              Resolve(h, handler[h].prop, state, event)
        BY <1>12 DEF ApproveResolve, RejectResolve
    <2>3. prop' \in [Proposals -> Rows]
        BY <2>1, <2>2 DEF Resolve, Rows, States
    <2>4. handler' \in [Handlers -> HandlerStates]
        BY <2>1, <2>2 DEF Resolve, GotoEvent, Begin, Return, IdleHandler, HandlerStates, PCs
    <2> QED  BY <1>12, <2>3, <2>4 DEF ApproveResolve, RejectResolve
  <1>13. ASSUME NEW h \in Handlers, ApproveEvent(h) \/ RejectEvent(h) PROVE TypeOK'
    <2>1. handler[h].prop \in Proposals
        BY <1>13, Zenon DEF ApproveEvent, RejectEvent, HandlerOK
    <2>2. events' \subseteq [prop : Proposals, action : {"create", "approve", "reject"}]
        BY <1>13, <2>1 DEF ApproveEvent, RejectEvent, RecordEvent
    <2> QED
        BY <1>13, <2>2 DEF ApproveEvent, RejectEvent, Return, IdleHandler, HandlerStates, PCs
  <1>14. ASSUME NEW h \in Handlers, Crash(h) PROVE TypeOK'
      BY <1>14 DEF Crash, Return, IdleHandler, HandlerStates, PCs
  <1>15. ASSUME NEW p \in Proposals, Age(p) PROVE TypeOK'
      BY <1>15 DEF Age
  <1>16. CASE ExpireDue
    <2>1. \A p \in Proposals :
              [prop[p] EXCEPT !.state = "expired", !.resolver = Sweep] \in Rows
      <3> SUFFICES ASSUME NEW r \in Rows
                   PROVE  [r EXCEPT !.state = "expired", !.resolver = Sweep] \in Rows
          BY Zenon
      <3> QED  BY Zenon DEF Rows, States
    <2>2. prop' \in [Proposals -> Rows]
        BY <1>16, <2>1, Zenon DEF ExpireDue
    <2> QED  BY <1>16, <2>2, Zenon DEF ExpireDue
  <1>17. CASE ToggleSetting \/ DeleteServer \/ CreateServer
    <2>1. enabled' \in BOOLEAN /\ ungated' \in BOOLEAN
        BY <1>17, Zenon DEF ToggleSetting, DeleteServer, CreateServer
    <2> QED  BY <1>17, <2>1 DEF ToggleSetting, DeleteServer, CreateServer
  <1>18. ASSUME NEW q \in Policies, Reconcile(q) PROVE TypeOK'
    <2>1. ungated' \in BOOLEAN
        BY <1>18, Zenon DEF Reconcile
    <2> QED  BY <1>18, <2>1 DEF Reconcile
  <1>19. CASE SetTtl
    <2>1. expiring' \in BOOLEAN /\ old' \subseteq Proposals
        BY <1>19, Zenon DEF SetTtl
    <2> QED  BY <1>19, <2>1 DEF SetTtl
  <1>20. CASE UNCHANGED vars
      BY <1>20 DEF vars
  <1> QED
      BY Zenon, <1>1, <1>2, <1>3, <1>4, <1>5, <1>6, <1>7, <1>8, <1>9, <1>10, <1>11, <1>12, <1>13, <1>14,
         <1>15, <1>16, <1>17, <1>18, <1>19, <1>20
      DEF Next, HandlerStep

(* How a row of the proposals table may change: the step ResolvedIsFinal       *)
(* allows it.                                                                  *)
Evolves(p) ==
    /\ prop[p].state \notin {"none", "pending"} => prop'[p] = prop[p]
    /\ prop[p].state # "none" =>
        /\ prop'[p].state # "none"
        /\ <<prop'[p].req, prop'[p].base, prop'[p].proposer>>
              = <<prop[p].req, prop[p].base, prop[p].proposer>>

(* Only create, resolve and the sweep write the table, and each of them looks  *)
(* at the state of the row it writes.                                          *)
LEMMA RowsEvolve == TypeOK /\ [Next]_vars => \A p \in Proposals : Evolves(p)
  <1> SUFFICES ASSUME TypeOK, [Next]_vars, NEW p \in Proposals PROVE Evolves(p)
      OBVIOUS
  <1> USE DEF Evolves
  <1>0. prop \in [Proposals -> Rows]
      BY DEF TypeOK
  <1>1. CASE UNCHANGED prop
      BY <1>1
  <1>2. ASSUME NEW h \in Handlers, NEW q \in Proposals, ProposeCreate(h, q) PROVE Evolves(p)
      BY <1>0, <1>2 DEF ProposeCreate
  <1>3. ASSUME NEW h \in Handlers, ApproveResolve(h) \/ RejectResolve(h) PROVE Evolves(p)
    <2>1. PICK state \in {"approved", "rejected"}, event \in {"approve_event", "reject_event"} :
              Resolve(h, handler[h].prop, state, event)
        BY <1>3 DEF ApproveResolve, RejectResolve
    <2> QED  BY <1>0, <2>1 DEF Resolve, Resolvable, Rows
  <1>4. CASE ExpireDue
      BY <1>0, <1>4, Zenon DEF ExpireDue, Due, Pending, Rows
  <1> QED
      BY <1>1, <1>2, <1>3, <1>4, ZenonT(30)
      DEF Next, HandlerStep, vars, PutGetServer, PutGate, DirectWrite, ProposeGetServer,
          ProposeReadBaseline, ProposeEvent, ApproveGet, RejectGet, ApproveGetServer, ApproveCheck,
          ApproveApply, ApproveEvent, RejectEvent, Crash, Age, SetTtl, ToggleSetting, DeleteServer,
          CreateServer, Reconcile

(* The ghosts only grow.                                                       *)
LEMMA GhostsGrow == TypeOK /\ [Next]_vars => applied \subseteq applied' /\ (ungated => ungated')
  <1> SUFFICES ASSUME TypeOK, [Next]_vars
               PROVE  applied \subseteq applied' /\ (ungated => ungated')
      OBVIOUS
  <1>1. CASE UNCHANGED <<applied, ungated>>
      BY <1>1
  <1>2. ASSUME NEW h \in Handlers, ApproveApply(h)
        PROVE  applied \subseteq applied' /\ (ungated => ungated')
      BY <1>2 DEF ApproveApply
  <1>3. CASE ToggleSetting
      BY <1>3, Zenon DEF ToggleSetting
  <1>4. ASSUME NEW q \in Policies, Reconcile(q)
        PROVE  applied \subseteq applied' /\ (ungated => ungated')
      BY <1>4 DEF Reconcile
  <1> QED
      BY <1>1, <1>2, <1>3, <1>4, ZenonT(30)
      DEF Next, HandlerStep, vars, PutGetServer, PutGate, DirectWrite, ProposeGetServer,
          ProposeReadBaseline, ProposeCreate, ProposeEvent, ApproveGet, RejectGet,
          ApproveGetServer, ApproveCheck, ApproveResolve, RejectResolve, Resolve, ApproveEvent,
          RejectEvent, Crash, Age, ExpireDue, SetTtl, DeleteServer, CreateServer

(* What a handler relies on survives the steps of everybody else.              *)
LEMMA HandlerFrame ==
    ASSUME TypeOK, [Next]_vars, NEW g \in Handlers, HandlerOK(g), handler'[g] = handler[g]
    PROVE  HandlerOK(g)'
  <1>1. \A p \in Proposals : Evolves(p)
      BY RowsEvolve
  <1>2. applied \subseteq applied' /\ (ungated => ungated')
      BY GhostsGrow
  <1> QED  BY <1>1, <1>2 DEF HandlerOK, Evolves

(* Every step leaves every handler with the facts its next await relies on.    *)
LEMMA HandlersStep == Inv /\ [Next]_vars => \A g \in Handlers : HandlerOK(g)'
  <1> SUFFICES ASSUME Inv, [Next]_vars, NEW g \in Handlers PROVE HandlerOK(g)'
      OBVIOUS
  <1>t. TypeOK /\ HandlerOK(g) /\ GateOK
      BY DEF Inv
  <1>h. handler \in [Handlers -> HandlerStates] /\ prop \in [Proposals -> Rows]
      BY <1>t DEF TypeOK
  <1>1. CASE handler'[g] = handler[g]
      BY Zenon, <1>t, <1>1, HandlerFrame
  <1>2. CASE handler'[g] = IdleHandler
      BY <1>2 DEF HandlerOK, IdleHandler
  <1> USE DEF HandlerStates, At, Idle
  <1>3. ASSUME NEW who \in People, NEW want \in Policies, PutGetServer(g, who, want)
        PROVE  HandlerOK(g)'
      BY <1>3, <1>h DEF PutGetServer, Begin, HandlerOK
  <1>4. CASE PutGate(g)
      BY Zenon, <1>4, <1>h, <1>t DEF PutGate, Gated, GateOK, Goto, HandlerOK
  <1>5. CASE ProposeGetServer(g) \/ ProposeReadBaseline(g)
      BY <1>2, <1>5, <1>h, <1>t DEF ProposeGetServer, ProposeReadBaseline, Return, HandlerOK
  <1>6. ASSUME NEW p \in Proposals, ProposeCreate(g, p) PROVE HandlerOK(g)'
      BY Zenon, <1>6, <1>h DEF ProposeCreate, GotoEvent, Begin, HandlerOK
  <1>7. ASSUME NEW who \in People, NEW p \in Proposals, ApproveGet(g, who, p) \/ RejectGet(g, who, p)
        PROVE  HandlerOK(g)'
      BY <1>7, <1>h DEF ApproveGet, RejectGet, MayApprove, Begin, HandlerOK
  <1>8. CASE ApproveGetServer(g) \/ ApproveCheck(g)
      BY <1>2, <1>8, <1>h, <1>t
      DEF ApproveGetServer, ApproveCheck, AfterCheck, Goto, Return, HandlerOK
  <1>9. CASE ApproveApply(g)
      BY <1>2, <1>9, <1>h, <1>t DEF ApproveApply, Return, HandlerOK
  <1>10. CASE ApproveResolve(g)
      BY <1>2, <1>10, <1>h, <1>t DEF ApproveResolve, Resolve, GotoEvent, Begin, Return, HandlerOK, Rows
  <1>11. CASE RejectResolve(g)
      BY <1>2, <1>11, <1>h, <1>t DEF RejectResolve, Resolve, GotoEvent, Begin, Return, HandlerOK, Rows
  <1>12. CASE \E h \in Handlers : HandlerStep(h)
    <2>1. PICK h \in Handlers : HandlerStep(h)
        BY <1>12
    <2>2. CASE h # g
      <3>1. \E r : handler' = [handler EXCEPT ![h] = r]
          BY <2>1, <1>h, Zenon
          DEF HandlerStep, PutGetServer, PutGate, DirectWrite, ProposeGetServer,
              ProposeReadBaseline, ProposeCreate, ProposeEvent, ApproveGet, RejectGet,
              ApproveGetServer, ApproveCheck, ApproveApply, ApproveResolve, RejectResolve, Resolve,
              ApproveEvent, RejectEvent, Crash, Begin, Goto, GotoEvent, Return
      <3> QED  BY <1>1, <1>h, <2>2, <3>1
    <2>3. CASE h = g
      <3>1. CASE DirectWrite(g) \/ ProposeEvent(g) \/ ApproveEvent(g) \/ RejectEvent(g) \/ Crash(g)
          BY <1>2, <1>h, <3>1 DEF DirectWrite, ProposeEvent, ApproveEvent, RejectEvent, Crash, Return
      <3> QED
          BY Zenon, <2>1, <2>3, <3>1, <1>3, <1>4, <1>5, <1>6, <1>7, <1>8, <1>9, <1>10, <1>11
          DEF HandlerStep
    <2> QED  BY <2>2, <2>3
  <1>13. CASE UNCHANGED handler
      BY <1>1, <1>13
  <1> QED
      BY <1>12, <1>13, Zenon
      DEF Next, vars, Age, ExpireDue, ToggleSetting, SetTtl, DeleteServer, CreateServer, Reconcile

(* Who may have been applied or approved: nobody's own proposal.               *)
LEMMA ReviewStep ==
    Inv /\ [Next]_vars => AppliedOK' /\ FourEyes' /\ ApprovedWasApplied'
  <1> SUFFICES ASSUME Inv, [Next]_vars PROVE AppliedOK' /\ FourEyes' /\ ApprovedWasApplied'
      OBVIOUS
  <1>t. TypeOK /\ (\A h \in Handlers : HandlerOK(h)) /\ AppliedOK /\ FourEyes /\ ApprovedWasApplied
      BY DEF Inv
  <1>h. prop \in [Proposals -> Rows] /\ applied \subseteq [prop : Proposals, who : People]
      BY <1>t DEF TypeOK
  <1>e. (\A p \in Proposals : Evolves(p)) /\ applied \subseteq applied'
      BY <1>t, RowsEvolve, GhostsGrow
  <1>1. ASSUME UNCHANGED applied,
               \A p \in Proposals : prop'[p].state = "approved" => prop[p].state = "approved"
        PROVE  AppliedOK' /\ FourEyes' /\ ApprovedWasApplied'
    <2>1. \A a \in applied' : prop'[a.prop].state # "none" /\ a.who # prop'[a.prop].proposer
        BY <1>1, <1>t, <1>h, <1>e DEF AppliedOK, FourEyes, Evolves
    <2>2. \A p \in Proposals : prop'[p].state = "approved" => prop'[p] = prop[p]
        BY <1>1, <1>e DEF Evolves
    <2> QED  BY <1>1, <1>t, <2>1, <2>2 DEF AppliedOK, FourEyes, ApprovedWasApplied
  <1>2. ASSUME NEW h \in Handlers, NEW p \in Proposals, ProposeCreate(h, p)
        PROVE  AppliedOK' /\ FourEyes' /\ ApprovedWasApplied'
      BY Zenon, <1>1, <1>2, <1>h DEF ProposeCreate
  <1>3. ASSUME NEW h \in Handlers, ApproveApply(h)
        PROVE  AppliedOK' /\ FourEyes' /\ ApprovedWasApplied'
    <2> DEFINE new == [prop |-> handler[h].prop, who |-> handler[h].who]
    <2>1. handler[h].prop \in Proposals /\ prop[handler[h].prop].state # "none"
          /\ handler[h].who # prop[handler[h].prop].proposer
        BY <1>3, <1>t, Zenon DEF ApproveApply, At, HandlerOK
    <2>2. prop' = prop /\ applied' \subseteq applied \cup {new}
        BY <1>3 DEF ApproveApply
    <2>3. \A a \in applied' : prop[a.prop].state # "none" /\ a.who # prop[a.prop].proposer
        BY <1>t, <2>1, <2>2 DEF AppliedOK, FourEyes
    <2> QED  BY <1>t, <1>e, <2>2, <2>3 DEF AppliedOK, FourEyes, ApprovedWasApplied
  <1>4. ASSUME NEW h \in Handlers, ApproveResolve(h)
        PROVE  AppliedOK' /\ FourEyes' /\ ApprovedWasApplied'
    <2>1. handler[h].prop \in Proposals /\ handler[h].who \in People
          /\ handler[h].who # prop[handler[h].prop].proposer
          /\ [prop |-> handler[h].prop, who |-> handler[h].who] \in applied
        BY Zenon, <1>4, <1>t DEF ApproveResolve, At, HandlerOK
    <2>2. CASE UNCHANGED prop
        BY <1>1, <1>4, <2>2 DEF ApproveResolve
    <2>3. CASE prop' = [prop EXCEPT ![handler[h].prop].state = "approved",
                                    ![handler[h].prop].resolver = handler[h].who]
      <3>1. applied' = applied
          BY <1>4 DEF ApproveResolve
      <3>2. \A p \in Proposals : p # handler[h].prop => prop'[p] = prop[p]
          BY <2>3, <1>h
      <3>3. prop'[handler[h].prop].resolver = handler[h].who
            /\ prop'[handler[h].prop].state = "approved"
            /\ prop'[handler[h].prop].proposer = prop[handler[h].prop].proposer
          BY <2>1, <2>3, <1>h DEF Rows
      <3>4. AppliedOK'
          BY Zenon, <1>t, <1>h, <3>1, <3>2, <3>3 DEF AppliedOK
      <3>5. FourEyes'
          BY ZenonT(30), <1>t, <1>h, <2>1, <3>1, <3>2, <3>3 DEF FourEyes
      <3>6. ApprovedWasApplied'
          BY <1>t, <2>1, <3>1, <3>2, <3>3 DEF ApprovedWasApplied
      <3> QED  BY <3>4, <3>5, <3>6
    <2> QED  BY Zenon, <1>4, <2>2, <2>3 DEF ApproveResolve, Resolve
  <1>5. ASSUME NEW h \in Handlers, RejectResolve(h)
        PROVE  AppliedOK' /\ FourEyes' /\ ApprovedWasApplied'
    <2>1. \A p \in Proposals : prop'[p].state = "approved" => prop[p].state = "approved"
        BY <1>5, <1>h DEF RejectResolve, Resolve, Rows
    <2> QED  BY <1>1, <1>5, <2>1 DEF RejectResolve
  <1>6. CASE ExpireDue
    <2>1. \A p \in Proposals : prop'[p].state = "approved" => prop[p].state = "approved"
        BY <1>6, <1>h, Zenon DEF ExpireDue, Rows
    <2> QED  BY <1>1, <1>6, <2>1, Zenon DEF ExpireDue
  <1>7. CASE UNCHANGED <<prop, applied>>
      BY <1>1, <1>7
  <1> QED
      BY <1>2, <1>3, <1>4, <1>5, <1>6, <1>7, ZenonT(30)
      DEF Next, HandlerStep, vars, PutGetServer, PutGate, DirectWrite, ProposeGetServer,
          ProposeReadBaseline, ProposeEvent, ApproveGet, RejectGet, ApproveGetServer, ApproveCheck,
          ApproveEvent, RejectEvent, Crash, Age, SetTtl, ToggleSetting, DeleteServer, CreateServer, Reconcile

(* A policy gets in by a reviewed write, by the reset of a re-created server,  *)
(* or because somebody could write without review.                             *)
LEMMA GateStep == Inv /\ [Next]_vars => GateOK' /\ GatedPolicyReviewed'
  <1> SUFFICES ASSUME Inv, [Next]_vars PROVE GateOK' /\ GatedPolicyReviewed'
      OBVIOUS
  <1>t. TypeOK /\ (\A h \in Handlers : HandlerOK(h)) /\ AppliedOK /\ GateOK /\ GatedPolicyReviewed
      BY DEF Inv
  <1>h. applied \subseteq [prop : Proposals, who : People]
      BY <1>t DEF TypeOK
  <1>e. (\A p \in Proposals : Evolves(p)) /\ applied \subseteq applied' /\ (ungated => ungated')
      BY <1>t, RowsEvolve, GhostsGrow
  <1>1. ASSUME policy' = policy PROVE GatedPolicyReviewed'
    <2>1. \A a \in applied : /\ a \in applied'
                             /\ prop'[a.prop].req = prop[a.prop].req
                             /\ prop'[a.prop].proposer = prop[a.prop].proposer
        BY <1>t, <1>h, <1>e DEF AppliedOK, Evolves
    <2> QED  BY <1>1, <1>t, <1>e, <2>1 DEF GatedPolicyReviewed
  <1>2. ASSUME NEW h \in Handlers, DirectWrite(h) PROVE GateOK' /\ GatedPolicyReviewed'
      BY <1>2, <1>t, Zenon DEF DirectWrite, At, HandlerOK, GateOK, GatedPolicyReviewed
  <1>3. ASSUME NEW h \in Handlers, ApproveApply(h) PROVE GateOK' /\ GatedPolicyReviewed'
    <2>1. GateOK'
        BY <1>3, <1>t DEF ApproveApply, GateOK
    <2>2. CASE policy' = policy
        BY Zenon, <1>1, <2>1, <2>2
    <2>3. CASE policy' # policy
      <3> DEFINE new == [prop |-> handler[h].prop, who |-> handler[h].who]
      <3>1. new \in applied' /\ prop' = prop /\ policy' = prop[new.prop].req
          BY <1>3, <2>3 DEF ApproveApply
      <3>2. new.who # prop[new.prop].proposer
          BY <1>3, <1>t, Zenon DEF ApproveApply, At, HandlerOK
      <3> QED  BY <2>1, <3>1, <3>2 DEF GatedPolicyReviewed
    <2> QED  BY <2>2, <2>3
  <1>4. CASE ToggleSetting
    <2>1. GateOK'
        BY <1>4, <1>t, Zenon DEF ToggleSetting, GateOK
    <2> QED  BY <1>1, <1>4, <2>1 DEF ToggleSetting
  <1>5. ASSUME NEW q \in Policies, Reconcile(q) PROVE GateOK' /\ GatedPolicyReviewed'
      BY <1>5 DEF Reconcile, GateOK, GatedPolicyReviewed
  <1>6. CASE DeleteServer
      BY <1>6, <1>t DEF DeleteServer, GateOK, GatedPolicyReviewed
  <1>7. CASE UNCHANGED <<policy, enabled, ungated>>
      BY <1>1, <1>7, <1>t DEF GateOK
  <1> QED
      BY <1>2, <1>3, <1>4, <1>5, <1>6, <1>7, ZenonT(30)
      DEF Next, HandlerStep, vars, PutGetServer, PutGate, ProposeGetServer, ProposeReadBaseline,
          ProposeCreate, ProposeEvent, ApproveGet, RejectGet, ApproveGetServer, ApproveCheck,
          ApproveResolve, RejectResolve, ApproveEvent, RejectEvent, Crash, Age, ExpireDue, SetTtl,
          CreateServer

(* An event is recorded by the handler that won, and what it tells is final.   *)
LEMMA EventStep == Inv /\ [Next]_vars => EventsAreTrue'
  <1> SUFFICES ASSUME Inv, [Next]_vars PROVE EventsAreTrue'
      OBVIOUS
  <1>t. TypeOK /\ (\A h \in Handlers : HandlerOK(h)) /\ EventsAreTrue
      BY DEF Inv
  <1>h. events \subseteq [prop : Proposals, action : {"create", "approve", "reject"}]
      BY <1>t DEF TypeOK
  <1>e. \A p \in Proposals : Evolves(p)
      BY <1>t, RowsEvolve
  <1>1. \A e \in events : /\ prop'[e.prop].state # "none"
                          /\ e.action = "approve" => prop'[e.prop].state = "approved"
                          /\ e.action = "reject" => prop'[e.prop].state = "rejected"
      BY <1>t, <1>h, <1>e DEF EventsAreTrue, Evolves
  <1>2. CASE UNCHANGED events
      BY <1>1, <1>2 DEF EventsAreTrue
  <1>3. ASSUME NEW h \in Handlers, ProposeEvent(h) \/ ApproveEvent(h) \/ RejectEvent(h)
        PROVE  EventsAreTrue'
    <2>1. prop' = prop
        BY <1>3 DEF ProposeEvent, ApproveEvent, RejectEvent
    <2> DEFINE Told(action) ==
            /\ events' = events \cup {[prop |-> handler[h].prop, action |-> action]}
            /\ prop[handler[h].prop].state # "none"
            /\ action = "approve" => prop[handler[h].prop].state = "approved"
            /\ action = "reject" => prop[handler[h].prop].state = "rejected"
    <2>2. Told("create") \/ Told("approve") \/ Told("reject")
        BY <1>3, <1>t, Zenon DEF ProposeEvent, ApproveEvent, RejectEvent, RecordEvent, At, HandlerOK
    <2>3. ASSUME NEW a, Told(a) PROVE EventsAreTrue'
      <3> DEFINE new == [prop |-> handler[h].prop, action |-> a]
      <3>1. /\ prop'[new.prop].state # "none"
            /\ new.action = "approve" => prop'[new.prop].state = "approved"
            /\ new.action = "reject" => prop'[new.prop].state = "rejected"
          BY <2>1, <2>3
      <3>2. events' = events \cup {new}
          BY <2>3
      <3> HIDE DEF new, Told
      <3> QED  BY Zenon, <1>1, <3>1, <3>2 DEF EventsAreTrue
    <2> HIDE DEF Told
    <2> QED  BY <2>2, <2>3
  <1> QED
      BY <1>2, <1>3, ZenonT(30)
      DEF Next, HandlerStep, vars, PutGetServer, PutGate, DirectWrite, ProposeGetServer,
          ProposeReadBaseline, ProposeCreate, ApproveGet, RejectGet, ApproveGetServer,
          ApproveCheck, ApproveApply, ApproveResolve, RejectResolve, Crash, Age, ExpireDue,
          SetTtl, ToggleSetting, DeleteServer, CreateServer, Reconcile

(* Inv is inductive, so it holds in every reachable state.                     *)
THEOREM Invariance == Spec => []Inv
  <1>1. Inv /\ [Next]_vars => Inv'
      BY TypeStep, HandlersStep, ReviewStep, GateStep, EventStep DEF Inv
  <1> QED  BY InitInv, <1>1, PTL DEF Spec

(* The tables and the coroutines keep their shape.                             *)
THEOREM TypeCorrect == Spec => []TypeOK
  BY Invariance, PTL DEF Inv

(* Nobody's proposal is applied or approved on their own word, however the     *)
(* requests interleave (approve).                                              *)
THEOREM FourEyesHold == Spec => []FourEyes
  BY Invariance, PTL DEF Inv

(* A proposal that reads approved was applied by the one who approved it,      *)
(* wherever crashes fall (the order of apply and resolve in approve).          *)
THEOREM ApprovedMeansApplied == Spec => []ApprovedWasApplied
  BY Invariance, PTL DEF Inv

(* With the gate on from the start and no reconcile, only reviewed policies    *)
(* come into force (set_policy's gate, read once per request).                 *)
THEOREM GateIsTight == Spec => []GatedPolicyReviewed
  BY Invariance, PTL DEF Inv

(* The admin events about proposals are true and stay true (_record_event      *)
(* after resolve).                                                             *)
THEOREM EventsTrue == Spec => []EventsAreTrue
  BY Invariance, PTL DEF Inv

(* A resolution is final, and a proposal's content never changes (resolve,     *)
(* expire_due).                                                                *)
THEOREM ResolutionIsFinal == Spec => ResolvedIsFinal
  <1>1. TypeOK /\ [Next]_vars => [\A p \in Proposals : Evolves(p)]_vars
      BY RowsEvolve
  <1>2. [\A p \in Proposals : Evolves(p)]_vars =>
            [\A p \in Proposals :
                /\ prop[p].state \notin {"none", "pending"} => prop'[p] = prop[p]
                /\ prop[p].state # "none" =>
                    /\ prop'[p].state # "none"
                    /\ <<prop'[p].req, prop'[p].base, prop'[p].proposer>>
                          = <<prop[p].req, prop[p].base, prop[p].proposer>>]_vars
      BY DEF Evolves
  <1> QED  BY <1>1, <1>2, TypeCorrect, PTL DEF Spec, ResolvedIsFinal

------------------------------------------------------------------------------
(* SigningKeys.                                                                *)

(* A rotation that has begun holds a start time and the old key, one that has  *)
(* stored its key holds the new one, and there is an active row by then.       *)
CliInv ==
    \A c \in Rotators :
        /\ cli[c].pc # "idle" => cli[c].at \in Time /\ cli[c].old \in Key /\ rows.active # None
        /\ cli[c].pc \in {"active", "previous", "dropAt"} => cli[c].new \in Key

(* The three rows: the deadline is the last rotation's, a previous key without *)
(* one is a rotation's that is about to write it or died.                      *)
RowsInv ==
    /\ rotatedAt = None => rows.dropAt = None
    /\ rotatedAt # None => rows.dropAt = rotatedAt + Overlap
    /\ rows.previous # None => rows.active # None
    /\ rows.previous # None /\ rows.dropAt = None => torn \/ \E c \in Rotators : cli[c].pc = "dropAt"

(* The issuer is what the fingerprint loads to, without its previous key once  *)
(* the deadline has passed and someone has looked.                             *)
Alone(iss) == [Blank EXCEPT !.active = iss.active]

IssuerInv ==
    /\ fingerprint = None => issuer = Blank /\ cache = None
    /\ fingerprint # None =>
        \/ issuer = Loaded(fingerprint)
        \/ /\ issuer = Alone(Loaded(fingerprint))
           /\ Loaded(fingerprint).dropAt # None
           /\ Loaded(fingerprint).dropAt <= now

(* A token whose mint is on record has not expired.                            *)
MintInv == \A k \in Key : lastMint[k] # None => now < lastMint[k] + Ttl

IInv == KeysTypeOK /\ CliInv /\ RowsInv /\ IssuerInv /\ CachedTokenIsCurrent /\ MintInv

(* What a reader has read so far are values the rows have held.                *)
HadInv ==
    /\ \A f \in Row : rows[f] \in had[f]
    /\ \A r \in Readers :
        /\ reader[r].pc # "idle" => reader[r].got.active \in had["active"]
        /\ reader[r].pc \in {"dropAt", "apply"} => reader[r].got.previous \in had["previous"]
        /\ reader[r].pc = "apply" => reader[r].got.dropAt \in had["dropAt"]

------------------------------------------------------------------------------
(* The overlap is at least two token lifetimes.                                *)
LEMMA OverlapIsNat == Overlap \in Nat /\ Overlap >= 2 * Ttl /\ Ttl \in Nat \ {0}
<1>1. \A m, n \in Nat : m >= 2 => m * n \in Nat /\ m * n >= 2 * n
  OBVIOUS
<1>. QED BY <1>1, SigningKeysAssumption DEF Overlap

CliRec == [pc : {"idle", "store", "active", "previous", "dropAt"},
           at : OrNone(Time), old : OrNone(Key), new : OrNone(Key)]
ReaderRec == [pc : {"idle", "previous", "dropAt", "apply"}, got : State]

(* DropExpired, Loaded and Blank stay within the states; each keeps the active *)
(* key it is given.                                                            *)
LEMMA StateOps ==
    /\ Blank \in State
    /\ \A s \in State : /\ DropExpired(s) \in State /\ DropExpired(s).active = s.active
                        /\ Loaded(s) \in State /\ Loaded(s).active = s.active
BY DEF State, Blank, DropExpired, Loaded, OrNone

(* Writing a row keeps the rows and their history well-typed.                  *)
LEMMA SetRowType ==
    ASSUME KeysTypeOK, NEW f \in Row, NEW v, SetRow(f, v),
           f \in {"active", "previous"} => v \in OrNone(Key),
           f = "dropAt" => v \in Deadline
    PROVE  rows' \in State /\ had' \in [Row -> SUBSET RowValue]
<1>1. v \in RowValue
  BY OverlapIsNat, SigningKeysAssumption DEF Row, RowValue, OrNone, Key, Deadline
<1>2. had' \in [Row -> SUBSET RowValue]
  BY <1>1 DEF KeysTypeOK, SetRow
<1>3. CASE f = "active"
  BY <1>2, <1>3, Zenon DEF KeysTypeOK, SetRow, State, OrNone
<1>4. CASE f = "previous"
  BY <1>2, <1>4, Zenon DEF KeysTypeOK, SetRow, State, OrNone
<1>5. CASE f = "dropAt"
  BY <1>2, <1>5, Zenon DEF KeysTypeOK, SetRow, State, OrNone
<1>. QED BY <1>3, <1>4, <1>5 DEF Row

(* The rotation's steps keep the types.                                        *)
LEMMA RotatorType ==
    ASSUME KeysTypeOK, CliInv, NEW c \in Rotators,
           RotateStart(c) \/ StoreKey(c) \/ WriteActive(c) \/ WritePrevious(c)
           \/ WriteDropAt(c) \/ RotateFails(c)
    PROVE  KeysTypeOK'
<1>1. cli \in [Rotators -> CliRec] /\ cli[c] \in CliRec /\ IdleCli \in CliRec
  BY Zenon DEF KeysTypeOK, CliRec, IdleCli, OrNone
<1>2. ASSUME NEW x \in CliRec, cli' = [cli EXCEPT ![c] = x]
      PROVE  cli' \in [Rotators -> CliRec]
  BY Zenon, <1>1, <1>2
<1>3. CASE RotateStart(c)
  <2>1. [pc |-> "store", at |-> now, old |-> rows.active, new |-> None] \in CliRec
    BY <1>3, Zenon DEF RotateStart, KeysTypeOK, CliRec, State, OrNone
  <2>2. cli' \in [Rotators -> CliRec]
    BY <2>1, <1>2, <1>3, Zenon DEF RotateStart
  <2>. QED BY <2>2, <1>3 DEF RotateStart, KeysTypeOK, CliRec, manager, tokens
<1>4. CASE StoreKey(c)
  <2>1. nextKey \in Key /\ nextKey' \in 1..MaxKeys
    BY <1>4, SigningKeysAssumption DEF StoreKey, KeysTypeOK, Key
  <2>2. [cli[c] EXCEPT !.pc = "active", !.new = nextKey] \in CliRec
    BY <1>1, <2>1, Zenon DEF CliRec, OrNone
  <2>3. cli' = [cli EXCEPT ![c] = [cli[c] EXCEPT !.pc = "active", !.new = nextKey]]
    BY <1>4, <1>1, Zenon DEF StoreKey, CliRec
  <2>4. cli' \in [Rotators -> CliRec]
    BY <2>2, <2>3, <1>2, Zenon
  <2>. QED BY <2>1, <2>4, <1>4 DEF StoreKey, KeysTypeOK, CliRec, manager, tokens
<1>5. CASE WriteActive(c)
  <2>1. [cli[c] EXCEPT !.pc = "previous"] \in CliRec
    BY <1>1 DEF CliRec
  <2>2. cli' \in [Rotators -> CliRec]
    BY <2>1, <1>1, <1>2, <1>5 DEF WriteActive
  <2>3. rows' \in State /\ had' \in [Row -> SUBSET RowValue]
    BY SetRowType, <1>1, <1>5 DEF WriteActive, Row, CliRec
  <2>. QED BY <2>2, <2>3, <1>5 DEF WriteActive, KeysTypeOK, CliRec, manager, tokens
<1>6. CASE WritePrevious(c)
  <2>1. [cli[c] EXCEPT !.pc = "dropAt"] \in CliRec
    BY <1>1 DEF CliRec
  <2>2. cli' \in [Rotators -> CliRec]
    BY <2>1, <1>1, <1>2, <1>6 DEF WritePrevious
  <2>3. rows' \in State /\ had' \in [Row -> SUBSET RowValue]
    BY SetRowType, <1>1, <1>6 DEF WritePrevious, Row, CliRec
  <2>. QED BY <2>2, <2>3, <1>6 DEF WritePrevious, KeysTypeOK, CliRec, manager, tokens
<1>7. CASE WriteDropAt(c)
  <2>1. cli[c].at \in Time
    BY ZenonT(30), <1>7 DEF CliInv, WriteDropAt
  <2>2. cli[c].at + Overlap \in Deadline
    BY <2>1, OverlapIsNat, SigningKeysAssumption DEF Time, Deadline
  <2>3. cli' \in [Rotators -> CliRec]
    BY Zenon, <1>1, <1>2, <1>7 DEF WriteDropAt
  <2>4. rows' \in State /\ had' \in [Row -> SUBSET RowValue]
    BY Zenon, SetRowType, <2>2, <1>7 DEF WriteDropAt, Row
  <2>. QED BY <2>1, <2>3, <2>4, <1>7, ZenonT(30) DEF WriteDropAt, KeysTypeOK, CliRec, manager, tokens, OrNone
<1>8. CASE RotateFails(c)
  <2>1. cli' \in [Rotators -> CliRec]
    BY Zenon, <1>1, <1>2, <1>8 DEF RotateFails
  <2>2. faults' \in 0..MaxFaults /\ torn' \in BOOLEAN
    BY <1>8, SigningKeysAssumption DEF RotateFails, KeysTypeOK
  <2>. QED BY <2>1, <2>2, <1>8 DEF RotateFails, KeysTypeOK, CliRec, manager, tokens
<1>. QED BY Zenon, <1>3, <1>4, <1>5, <1>6, <1>7, <1>8

(* The gateway's steps keep the types.                                         *)
LEMMA GatewayType ==
    ASSUME KeysTypeOK, NEW r \in Readers,
           ReadActive(r) \/ ReadPrevious(r) \/ ReadDropAt(r) \/ Apply(r) \/ ResolveFails(r)
    PROVE  KeysTypeOK'
<1>1. reader \in [Readers -> ReaderRec] /\ reader[r] \in ReaderRec /\ IdleReader \in ReaderRec
  BY StateOps DEF KeysTypeOK, ReaderRec, IdleReader
<1>2. ASSUME NEW x \in ReaderRec, reader' = [reader EXCEPT ![r] = x]
      PROVE  reader' \in [Readers -> ReaderRec]
  BY <1>1, <1>2
<1>3. \A s \in State : Served(r, s) \in State
  BY StateOps DEF Served
<1>4. CASE ReadActive(r)
  <2>1. [Blank EXCEPT !.active = rows.active] \in State
    BY DEF KeysTypeOK, State, Blank, OrNone
  <2>2. reader' \in [Readers -> ReaderRec]
    BY <2>1, <1>2, <1>4, Zenon DEF ReadActive, ReaderRec
  <2>. QED BY <2>2, <1>4 DEF ReadActive, KeysTypeOK, ReaderRec, settings, tokens
<1>5. CASE ReadPrevious(r)
  <2>1. [reader[r].got EXCEPT !.previous = rows.previous] \in State
    BY <1>1 DEF KeysTypeOK, State, ReaderRec
  <2>2. [pc |-> "dropAt", got |-> [reader[r].got EXCEPT !.previous = rows.previous]] \in ReaderRec
    BY <2>1 DEF ReaderRec
  <2>3. reader' = [reader EXCEPT ![r] = [pc |-> "dropAt", got |-> [reader[r].got EXCEPT !.previous = rows.previous]]]
    BY <1>5 DEF ReadPrevious
  <2>4. reader' \in [Readers -> ReaderRec]
    BY <2>2, <2>3, <1>2, Zenon
  <2>. QED BY <2>4, <1>5 DEF ReadPrevious, KeysTypeOK, ReaderRec, settings, tokens
<1>6. CASE ReadDropAt(r)
  <2>1. [reader[r].got EXCEPT !.dropAt = rows.dropAt] \in State
    BY <1>1 DEF KeysTypeOK, State, ReaderRec
  <2>2. [pc |-> "apply", got |-> [reader[r].got EXCEPT !.dropAt = rows.dropAt]] \in ReaderRec
    BY <2>1 DEF ReaderRec
  <2>3. reader' \in [Readers -> ReaderRec]
    <3>1. \/ reader' = [reader EXCEPT ![r] = IdleReader]
          \/ reader' = [reader EXCEPT ![r] = [pc |-> "apply", got |-> [reader[r].got EXCEPT !.dropAt = rows.dropAt]]]
      BY <1>6 DEF ReadDropAt
    <3>. QED BY <3>1, <2>2, <1>1, <1>2
  <2>4. issuer' \in State
    BY <1>3, <1>6 DEF ReadDropAt, KeysTypeOK
  <2>. QED BY <2>3, <2>4, <1>6 DEF ReadDropAt, KeysTypeOK, ReaderRec, settings
<1>7. CASE Apply(r)
  <2>1. reader[r].got \in State
    BY <1>1 DEF ReaderRec
  <2>2. issuer' \in State /\ fingerprint' \in State /\ reader' \in [Readers -> ReaderRec]
    BY Zenon, <2>1, <1>1, <1>2, <1>3, <1>7, StateOps DEF Apply
  <2>. QED BY <2>2, <1>7, Zenon DEF Apply, KeysTypeOK, ReaderRec, settings, OrNone
<1>8. CASE ResolveFails(r)
  <2>1. reader' \in [Readers -> ReaderRec] /\ faults' \in 0..MaxFaults
    BY <1>1, <1>2, <1>8, SigningKeysAssumption DEF ResolveFails, KeysTypeOK
  <2>. QED BY Zenon, <2>1, <1>8 DEF ResolveFails, KeysTypeOK, ReaderRec, settings, tokens
<1>. QED BY Zenon, <1>4, <1>5, <1>6, <1>7, <1>8

(* A mint is of a key.                                                         *)
LEMMA MintType ==
    ASSUME KeysTypeOK, issuer.active # None, Mint
    PROVE  /\ issuer.active \in Key
           /\ cache' \in [key : Key, at : Time, refreshing : BOOLEAN]
           /\ lastMint' \in [Key -> OrNone(Time)]
<1>1. issuer.active \in Key
  BY DEF KeysTypeOK, State, OrNone
<1>2. cache' \in [key : Key, at : Time, refreshing : BOOLEAN]
  BY <1>1 DEF Mint, KeysTypeOK
<1>3. lastMint' \in [Key -> OrNone(Time)]
  BY <1>1, Zenon DEF Mint, KeysTypeOK, OrNone
<1>. QED BY ZenonT(30), <1>1, <1>2, <1>3

(* The token's, the clock's and the restart's steps keep the types.            *)
LEMMA TokenType ==
    ASSUME KeysTypeOK, GetTokenMint \/ GetTokenSchedule \/ BackgroundMint \/ Tick \/ Restart
    PROVE  KeysTypeOK'
<1>1. CASE GetTokenMint
  BY Zenon, <1>1, MintType, StateOps DEF GetTokenMint, KeysTypeOK, settings, manager, OrNone
<1>2. CASE GetTokenSchedule
  <2>1. cache' \in [key : Key, at : Time, refreshing : BOOLEAN]
    BY <1>2, Zenon DEF GetTokenSchedule, KeysTypeOK, OrNone
  <2>2. tasks' \in 0..MaxTasks /\ issuer' \in State
    BY <1>2, StateOps, SigningKeysAssumption DEF GetTokenSchedule, KeysTypeOK
  <2>. QED BY <2>1, <2>2, <1>2 DEF GetTokenSchedule, KeysTypeOK, settings, manager, OrNone
<1>3. CASE BackgroundMint
  <2>1. tasks' \in 0..MaxTasks
    BY <1>3, SigningKeysAssumption DEF BackgroundMint, KeysTypeOK
  <2>. QED BY <2>1, <1>3, MintType, Zenon DEF BackgroundMint, KeysTypeOK, settings, manager, OrNone
<1>4. CASE Tick
  <2>1. now' \in Time
    BY <1>4, SigningKeysAssumption DEF Tick, KeysTypeOK, Time
  <2>2. lastMint' \in [Key -> OrNone(Time)]
    BY Zenon, <1>4 DEF Tick, KeysTypeOK, OrNone
  <2>. QED BY ZenonT(30), <2>1, <2>2, <1>4 DEF Tick, KeysTypeOK, settings, manager
<1>5. CASE Restart
  <2>1. reader' \in [Readers -> ReaderRec]
    BY Zenon, <1>5, StateOps DEF Restart, ReaderRec, IdleReader
  <2>2. faults' \in 0..MaxFaults /\ tasks' \in 0..MaxTasks
    BY <1>5, SigningKeysAssumption DEF Restart, KeysTypeOK
  <2>. QED BY <2>1, <2>2, <1>5, StateOps DEF Restart, KeysTypeOK, ReaderRec, settings, OrNone
<1>. QED BY Zenon, <1>1, <1>2, <1>3, <1>4, <1>5

(* The steps of a rotation, of a caller of current(), and of all else.         *)
RotatorStep(c) == RotateStart(c) \/ StoreKey(c) \/ WriteActive(c) \/ WritePrevious(c) \/ WriteDropAt(c) \/ RotateFails(c)
ReaderStep(r) == ReadActive(r) \/ ReadPrevious(r) \/ ReadDropAt(r) \/ Apply(r) \/ ResolveFails(r)
TokenStep == GetTokenMint \/ GetTokenSchedule \/ BackgroundMint \/ Tick \/ Restart

(* KeysNext is these three.                                                       *)
LEMMA NextGroups ==
    ASSUME KeysNext
    PROVE  (\E c \in Rotators : RotatorStep(c)) \/ (\E r \in Readers : ReaderStep(r)) \/ TokenStep
BY DEF KeysNext, RotatorStep, ReaderStep, TokenStep

(* The gateway never touches what the rotation writes.                         *)
LEMMA SettingsKept ==
    ASSUME (\E r \in Readers : ReaderStep(r)) \/ TokenStep
    PROVE  UNCHANGED <<rows, had, nextKey, cli, rotatedAt, torn>>
<1>1. ASSUME NEW r \in Readers, ReaderStep(r) PROVE UNCHANGED settings
  BY <1>1 DEF ReaderStep, ReadActive, ReadPrevious, ReadDropAt, Apply, ResolveFails
<1>2. ASSUME TokenStep PROVE UNCHANGED settings
  BY <1>2 DEF TokenStep, GetTokenMint, GetTokenSchedule, BackgroundMint, Tick, Restart
<1>. QED BY Zenon, <1>1, <1>2 DEF settings

(* The rotation never touches the gateway or the clock.                        *)
LEMMA GatewayKept ==
    ASSUME NEW c \in Rotators, RotatorStep(c)
    PROVE  UNCHANGED <<now, reader, fingerprint, issuer, cache, tasks, lastMint>>
BY DEF RotatorStep, RotateStart, StoreKey, WriteActive, WritePrevious, WriteDropAt, RotateFails, manager, tokens

(* Every step keeps the types.                                                 *)
LEMMA KeysTypeStep ==
    ASSUME KeysTypeOK, CliInv, [KeysNext]_keysVars
    PROVE  KeysTypeOK'
<1>1. CASE UNCHANGED keysVars
  BY <1>1 DEF keysVars, settings, manager, tokens, KeysTypeOK
<1>2. ASSUME NEW c \in Rotators, RotatorStep(c) PROVE KeysTypeOK'
  BY <1>2, RotatorType DEF RotatorStep
<1>3. ASSUME NEW r \in Readers, ReaderStep(r) PROVE KeysTypeOK'
  BY <1>3, GatewayType DEF ReaderStep
<1>4. CASE TokenStep
  BY <1>4, TokenType DEF TokenStep
<1>. QED BY Zenon, <1>1, <1>2, <1>3, <1>4, NextGroups

------------------------------------------------------------------------------
(* What a rotation's steps do to the rotations and the rows.                   *)
LEMMA RotatorStepCliRows ==
    ASSUME KeysTypeOK, CliInv, RowsInv, NEW c \in Rotators, RotatorStep(c)
    PROVE  CliInv' /\ RowsInv'
<1>0. /\ cli \in [Rotators -> CliRec] /\ cli[c] \in CliRec /\ rows \in State
      /\ None \notin Int /\ None \notin Key /\ Key \subseteq Int /\ Time \subseteq Int
      /\ Overlap \in Nat
  BY OverlapIsNat, SigningKeysAssumption DEF KeysTypeOK, CliRec, Key, Time
<1>1. CASE RotateStart(c)
  <2>1. cli' = [cli EXCEPT ![c] = [pc |-> "store", at |-> now, old |-> rows.active, new |-> None]]
        /\ rows' = rows /\ rotatedAt' = rotatedAt /\ torn' = torn /\ rows.active # None /\ cli[c].pc = "idle"
    BY Zenon, <1>1 DEF RotateStart
  <2>2. now \in Time /\ rows.active \in Key
    BY Zenon, <2>1, <1>0 DEF KeysTypeOK, State, OrNone
  <2>3. CliInv'
    BY Zenon, <2>1, <2>2, <1>0 DEF CliInv
  <2>4. RowsInv'
    BY <2>1, <1>0 DEF RowsInv
  <2>. QED BY <2>3, <2>4
<1>2. CASE StoreKey(c)
  <2>1. nextKey \in Key
    BY <1>2, SigningKeysAssumption DEF StoreKey, KeysTypeOK, Key
  <2>2. cli' = [cli EXCEPT ![c] = [cli[c] EXCEPT !.pc = "active", !.new = nextKey]]
        /\ rows' = rows /\ rotatedAt' = rotatedAt /\ torn' = torn /\ cli[c].pc = "store"
    BY <1>2, <1>0, Zenon DEF StoreKey, CliRec
  <2>3. CliInv'
    BY <2>1, <2>2, <1>0 DEF CliInv, CliRec
  <2>4. RowsInv'
    BY <2>2, <1>0 DEF RowsInv, CliRec
  <2>. QED BY <2>3, <2>4
<1>3. CASE WriteActive(c)
  <2>1. /\ rows' = [rows EXCEPT !.active = cli[c].new] /\ cli' = [cli EXCEPT ![c] = [cli[c] EXCEPT !.pc = "previous"]]
        /\ rotatedAt' = rotatedAt /\ torn' = torn /\ cli[c].pc = "active"
    BY <1>3, <1>0, Zenon DEF WriteActive, SetRow, CliRec
  <2>2. cli[c].new \in Key /\ rows'.active = cli[c].new /\ rows'.previous = rows.previous /\ rows'.dropAt = rows.dropAt
    BY <2>1, <1>0 DEF CliInv, State
  <2>3. CliInv'
    BY <2>1, <2>2, <1>0 DEF CliInv, CliRec
  <2>4. RowsInv'
    BY <2>1, <2>2, <1>0 DEF RowsInv, CliRec
  <2>. QED BY <2>3, <2>4
<1>4. CASE WritePrevious(c)
  <2>1. /\ rows' = [rows EXCEPT !.previous = cli[c].old] /\ cli' = [cli EXCEPT ![c] = [cli[c] EXCEPT !.pc = "dropAt"]]
        /\ rotatedAt' = rotatedAt /\ torn' = torn /\ cli[c].pc = "previous"
    BY <1>4, <1>0, Zenon DEF WritePrevious, SetRow, CliRec
  <2>2. rows.active # None /\ rows'.active = rows.active /\ rows'.dropAt = rows.dropAt
    BY <2>1, <1>0 DEF CliInv, State
  <2>3. CliInv'
    BY <2>1, <2>2, <1>0 DEF CliInv, CliRec
  <2>4. cli'[c].pc = "dropAt"
    BY <2>1, <1>0 DEF CliRec
  <2>5. RowsInv'
    BY <2>1, <2>2, <2>4, <1>0 DEF RowsInv
  <2>. QED BY <2>3, <2>5
<1>5. CASE WriteDropAt(c)
  <2>1. /\ rows' = [rows EXCEPT !.dropAt = cli[c].at + Overlap] /\ cli' = [cli EXCEPT ![c] = IdleCli]
        /\ rotatedAt' = cli[c].at /\ torn' = FALSE /\ cli[c].pc = "dropAt"
    BY <1>5, <1>0, Zenon DEF WriteDropAt, SetRow
  <2>2. /\ cli[c].at \in Time /\ rows'.active = rows.active /\ rows'.previous = rows.previous
        /\ rows'.dropAt = cli[c].at + Overlap
    BY <2>1, <1>0 DEF CliInv, State
  <2>3. CliInv'
    BY <2>1, <2>2, <1>0 DEF CliInv, IdleCli
  <2>4. cli[c].at # None /\ cli[c].at + Overlap # None
    <3>1. \A t \in Time : t + Overlap \in Int
      BY <1>0
    <3>. QED BY <3>1, <2>2, <1>0, Zenon
  <2>5. RowsInv'
    BY <2>1, <2>2, <2>4 DEF RowsInv
  <2>. QED BY <2>3, <2>5
<1>6. CASE RotateFails(c)
  <2>1. /\ cli' = [cli EXCEPT ![c] = IdleCli] /\ torn' = (torn \/ cli[c].pc \in {"previous", "dropAt"})
        /\ rows' = rows /\ rotatedAt' = rotatedAt
    BY Zenon, <1>6 DEF RotateFails
  <2>2. CliInv'
    BY <2>1, <1>0 DEF CliInv, IdleCli
  <2>3. ASSUME NEW d \in Rotators, cli[d].pc = "dropAt"
        PROVE  torn' \/ \E e \in Rotators : cli'[e].pc = "dropAt"
    BY <2>1, <2>3, <1>0, Zenon
  <2>4. torn => torn'
    BY <2>1, Zenon
  <2>5. RowsInv'
    BY <2>1, <2>3, <2>4 DEF RowsInv
  <2>. QED BY <2>2, <2>5
<1>. QED BY Zenon, <1>1, <1>2, <1>3, <1>4, <1>5, <1>6 DEF RotatorStep

------------------------------------------------------------------------------
(* Dropping an expired previous key leaves the active key alone, once.         *)
LEMMA DropOps ==
    \A s \in State :
        /\ Alone(s) \in State /\ DropExpired(Alone(s)) = Alone(s)
        /\ Alone(s).active = s.active /\ Alone(s).dropAt = None
        /\ s.dropAt # None /\ s.dropAt <= now => DropExpired(s) = Alone(s)
        /\ ~(s.dropAt # None /\ s.dropAt <= now) => DropExpired(s) = s
<1>. TAKE s \in State
<1>1. /\ Alone(s) \in State /\ Alone(s).active = s.active /\ Alone(s).dropAt = None
      /\ Alone(s).previous = None
  BY DEF State, Alone, Blank, OrNone
<1>2. DropExpired(Alone(s)) = Alone(s)
  BY <1>1 DEF DropExpired
<1>3. s.dropAt # None /\ s.dropAt <= now => DropExpired(s) = Alone(s)
  BY DEF DropExpired, Alone
<1>4. ~(s.dropAt # None /\ s.dropAt <= now) => DropExpired(s) = s
  BY DEF DropExpired
<1>. QED BY <1>1, <1>2, <1>3, <1>4

(* Looking at the issuer keeps it what the fingerprint says.                   *)
LEMMA LookKeepsIssuer ==
    ASSUME KeysTypeOK, IssuerInv, fingerprint # None, fingerprint' = fingerprint, now' = now,
           issuer' = issuer \/ issuer' = DropExpired(issuer)
    PROVE  IssuerInv'
<1> DEFINE L == Loaded(fingerprint)
<1>1. fingerprint \in State /\ L \in State
  BY StateOps DEF KeysTypeOK, OrNone
<1>2. \/ issuer' = L
      \/ issuer' = Alone(L) /\ L.dropAt # None /\ L.dropAt <= now
  BY <1>1, DropOps DEF IssuerInv
<1>. QED BY Zenon, <1>2 DEF IssuerInv, Loaded, Alone, Blank

(* What callers of current() do to the issuer.                                 *)
LEMMA ReaderStepIssuer ==
    ASSUME KeysTypeOK, IssuerInv, CachedTokenIsCurrent, NEW r \in Readers, ReaderStep(r)
    PROVE  IssuerInv' /\ CachedTokenIsCurrent'
<1>1. CASE ReadActive(r) \/ ReadPrevious(r) \/ ResolveFails(r)
  BY <1>1 DEF ReadActive, ReadPrevious, ResolveFails, tokens, IssuerInv, CachedTokenIsCurrent,
              Loaded, Alone, Blank
<1>2. CASE ReadDropAt(r)
  <2>1. reader[r].got \in State
    BY DEF KeysTypeOK
  <2>2. [reader[r].got EXCEPT !.dropAt = rows.dropAt] \in State
    BY <2>1 DEF KeysTypeOK, State
  <2>3. CASE issuer' = issuer
    BY <2>3, <1>2 DEF ReadDropAt, IssuerInv, CachedTokenIsCurrent, Loaded, Alone, Blank
  <2>4. CASE issuer' # issuer
    <3>1. fingerprint # None /\ issuer' = DropExpired(issuer)
      BY <2>2, <2>4, <1>2, NoneAssumption DEF ReadDropAt, Served
    <3>2. now' = now /\ fingerprint' = fingerprint /\ cache' = cache
      BY <1>2 DEF ReadDropAt
    <3>3. IssuerInv'
      BY Zenon, <3>1, <3>2, LookKeepsIssuer
    <3>4. CachedTokenIsCurrent'
      BY Zenon, <3>1, <3>2, StateOps DEF CachedTokenIsCurrent, KeysTypeOK
    <3>. QED BY <3>3, <3>4
  <2>. QED BY <2>3, <2>4
<1>3. CASE Apply(r)
  <2> DEFINE L == Loaded(reader[r].got)
  <2>1. reader[r].got \in State /\ L \in State
    BY Zenon, StateOps DEF KeysTypeOK
  <2>2. /\ now' = now /\ fingerprint' = reader[r].got /\ fingerprint' # None /\ cache' = None
        /\ issuer' = L \/ issuer' = DropExpired(L)
    BY Zenon, <2>1, <1>3, NoneAssumption DEF Apply, Served
  <2>3. \/ issuer' = L
        \/ issuer' = Alone(L) /\ L.dropAt # None /\ L.dropAt <= now
    BY Zenon, <2>1, <2>2, DropOps
  <2>4. IssuerInv'
    BY <2>2, <2>3 DEF IssuerInv, Loaded, Alone, Blank
  <2>. QED BY Zenon, <2>2, <2>4 DEF CachedTokenIsCurrent
<1>. QED BY <1>1, <1>2, <1>3 DEF ReaderStep

(* What get_token, the re-mints, the clock and a restart do to the issuer.     *)
LEMMA TokenStepIssuer ==
    ASSUME KeysTypeOK, IssuerInv, CachedTokenIsCurrent, TokenStep
    PROVE  IssuerInv' /\ CachedTokenIsCurrent'
<1>0. issuer.active # None => fingerprint # None
  BY DEF IssuerInv, Blank
<1>1. CASE GetTokenMint
  <2>1. /\ fingerprint # None /\ fingerprint' = fingerprint /\ now' = now /\ issuer' = DropExpired(issuer)
        /\ cache'.key = issuer.active
    BY <1>0, <1>1 DEF GetTokenMint, Mint, manager
  <2>2. IssuerInv'
    BY Zenon, <2>1, LookKeepsIssuer
  <2>3. CachedTokenIsCurrent'
    BY <2>1, StateOps DEF CachedTokenIsCurrent, KeysTypeOK
  <2>. QED BY Zenon, <2>2, <2>3
<1>2. CASE GetTokenSchedule
  <2>1. /\ fingerprint # None /\ fingerprint' = fingerprint /\ now' = now /\ issuer' = DropExpired(issuer)
        /\ cache # None /\ cache' = [cache EXCEPT !.refreshing = TRUE]
    BY <1>0, <1>2 DEF GetTokenSchedule, manager
  <2>2. IssuerInv'
    BY <2>1, LookKeepsIssuer
  <2>3. cache'.key = cache.key
    BY <2>1 DEF KeysTypeOK, OrNone
  <2>4. CachedTokenIsCurrent'
    BY <2>1, <2>3, StateOps DEF CachedTokenIsCurrent, KeysTypeOK
  <2>. QED BY <2>2, <2>4
<1>3. CASE BackgroundMint
  <2>1. /\ fingerprint # None /\ fingerprint' = fingerprint /\ now' = now /\ issuer' = issuer
        /\ cache'.key = issuer.active
    BY Zenon, <1>0, <1>3 DEF BackgroundMint, Mint, manager
  <2>2. IssuerInv'
    BY <2>1, LookKeepsIssuer
  <2>. QED BY <2>1, <2>2 DEF CachedTokenIsCurrent
<1>4. CASE Tick
  <2>1. fingerprint' = fingerprint /\ issuer' = issuer /\ cache' = cache /\ now' = now + 1
    BY Zenon, <1>4 DEF Tick, manager
  <2>2. fingerprint # None => Loaded(fingerprint) \in State
    BY Zenon, StateOps DEF KeysTypeOK, OrNone
  <2>3. \A t \in OrNone(Deadline) : t # None /\ t <= now => t <= now + 1
    BY OverlapIsNat, SigningKeysAssumption DEF OrNone, Deadline, KeysTypeOK, Time
  <2>4. fingerprint # None /\ Loaded(fingerprint).dropAt # None /\ Loaded(fingerprint).dropAt <= now
        => Loaded(fingerprint).dropAt <= now + 1
    BY <2>2, <2>3 DEF State
  <2>5. IssuerInv'
    BY Zenon, <2>1, <2>4 DEF IssuerInv, Loaded, Alone, Blank
  <2>. QED BY <2>1, <2>5 DEF CachedTokenIsCurrent
<1>5. CASE Restart
  BY <1>5 DEF Restart, IssuerInv, CachedTokenIsCurrent, Blank
<1>. QED BY <1>1, <1>2, <1>3, <1>4, <1>5 DEF TokenStep

(* A recorded mint is forgotten when its token expires.                        *)
LEMMA MintStep ==
    ASSUME KeysTypeOK, MintInv, KeysNext
    PROVE  MintInv'
<1>1. ASSUME NEW c \in Rotators, RotatorStep(c) PROVE MintInv'
  BY <1>1, GatewayKept DEF MintInv
<1>2. ASSUME NEW r \in Readers, ReaderStep(r) PROVE MintInv'
  BY Zenon, <1>2 DEF MintInv, ReaderStep, ReadActive, ReadPrevious, ReadDropAt, Apply, ResolveFails, tokens
<1>3. CASE GetTokenMint \/ BackgroundMint
  <2>1. now' = now /\ lastMint' = [lastMint EXCEPT ![issuer.active] = now]
    BY Zenon, <1>3 DEF GetTokenMint, BackgroundMint, Mint
  <2>2. now < now + Ttl
    BY OverlapIsNat, SigningKeysAssumption DEF KeysTypeOK, Time
  <2>. QED BY Zenon, <2>1, <2>2 DEF MintInv, KeysTypeOK
<1>4. CASE GetTokenSchedule \/ Restart
  BY <1>4 DEF GetTokenSchedule, Restart, MintInv
<1>5. CASE Tick
  <2>1. \A t, u \in Time : u < t + Ttl /\ t # (u + 1) - Ttl => u + 1 < t + Ttl
    BY OverlapIsNat, SigningKeysAssumption DEF Time
  <2>2. ASSUME NEW k \in Key, lastMint'[k] # None PROVE now' < lastMint'[k] + Ttl
    <3>0. now' = now + 1 /\ lastMint' = [j \in Key |-> IF lastMint[j] = now' - Ttl THEN None ELSE lastMint[j]]
      BY <1>5 DEF Tick
    <3>1. lastMint'[k] = lastMint[k] /\ lastMint[k] # None /\ lastMint[k] # (now + 1) - Ttl /\ now' = now + 1
      BY Zenon, <2>2, <3>0
    <3>2. lastMint[k] \in Time /\ now \in Time
      BY <3>1 DEF KeysTypeOK, OrNone
    <3>3. now < lastMint[k] + Ttl
      BY <3>1 DEF MintInv
    <3>4. now + 1 < lastMint[k] + Ttl
      BY <2>1, <3>1, <3>2, <3>3
    <3>. QED BY <3>1, <3>4
  <2>. QED BY <2>2 DEF MintInv
<1>. QED BY <1>1, <1>2, <1>3, <1>4, <1>5, NextGroups DEF TokenStep

------------------------------------------------------------------------------
(* The inductive invariant holds at first ...                                  *)
LEMMA InitIInv ==
    ASSUME KeysInit
    PROVE  IInv
<1>0. Key \subseteq Int /\ 0 \in Key /\ 0 \in Time /\ None \notin Int /\ 1 \in 1..MaxKeys
      /\ 0 \in 0..MaxTasks /\ 0 \in 0..MaxFaults
  BY SigningKeysAssumption DEF Key, Time
<1>1. rows \in State /\ rows.previous = None /\ rows.dropAt = None
  BY <1>0 DEF KeysInit, State, Blank, OrNone
<1>2. had \in [Row -> SUBSET RowValue]
  <2>1. OrNone(Key) \subseteq RowValue /\ OrNone(Deadline) \subseteq RowValue
    BY OverlapIsNat, SigningKeysAssumption DEF OrNone, Key, Deadline, RowValue
  <2>2. rows["active"] \in RowValue /\ rows["previous"] \in RowValue /\ rows["dropAt"] \in RowValue
    BY <1>1, <2>1 DEF State
  <2>. QED BY <2>2 DEF KeysInit, Row
<1>3. cli \in [Rotators -> CliRec] /\ reader \in [Readers -> ReaderRec]
  BY StateOps DEF KeysInit, CliRec, ReaderRec, IdleCli, IdleReader, OrNone
<1>4. KeysTypeOK
  BY <1>0, <1>1, <1>2, <1>3, StateOps, Zenon DEF KeysInit, KeysTypeOK, CliRec, ReaderRec, OrNone
<1>5. CliInv
  BY DEF KeysInit, CliInv, IdleCli
<1>6. RowsInv
  BY <1>1 DEF KeysInit, RowsInv
<1>7. IssuerInv /\ CachedTokenIsCurrent /\ MintInv
  BY DEF KeysInit, IssuerInv, CachedTokenIsCurrent, MintInv
<1>. QED BY <1>4, <1>5, <1>6, <1>7 DEF IInv

(* ... and every step keeps it.                                                *)
LEMMA StepIInv ==
    ASSUME IInv, [KeysNext]_keysVars
    PROVE  IInv'
<1>1. KeysTypeOK'
  BY KeysTypeStep DEF IInv
<1>2. CASE UNCHANGED keysVars
  <2>1. CliInv' /\ RowsInv'
    BY <1>2 DEF IInv, keysVars, settings, CliInv, RowsInv
  <2>2. IssuerInv' /\ CachedTokenIsCurrent' /\ MintInv'
    BY <1>2 DEF IInv, keysVars, manager, tokens, IssuerInv, CachedTokenIsCurrent, MintInv, Loaded, Alone, Blank
  <2>. QED BY Zenon, <1>1, <2>1, <2>2 DEF IInv
<1>3. CASE KeysNext
  <2>1. MintInv'
    BY <1>3, MintStep DEF IInv
  <2>2. ASSUME NEW c \in Rotators, RotatorStep(c) PROVE CliInv' /\ RowsInv' /\ IssuerInv' /\ CachedTokenIsCurrent'
    <3>1. CliInv' /\ RowsInv'
      BY <2>2, RotatorStepCliRows DEF IInv
    <3>2. IssuerInv' /\ CachedTokenIsCurrent'
      BY <2>2, GatewayKept DEF IInv, IssuerInv, CachedTokenIsCurrent, Loaded, Alone, Blank
    <3>. QED BY <3>1, <3>2
  <2>3. ASSUME NEW r \in Readers, ReaderStep(r) PROVE CliInv' /\ RowsInv' /\ IssuerInv' /\ CachedTokenIsCurrent'
    <3>1. CliInv' /\ RowsInv'
      BY <2>3, SettingsKept DEF IInv, CliInv, RowsInv
    <3>. QED BY ZenonT(30), <3>1, <2>3, ReaderStepIssuer DEF IInv
  <2>4. ASSUME TokenStep PROVE CliInv' /\ RowsInv' /\ IssuerInv' /\ CachedTokenIsCurrent'
    <3>1. CliInv' /\ RowsInv'
      BY <2>4, SettingsKept DEF IInv, CliInv, RowsInv
    <3>. QED BY Zenon, <3>1, <2>4, TokenStepIssuer DEF IInv
  <2>5. CliInv' /\ RowsInv' /\ IssuerInv' /\ CachedTokenIsCurrent'
    BY <1>3, <2>2, <2>3, <2>4, NextGroups
  <2>. QED BY <1>1, <2>1, <2>5 DEF IInv
<1>. QED BY <1>2, <1>3

(* The inductive invariant holds whatever the order of the rotations' writes,  *)
(* the readers' reads, the mints, the faults and the clock.                    *)
THEOREM KeysInductive == KeysSpec => []IInv
<1>1. KeysInit => IInv
  BY InitIInv
<1>2. IInv /\ [KeysNext]_keysVars => IInv'
  BY StepIInv
<1>. QED BY <1>1, <1>2, PTL DEF KeysSpec

(* The three rows, the keys in memory, the tokens and the clock keep their     *)
(* types, for any number of rotators, readers and requests.                    *)
THEOREM KeysTypes == KeysSpec => []KeysTypeOK
<1>1. IInv => KeysTypeOK
  BY DEF IInv
<1>. QED BY <1>1, KeysInductive, PTL

(* TokenKeyManager's issuer is what its fingerprint says, whichever caller of  *)
(* current() applied its reading last.                                         *)
THEOREM IssuerFollowsFingerprint == KeysSpec => []IssuerIsFingerprint
<1>1. IInv => IssuerIsFingerprint
  <2>. SUFFICES ASSUME IInv, fingerprint # None
                PROVE  DropExpired(issuer) = DropExpired(Loaded(fingerprint))
    BY Zenon DEF IssuerIsFingerprint
  <2>1. Loaded(fingerprint) \in State
    BY StateOps DEF IInv, KeysTypeOK, OrNone
  <2>2. CASE issuer = Loaded(fingerprint)
    BY Zenon, <2>2
  <2>3. CASE issuer # Loaded(fingerprint)
    BY <2>1, <2>3, DropOps DEF IInv, IssuerInv
  <2>. QED BY <2>2, <2>3
<1>. QED BY <1>1, KeysInductive, PTL

(* A token in get_token's cache is signed by the key that signs now, also when *)
(* a background re-mint scheduled before replace_keys runs after it.           *)
THEOREM CachedTokensAreCurrent == KeysSpec => []CachedTokenIsCurrent
<1>1. IInv => CachedTokenIsCurrent
  BY Zenon DEF IInv
<1>. QED BY <1>1, KeysInductive, PTL

(* An unexpired token whose key jwks() does not publish has one of the four    *)
(* causes; in particular two token lifetimes of overlap are enough.            *)
THEOREM GapsHaveCauses == KeysSpec => []GapHasCause
<1>1. ASSUME IInv PROVE GapHasCause
  <2>. SUFFICES ASSUME NEW k \in Key, lastMint[k] # None, k \notin Published,
                       ~torn, \A c \in Rotators : cli[c].pc \notin {"previous", "dropAt"},
                       fingerprint = rows, k \in {rows.active, rows.previous},
                       ~(lastMint[k] > rotatedAt + Ttl)
                PROVE  FALSE
    BY Zenon DEF GapHasCause
  <2>0. /\ None \notin Int /\ k \in Int /\ rows \in State /\ Loaded(rows) \in State
        /\ rows # None /\ now \in Time /\ lastMint[k] \in Time
    BY <1>1, StateOps, NoneAssumption, SigningKeysAssumption DEF IInv, KeysTypeOK, OrNone, Key
  <2>1. DropExpired(issuer) = DropExpired(Loaded(rows)) /\ issuer.active = rows.active
    <3>1. \/ issuer = Loaded(rows)
          \/ issuer = Alone(Loaded(rows)) /\ Loaded(rows).dropAt # None /\ Loaded(rows).dropAt <= now
      <4>1. IssuerInv /\ fingerprint # None
        BY ZenonT(30), <1>1, <2>0 DEF IInv
      <4>. QED BY Zenon, <4>1 DEF IssuerInv
    <3>. QED BY ZenonT(30), <3>1, <2>0, DropOps, StateOps
  <2>2. k # rows.active
    BY Zenon, <2>0, <2>1 DEF Published
  <2>3. rows.previous = k /\ rows.active # None /\ rows.dropAt # None
    BY <2>0, <2>2, <1>1 DEF IInv, RowsInv
  <2>4. Loaded(rows) = rows
    BY Zenon, <2>0, <2>3 DEF Loaded
  <2>5. rotatedAt \in Time /\ rows.dropAt = rotatedAt + Overlap
    BY Zenon, <2>3, <1>1 DEF IInv, RowsInv, KeysTypeOK, OrNone
  <2>6. now < lastMint[k] + Ttl
    BY Zenon, <1>1 DEF IInv, MintInv
  <2>7. \A t, m, u \in Time : u < m + Ttl /\ ~(m > t + Ttl) => ~(t + Overlap <= u)
    BY OverlapIsNat, SigningKeysAssumption DEF Time
  <2>8. ~(rows.dropAt <= now)
    BY ZenonT(30), <2>0, <2>5, <2>6, <2>7
  <2>9. DropExpired(issuer).previous = k
    BY <2>0, <2>1, <2>3, <2>4, <2>8, DropOps
  <2>. QED BY Zenon, <2>0, <2>9 DEF Published
<1>2. IInv => GapHasCause
  BY <1>1
<1>. QED BY <1>2, KeysInductive, PTL

------------------------------------------------------------------------------
(* A state is a function from the rows to their values.                        *)
LEMMA StateIsRows == \A s \in State : s \in [Row -> RowValue]
<1>. TAKE s \in State
<1>1. OrNone(Key) \subseteq RowValue /\ OrNone(Deadline) \subseteq RowValue
  BY OverlapIsNat, SigningKeysAssumption DEF OrNone, Key, Deadline, RowValue
<1>2. s["active"] \in RowValue /\ s["previous"] \in RowValue /\ s["dropAt"] \in RowValue
  BY <1>1 DEF State
<1>3. s = [f \in Row |-> s[f]]
  BY Zenon DEF State, Row
<1>. QED BY <1>2, <1>3 DEF Row

(* A step of a rotation writes one row or leaves the rows alone.               *)
LEMMA RotatorWrites ==
    ASSUME KeysTypeOK, CliInv, NEW c \in Rotators, RotatorStep(c)
    PROVE  \/ UNCHANGED <<rows, had>>
           \/ \E f \in Row, v \in RowValue : SetRow(f, v)
<1>1. CASE RotateStart(c) \/ StoreKey(c) \/ RotateFails(c)
  BY <1>1 DEF RotateStart, StoreKey, RotateFails
<1>2. Key \subseteq RowValue /\ Deadline \subseteq RowValue
  BY OverlapIsNat, SigningKeysAssumption DEF OrNone, Key, Deadline, RowValue
<1>3. CASE WriteActive(c)
  BY <1>2, <1>3 DEF WriteActive, CliInv, Row
<1>4. CASE WritePrevious(c)
  BY <1>2, <1>4 DEF WritePrevious, CliInv, Row
<1>5. CASE WriteDropAt(c)
  <2>1. cli[c].at + Overlap \in Deadline
    BY <1>5, OverlapIsNat, SigningKeysAssumption DEF WriteDropAt, CliInv, Time, Deadline
  <2>. QED BY ZenonT(30), <2>1, <1>2, <1>5 DEF WriteDropAt, Row
<1>. QED BY <1>1, <1>3, <1>4, <1>5 DEF RotatorStep

(* The history of a row only grows and holds the row.                          *)
LEMMA HadStep ==
    ASSUME IInv, HadInv, [KeysNext]_keysVars
    PROVE  HadInv'
<1>0. /\ rows \in State /\ rows \in [Row -> RowValue] /\ had \in [Row -> SUBSET RowValue]
      /\ reader \in [Readers -> ReaderRec]
  BY ZenonT(30), StateIsRows DEF IInv, KeysTypeOK, ReaderRec
<1>1. CASE UNCHANGED keysVars
  BY <1>1 DEF keysVars, settings, manager, HadInv
<1>2. ASSUME NEW c \in Rotators, RotatorStep(c) PROVE HadInv'
  <2>1. reader' = reader
    BY Zenon, <1>2, GatewayKept
  <2>2. CASE UNCHANGED <<rows, had>>
    BY Zenon, <2>1, <2>2 DEF HadInv
  <2>3. ASSUME NEW f \in Row, NEW v \in RowValue, SetRow(f, v) PROVE HadInv'
    <3>1. \A g \in Row : had[g] \subseteq had'[g] /\ rows'[g] \in had'[g]
      BY Zenon, <2>3, <1>0 DEF SetRow, HadInv
    <3>. QED BY <3>1, <2>1, ZenonT(30) DEF HadInv, Row
  <2>. QED BY <2>2, <2>3, <1>2, RotatorWrites DEF IInv
<1>3. ASSUME NEW r \in Readers, ReaderStep(r) PROVE HadInv'
  <2>1. rows' = rows /\ had' = had
    BY <1>3, SettingsKept
  <2>2. rows.active \in had["active"] /\ rows.previous \in had["previous"] /\ rows.dropAt \in had["dropAt"]
    BY <1>0 DEF HadInv, Row
  <2>3. reader[r] \in ReaderRec /\ reader[r].got \in State
    BY <1>0 DEF ReaderRec
  <2>4. CASE ReadActive(r)
    BY <2>1, <2>2, <2>4, <1>0 DEF ReadActive, HadInv, Blank
  <2>5. CASE ReadPrevious(r)
    <3>1. reader' = [reader EXCEPT ![r] = [pc |-> "dropAt", got |-> [reader[r].got EXCEPT !.previous = rows.previous]]]
          /\ reader[r].pc = "previous"
      BY <2>5 DEF ReadPrevious
    <3>2. /\ [reader[r].got EXCEPT !.previous = rows.previous].active = reader[r].got.active
          /\ [reader[r].got EXCEPT !.previous = rows.previous].previous = rows.previous
      BY Zenon, <2>3 DEF State
    <3>. QED BY <3>1, <3>2, <2>1, <2>2, <1>0 DEF HadInv
  <2>6. CASE ReadDropAt(r)
    <3> DEFINE x == [reader[r].got EXCEPT !.dropAt = rows.dropAt]
    <3>1. /\ \/ reader' = [reader EXCEPT ![r] = IdleReader]
             \/ reader' = [reader EXCEPT ![r] = [pc |-> "apply", got |-> x]]
          /\ reader[r].pc = "dropAt"
      BY <2>6 DEF ReadDropAt
    <3>2. x.active = reader[r].got.active /\ x.previous = reader[r].got.previous /\ x.dropAt = rows.dropAt
      BY Zenon, <2>3 DEF State
    <3> HIDE DEF x
    <3>3. CASE reader' = [reader EXCEPT ![r] = IdleReader]
      BY Zenon, <3>3, <2>1, <1>0 DEF HadInv, IdleReader
    <3>4. CASE reader' = [reader EXCEPT ![r] = [pc |-> "apply", got |-> x]]
      <4>1. reader'[r].got = x /\ \A q \in Readers \ {r} : reader'[q] = reader[q]
        BY Zenon, <3>4, <1>0
      <4>2. reader[r].got.active \in had["active"] /\ reader[r].got.previous \in had["previous"]
        BY Zenon, <3>1 DEF HadInv
      <4>3. x.active \in had["active"] /\ x.previous \in had["previous"] /\ x.dropAt \in had["dropAt"]
        BY Zenon, <4>2, <3>2, <2>2
      <4>. QED BY Zenon, <4>1, <4>3, <2>1 DEF HadInv
    <3>. QED BY <3>1, <3>3, <3>4
  <2>7. CASE Apply(r) \/ ResolveFails(r)
    <3>1. reader' = [reader EXCEPT ![r] = IdleReader]
      BY ZenonT(30), <2>7 DEF Apply, ResolveFails
    <3>. QED BY Zenon, <3>1, <2>1, <1>0 DEF HadInv, IdleReader
  <2>. QED BY <1>3, <2>4, <2>5, <2>6, <2>7 DEF ReaderStep
<1>4. CASE TokenStep
  <2>1. rows' = rows /\ had' = had
    BY <1>4, SettingsKept
  <2>2. reader' = reader \/ reader' = [r \in Readers |-> IdleReader]
    BY <1>4 DEF TokenStep, GetTokenMint, GetTokenSchedule, BackgroundMint, Tick, Restart, manager
  <2>. QED BY <2>1, <2>2, <1>0 DEF HadInv, IdleReader
<1>. QED BY Zenon, <1>1, <1>2, <1>3, <1>4, NextGroups

(* The safety part of FollowsRows: TokenKeyManager's fingerprint is at every   *)
(* step a copy of values the three rows have held, and only Apply and a        *)
(* restart change it.                                                          *)
THEOREM RefinesRowCopy == KeysSpec => Copy!Init /\ [][Copy!Next]_(Copy!vars)
<1>1. KeysInit => HadInv /\ Copy!Init
  <2>. SUFFICES ASSUME KeysInit PROVE HadInv /\ Copy!Init
    BY Zenon
  <2>1. rows \in State
    BY InitIInv DEF IInv, KeysTypeOK
  <2>2. HadInv
    BY DEF KeysInit, HadInv, IdleReader
  <2>3. Copy!Init
    BY <2>1, StateIsRows DEF KeysInit, Copy!Init
  <2>. QED BY <2>2, <2>3
<1>2. IInv /\ HadInv /\ [KeysNext]_keysVars => HadInv'
  BY HadStep
<1>3. IInv /\ HadInv /\ [KeysNext]_keysVars => [Copy!Next]_(Copy!vars)
  <2>. SUFFICES ASSUME IInv, HadInv, [KeysNext]_keysVars PROVE [Copy!Next]_(Copy!vars)
    OBVIOUS
  <2>1. CASE UNCHANGED keysVars
    BY <2>1 DEF keysVars, settings, manager, Copy!vars
  <2>2. ASSUME NEW c \in Rotators, RotatorStep(c) PROVE [Copy!Next]_(Copy!vars)
    <3>1. fingerprint' = fingerprint
      BY <2>2, GatewayKept
    <3>2. CASE UNCHANGED <<rows, had>>
      BY <3>1, <3>2 DEF Copy!vars
    <3>3. ASSUME NEW f \in Row, NEW v \in RowValue, SetRow(f, v) PROVE Copy!Next
      BY <3>1, <3>3, Zenon DEF SetRow, Copy!Next, Copy!Write
    <3>. QED BY <3>2, <3>3, <2>2, RotatorWrites DEF IInv
  <2>3. ASSUME NEW r \in Readers, ReaderStep(r) PROVE [Copy!Next]_(Copy!vars)
    <3>1. rows' = rows /\ had' = had
      BY <2>3, SettingsKept
    <3>2. CASE Apply(r)
      <4>1. fingerprint' = reader[r].got /\ reader[r].pc = "apply"
        BY Zenon, <3>2 DEF Apply
      <4>2. reader[r].got \in State
        BY DEF IInv, KeysTypeOK
      <4>3. fingerprint' \in [Row -> RowValue]
        BY Zenon, <4>1, <4>2, StateIsRows
      <4>4. \A f \in Row : fingerprint'[f] \in had[f]
        BY <4>1, <4>2 DEF HadInv, Row, State
      <4>. QED BY <4>3, <4>4, <3>1 DEF Copy!Next, Copy!Take
    <3>3. CASE ~Apply(r)
      BY <3>1, <3>3, <2>3 DEF ReaderStep, ReadActive, ReadPrevious, ReadDropAt, ResolveFails, Copy!vars
    <3>. QED BY ZenonT(30), <3>2, <3>3
  <2>4. CASE TokenStep
    <3>1. rows' = rows /\ had' = had
      BY <2>4, SettingsKept
    <3>2. fingerprint' = fingerprint \/ fingerprint' = None
      BY <2>4 DEF TokenStep, GetTokenMint, GetTokenSchedule, BackgroundMint, Tick, Restart, manager
    <3>. QED BY <3>1, <3>2 DEF Copy!Next, Copy!Forget, Copy!vars
  <2>. QED BY <2>1, <2>2, <2>3, <2>4, NextGroups
<1>. QED BY <1>1, <1>2, <1>3, KeysInductive, PTL DEF KeysSpec
=============================================================================
