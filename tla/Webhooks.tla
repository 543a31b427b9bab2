------------------------------ MODULE Webhooks ------------------------------
(* The webhook dispatcher (stoa/webhooks.py): refusals from the live tail are  *)
(* debounced, one task per window; all sends share an hourly cap, and what the *)
(* cap suppresses is summed up in a notice when the hour rolls over or the     *)
(* dispatcher stops.  One debounce key; the other sends are the alerts of the  *)
(* health poller, of approvals and of drift.                                   *)
EXTENDS AuditTrail, Integers

CONSTANTS
    MaxTasks,       \* sends that may be under way at once
    Nothing,        \* no debounce entry
    CapMax          \* CAP_MAX_PER_WINDOW

Tasks == 1 .. MaxTasks
EntryT == [task : Tasks, count : Nat]

ASSUME WebhooksAssumption ==
    /\ CapMax \in Nat \ {0} /\ MaxTasks \in Nat
    /\ Nothing \notin EntryT

VARIABLES
    enabled,        \* the webhook is configured and enabled
    entry,          \* _debounce[key]: Nothing or [task, count]
    task,           \* sends: [pc, blocked]
    cap,            \* _CapState: [count, suppressed, old]
    unsaid,         \* ghost: a refusal no message has gone out after
    untold,         \* ghost: refusals to report less those the messages counted
    late,           \* ghost: a refusal came while its window's message went out
    unnoticed,      \* ghost: sends suppressed less those the notices counted
    rolled          \* ghost: a notice overlapped another, a stop or its own end

ghosts == <<unsaid, untold, late, unnoticed, rolled>>
wvars == <<enabled, entry, task, cap, ghosts>>

NoTask == [pc |-> "none", blocked |-> FALSE]
FreshCap == [count |-> 0, suppressed |-> 0, old |-> FALSE]

WebhooksInit ==
    /\ enabled = TRUE /\ entry = Nothing /\ cap = FreshCap
    /\ task = [t \in Tasks |-> NoTask]
    /\ unsaid = FALSE /\ untold = 0 /\ late = FALSE
    /\ unnoticed = 0 /\ rolled = FALSE

Doing(t, pc) == task[t].pc = pc
FirstFree == {t \in Tasks : Doing(t, "none") /\ \A u \in Tasks : u < t => ~Doing(u, "none")}

(* A setting is saved; the cap's hour goes by; a task's window goes by.        *)
ToggleWebhook == enabled' = ~enabled /\ UNCHANGED <<avars, entry, task, cap, ghosts>>

CapWindowEnds ==
    /\ ~cap.old /\ cap # FreshCap
    /\ cap' = [cap EXCEPT !.old = TRUE]
    /\ UNCHANGED <<avars, enabled, entry, task, ghosts>>

WindowEnds(t) ==
    /\ Doing(t, "sleep")
    /\ task' = [task EXCEPT ![t].pc = "ripe"]
    /\ UNCHANGED <<avars, enabled, entry, cap, ghosts>>

------------------------------------------------------------------------------
(* _loop and _handle_blocked: the next event of the tail.                      *)
EntryExists == entry # Nothing
WindowOpen == entry # Nothing /\ Doing(entry.task, "sleep")

(* A refusal outside an open window starts a window and the task that reports  *)
(* it.                                                                         *)
Debounce ==
    /\ unsaid' = TRUE
    /\ IF WindowOpen
       THEN entry' = [entry EXCEPT !.count = @ + 1] /\ UNCHANGED <<task, late>>
       ELSE \E t \in FirstFree :
            /\ entry' = [task |-> t, count |-> 1]
            /\ task' = [task EXCEPT ![t] = [pc |-> "sleep", blocked |-> TRUE]]
            /\ late' = (late \/ \E u \in Tasks : task[u].blocked)
    /\ untold' = IF late' THEN 0 ELSE untold + 1
    /\ UNCHANGED <<unnoticed, rolled>>

HandleEvent ==
    /\ tail # <<>>
    /\ tail' = Tail(tail)
    /\ IF Head(tail) \in blocked /\ enabled
       THEN Debounce
       ELSE UNCHANGED <<entry, task, ghosts>>
    /\ UNCHANGED <<logged, blocked, queue, batch, stored, lost, failures, enabled, cap>>

------------------------------------------------------------------------------
(* _send_if_under_cap from the check on, in the window c.                      *)
CheckCap(t, c, isBlocked) ==
    IF c.count >= CapMax
    THEN /\ cap' = [c EXCEPT !.suppressed = @ + 1]
         /\ unnoticed' = IF rolled' THEN 0 ELSE unnoticed + 1
         /\ task' = [task EXCEPT ![t] = NoTask]
         /\ entry' = IF isBlocked THEN Nothing ELSE entry
    ELSE /\ cap' = [c EXCEPT !.count = @ + 1]
         /\ task' = [task EXCEPT ![t] = [pc |-> "post", blocked |-> isBlocked]]
         /\ unnoticed' = IF rolled' THEN 0 ELSE unnoticed
         /\ UNCHANGED entry

Notices == {t \in Tasks : Doing(t, "notice")}

(* _send_if_under_cap: in a window that is over, what was suppressed is told   *)
(* first, and the new window begins after that.                                *)
SendIfUnderCap(t, isBlocked) ==
    /\ rolled' = (rolled \/ (cap.old /\ Notices # {}))
    /\ IF cap.old /\ cap.suppressed > 0
       THEN /\ task' = [task EXCEPT ![t] = [pc |-> "notice", blocked |-> isBlocked]]
            /\ unnoticed' = IF rolled' THEN 0 ELSE unnoticed - cap.suppressed
            /\ UNCHANGED <<cap, entry>>
       ELSE CheckCap(t, IF cap.old THEN FreshCap ELSE cap, isBlocked)

NoticeSent(t) ==
    /\ Doing(t, "notice")
    /\ UNCHANGED rolled
    /\ CheckCap(t, FreshCap, task[t].blocked)
    /\ UNCHANGED <<avars, enabled, unsaid, untold, late>>

(* _debounced_send: the count is the entry's, or one if another task has       *)
(* popped it.                                                                  *)
DebouncedSend(t) ==
    /\ Doing(t, "ripe")
    /\ untold' = IF late THEN 0 ELSE untold - (IF entry = Nothing THEN 1 ELSE entry.count)
    /\ unsaid' = FALSE
    /\ SendIfUnderCap(t, TRUE)
    /\ UNCHANGED <<avars, enabled, late>>

(* notify_unhealthy and notify_approval_pending: nothing if disabled.          *)
SendAlert ==
    IF enabled
    THEN \E t \in FirstFree : SendIfUnderCap(t, FALSE)
    ELSE UNCHANGED <<cap, entry, task, unnoticed, rolled>>

(* _post returns, delivered or not; a debounced send pops its key, whoever's   *)
(* entry is there by now.                                                      *)
PostDone(t) ==
    /\ Doing(t, "post")
    /\ task' = [task EXCEPT ![t] = NoTask]
    /\ entry' = IF task[t].blocked THEN Nothing ELSE entry
    /\ UNCHANGED <<avars, enabled, cap, ghosts>>

(* The poll or the request that awaits its alert goes away.                    *)
AlertCut(t) ==
    /\ task[t].pc \in {"notice", "post"} /\ ~task[t].blocked
    /\ task' = [task EXCEPT ![t] = NoTask]
    /\ rolled' = (rolled \/ Doing(t, "notice"))
    /\ unnoticed' = IF rolled' THEN 0 ELSE unnoticed
    /\ UNCHANGED <<avars, enabled, entry, cap, unsaid, untold, late>>

------------------------------------------------------------------------------
(* _flush_pending_suppression.                                                 *)
FlushSuppression ==
    /\ cap' = IF cap.suppressed > 0 THEN FreshCap ELSE cap
    /\ unnoticed' = IF rolled' THEN 0 ELSE IF enabled THEN unnoticed - cap.suppressed ELSE unnoticed

(* stop(): the debounced task is cancelled, the tally is flushed.              *)
StopDispatcher ==
    /\ Unsubscribe
    /\ task' = IF entry = Nothing THEN task ELSE [task EXCEPT ![entry.task] = NoTask]
    /\ entry' = Nothing
    /\ rolled' = (rolled \/ Notices # {} \/ \E t \in Tasks : task'[t].pc # "none")
    /\ FlushSuppression
    /\ UNCHANGED <<enabled, unsaid, untold, late>>

TaskWork(t) == DebouncedSend(t) \/ NoticeSent(t) \/ PostDone(t)

------------------------------------------------------------------------------
(* Silence is never mistaken for nothing having happened: a refusal that was   *)
(* to be reported has a message after it or a task that will send one; the     *)
(* counts of the messages, sent or suppressed, are exact unless a refusal came *)
(* while the message of its window went out, when one task may pop the entry   *)
(* of another; and the notices' counts are exact unless two were under way at  *)
(* once, one was cut off, the dispatcher stopped with a send under way or with *)
(* the webhook turned off (_handle_blocked, _debounced_send,                   *)
(* _send_if_under_cap, _flush_pending_suppression).                            *)
SilenceMeansNothing(ended) ==
    /\ ~ended /\ unsaid => \E t \in Tasks : task[t].blocked /\ task[t].pc \in {"sleep", "ripe"}
    /\ ~ended /\ ~late => untold = IF unsaid THEN entry.count ELSE 0
    /\ ~rolled /\ (ended => enabled) => unnoticed = IF Notices = {} THEN cap.suppressed ELSE 0
=============================================================================
