------------------------------ MODULE Pipeline ------------------------------
(* The data plane's request path (argus/pipeline.py) against the policy tables *)
(* it reads (db/repo.py): per-server calls, the control plane's Try-it calls   *)
(* (archon/api.py, test_call) and local evaluations (argus/policy_api.py).     *)
(*                                                                            *)
(* Each request is a coroutine; a step is the code between two awaits.  A      *)
(* database statement, or transaction, is one step.  audit.log never suspends  *)
(* (its queue is unbounded), so a row belongs to the step that writes it.      *)
(* Rate-limit and quota verdicts, credential resolution and the upstream are   *)
(* choices of the environment here; Metering has the first two.                *)
EXTENDS Policy

CONSTANTS
    Requests,       \* request identifiers
    Inputs,         \* what a client may send: [via, msg, bridged, tool]
    StorablePolicies, \* the policies an operator may store
    Args,           \* the arguments of a call
    OutcomeSpace,   \* what the patterns may say of them
    MaxWrites       \* bound on policy writes and deletions

(* policy_api evaluates calls and nothing else.                                *)
ASSUME PipelineAssumption ==
    /\ MaxWrites \in Nat
    /\ None \notin Inputs /\ None \notin {"ok", "refused"}
    /\ \A in \in Inputs : in.via = "evaluate" => in.msg = "call"

VARIABLES
    tables,         \* the rows of server_policies, tool_policies and param_rules
    present,        \* the server row exists, and is enabled
    writes,         \* policy writes and deletions so far
    req,            \* the coroutine of each request
    rows,           \* the audit rows each request has logged, oldest first
    usage,          \* usage_rollups increments made for each request
    sent,           \* what reached the upstream: "nothing", "original", "redacted"
    captured,       \* the last event in a Try-it call's audit subscription
    stored          \* ghost: the policies stored at some time during the read

pipelineVars == <<tables, present, writes, req, rows, usage, sent, captured, stored>>

Tools == {i.tool : i \in Inputs}

(* A server whose rows are gone reads as passthrough with no rule at all.      *)
NoRows ==
    [mode |-> "passthrough", allowed |-> {}, denied |-> {},
     param_rules |-> [t \in Tools |-> <<>>],
     dlp |-> <<>>, response_dlp |-> FALSE]

NoDecision == [blocked |-> FALSE, rule |-> None, redacted |-> {}]

Unstarted ==
    [pc |-> "idle", in |-> None, pol |-> NoRows, refused |-> FALSE,
     decision |-> NoDecision, pending |-> FALSE, lost |-> 0, listed |-> {}, answer |-> None]

PipelineInit ==
    /\ tables \in StorablePolicies
    /\ present = TRUE
    /\ writes = 0
    /\ req = [r \in Requests |-> Unstarted]
    /\ rows = [r \in Requests |-> <<>>]
    /\ usage = [r \in Requests |-> 0]
    /\ sent = [r \in Requests |-> "nothing"]
    /\ captured = [r \in Requests |-> None]
    /\ stored = [r \in Requests |-> {}]

------------------------------------------------------------------------------
(* The policy store.                                                           *)

Reading == {"policy_tools", "policy_params"}

NoteStored(t) ==
    stored' = [r \in Requests |->
        IF req[r].pc \in Reading THEN stored[r] \cup {t} ELSE stored[r]]

(* set_policy: one transaction over the three tables.                          *)
SetPolicy(p) ==
    /\ present /\ writes < MaxWrites
    /\ tables' = p
    /\ writes' = writes + 1
    /\ NoteStored(p)
    /\ UNCHANGED <<present, req, rows, usage, sent, captured>>

(* delete: the cascade takes the policy rows with the server row.              *)
CascadeDelete ==
    /\ present /\ writes < MaxWrites
    /\ present' = FALSE
    /\ tables' = NoRows
    /\ writes' = writes + 1
    /\ NoteStored(NoRows)
    /\ UNCHANGED <<req, rows, usage, sent, captured>>

store == <<tables, present, writes>>

------------------------------------------------------------------------------
(* Bookkeeping shared by the handlers.                                         *)

Awaits(r, pc) == req[r].pc = pc
In(r) == req[r].in
Origin(r) ==
    CASE In(r).via = "tryit" -> "test" [] In(r).via = "evaluate" -> "local" [] OTHER -> None

Row(decision, origin) == [decision |-> decision, origin |-> origin]

(* AuditLogger.log and _broadcast: the rows join the request's own, and every  *)
(* subscription still open sees the last of them.                              *)
Log(r, new) ==
    /\ rows' = [rows EXCEPT ![r] = @ \o new]
    /\ captured' =
        IF new = <<>> THEN captured
        ELSE [q \in Requests |->
                IF req[q].pc \notin {"idle", "done"} /\ In(q).via = "tryit"
                THEN [from |-> r, decision |-> new[Len(new)].decision]
                ELSE captured[q]]

Proceed(r, pc) == req' = [req EXCEPT ![r].pc = pc]
Finish(r, answer) == req' = [req EXCEPT ![r].pc = "done", ![r].answer = answer]

Quiet == UNCHANGED <<rows, captured>>

------------------------------------------------------------------------------
(* handle: resolve the server, authenticate, read the body.                    *)

(* A request arrives.  test_call looks the server up, subscribes to the audit  *)
(* tail and calls handle; a local evaluation authenticates first.              *)
Arrive(r, in) ==
    /\ Awaits(r, "idle")
    /\ in.via = "tryit" => present
    /\ req' = [req EXCEPT ![r].in = in,
                          ![r].pc = IF in.via = "evaluate" THEN "auth" ELSE "resolve"]
    /\ Quiet /\ UNCHANGED <<store, usage, sent, stored>>

(* _resolve_server: an unknown or disabled server is a RoutingError, which     *)
(* handle turns into an ERROR row; evaluate_policy answers 404 without one.    *)
ResolveServer(r) ==
    /\ Awaits(r, "resolve")
    /\ IF present
       THEN /\ Proceed(r, IF In(r).via = "direct" THEN "auth"
                       ELSE IF In(r).via = "evaluate" THEN "policy_mode" ELSE "process")
            /\ Quiet
       ELSE /\ Finish(r, "error")
            /\ Log(r, IF In(r).via = "evaluate" THEN <<>> ELSE <<Row("ERROR", Origin(r))>>)
    /\ UNCHANGED <<store, usage, sent, stored>>

(* _authenticate and the scope checks; verify_evaluation_key.                  *)
Authenticate(r, ok) ==
    /\ Awaits(r, "auth")
    /\ IF ok
       THEN /\ Proceed(r, IF In(r).via = "evaluate" THEN "resolve" ELSE "process")
            /\ Quiet
       ELSE /\ Finish(r, "error")
            /\ Log(r, IF In(r).via = "evaluate" THEN <<>> ELSE <<Row("ERROR", None)>>)
    /\ UNCHANGED <<store, usage, sent, stored>>

------------------------------------------------------------------------------
(* _process: what the message is decides what happens to it.                   *)

(* The whole answer in one step: a body over the limit (RoutingError, ERROR    *)
(* row), a body that is not one message (_refuse, BLOCKED row), headers that   *)
(* disagree with the body (ERROR row), server/discover (no row), tools/call    *)
(* without a name (_refuse, BLOCKED row).                                      *)
AnswerAtOnce(r) ==
    /\ Awaits(r, "process")
    /\ In(r).msg \in {"oversize", "malformed", "mismatch", "discover", "nameless"}
    /\ Finish(r, IF In(r).msg = "discover" THEN "ok" ELSE "error")
    /\ Log(r, CASE In(r).msg = "discover" -> <<>>
                [] In(r).msg = "oversize" -> <<Row("ERROR", Origin(r))>>
                [] In(r).msg = "mismatch" -> <<Row("ERROR", None)>>
                [] In(r).msg \in {"malformed", "nameless"} -> <<Row("BLOCKED", Origin(r))>>)
    /\ UNCHANGED <<store, usage, sent, stored>>

BeginCall(r) ==
    /\ Awaits(r, "process") /\ In(r).msg = "call"
    /\ Proceed(r, "policy_mode")
    /\ Quiet /\ UNCHANGED <<store, usage, sent, stored>>

(* tools/list needs the credential first, any other method gets its            *)
(* PASSTHROUGH row first, a request without a body gets none; all of them go   *)
(* on to _resolve_credential.                                                  *)
BeginOther(r) ==
    /\ Awaits(r, "process") /\ In(r).msg \in {"list", "other", "bodiless"}
    /\ Proceed(r, "credential")
    /\ Log(r, IF In(r).msg # "other" THEN <<>>
              ELSE <<Row("PASSTHROUGH", IF In(r).bridged THEN Origin(r) ELSE None)>>)
    /\ UNCHANGED <<store, usage, sent, stored>>

------------------------------------------------------------------------------
(* get_policies_for: three statements on one connection, outside any           *)
(* transaction, so each sees what is committed when it runs.                   *)

ReadServerPolicies(r) ==
    /\ Awaits(r, "policy_mode")
    /\ req' = [req EXCEPT ![r].pc = "policy_tools",
                          ![r].pol = [NoRows EXCEPT !.mode = tables.mode, !.dlp = tables.dlp,
                                                    !.response_dlp = tables.response_dlp]]
    /\ stored' = [stored EXCEPT ![r] = {tables}]
    /\ Quiet /\ UNCHANGED <<store, usage, sent>>

(* The rows split by their action column.                                      *)
SplitToolRowsAllowOnly(pol) == [pol EXCEPT !.allowed = tables.allowed]
SplitToolRows(pol) == [pol EXCEPT !.allowed = tables.allowed, !.denied = tables.denied]

ReadToolPolicies(r) ==
    /\ Awaits(r, "policy_tools")
    /\ req' = [req EXCEPT ![r].pc = "policy_params", ![r].pol = SplitToolRows(req[r].pol)]
    /\ Quiet /\ UNCHANGED <<store, usage, sent, stored>>

ReadParamRules(r) ==
    /\ Awaits(r, "policy_params")
    /\ req' = [req EXCEPT ![r].pc = IF In(r).msg = "list" THEN "catalog" ELSE "rate",
                          ![r].pol.param_rules = tables.param_rules]
    /\ Quiet /\ UNCHANGED <<store, usage, sent, stored>>

------------------------------------------------------------------------------
(* _enforce: rate limit, quota, evaluate, audit, record_usage.                 *)

Refuse(r, origin) ==
    /\ req' = [req EXCEPT ![r].pc = "usage", ![r].refused = TRUE]
    /\ Log(r, <<Row("BLOCKED", origin)>>)

(* A refusal by _check_rate_limits or _check_quota is logged without the       *)
(* request's origin.  evaluate_policy runs both checks before it looks at      *)
(* either verdict.                                                             *)
CheckRateLimits(r, ok) ==
    /\ Awaits(r, "rate")
    /\ IF ok \/ In(r).via = "evaluate"
       THEN req' = [req EXCEPT ![r].pc = "quota", ![r].refused = ~ok] /\ Quiet
       ELSE Refuse(r, None)
    /\ UNCHANGED <<store, usage, sent, stored>>

(* A Try-it call carries no key, so it has no quota to exceed.                 *)
CheckQuota(r, ok) ==
    /\ Awaits(r, "quota")
    /\ In(r).via = "tryit" => ok
    /\ IF ok /\ ~req[r].refused
       THEN Proceed(r, "evaluate") /\ Quiet
       ELSE Refuse(r, IF In(r).via = "evaluate" THEN Origin(r) ELSE None)
    /\ UNCHANGED <<store, usage, sent, stored>>

(* The decision, and its row: logged now, or kept for the end of the request   *)
(* when the response will be scanned.                                          *)
EvaluateCall(r, out) ==
    LET d == Evaluate(In(r).tool, Args, req[r].pol, out)
        deferred == ~d.blocked /\ req[r].pol.response_dlp /\ In(r).via # "evaluate"
    IN
    /\ Awaits(r, "evaluate")
    /\ req' = [req EXCEPT ![r].pc = "usage", ![r].decision = d, ![r].refused = d.blocked,
                          ![r].pending = deferred]
    /\ Log(r, IF deferred THEN <<>>
              ELSE <<Row(IF d.blocked THEN "BLOCKED" ELSE "ALLOWED", Origin(r))>>)
    /\ UNCHANGED <<store, usage, sent, stored>>

(* After the rollup a refusal is answered, an evaluation is reported, and any  *)
(* other call goes on to the upstream.                                         *)
AnswerAfterUsageNever(r) == None
AnswerAfterUsage(r) ==
    IF req[r].refused THEN "refused" ELSE IF In(r).via = "evaluate" THEN "ok" ELSE None

IncrementIfForwarded(r, ok) == IF ok /\ ~req[r].refused THEN 1 ELSE 0
IncrementDespiteFailure(r, ok) == 1
Increment(r, ok) == IF ok THEN 1 ELSE 0

(* record_usage: the upsert, or its failure, which is swallowed.               *)
RecordUsage(r, ok) ==
    /\ Awaits(r, "usage")
    /\ usage' = [usage EXCEPT ![r] = @ + Increment(r, ok)]
    /\ req' = [req EXCEPT ![r].lost = IF ok THEN @ ELSE @ + 1,
                          ![r].pc = IF AnswerAfterUsage(r) = None THEN "credential" ELSE "done",
                          ![r].answer = AnswerAfterUsage(r)]
    /\ Quiet /\ UNCHANGED <<store, sent, stored>>

------------------------------------------------------------------------------
(* From the credential to the answer.  _process and _handle_bridged wrap this  *)
(* part in a finally that writes the deferred ALLOWED row, so every way out of *)
(* it logs that row.                                                           *)

DeferredRowLost(r) == <<>>
DeferredRow(r) == IF req[r].pending THEN <<Row("ALLOWED", Origin(r))>> ELSE <<>>

(* A failure inside the part: the raw path raises to handle, which logs after  *)
(* the finally; the bridged path logs before it.                               *)
ErrorRows(r) ==
    IF In(r).bridged THEN <<Row("ERROR", Origin(r))>> \o DeferredRow(r)
    ELSE DeferredRow(r) \o <<Row("ERROR", Origin(r))>>

(* _resolve_credential: on failure an ERROR row, and no forwarding.            *)
ResolveCredential(r, ok) ==
    /\ Awaits(r, "credential")
    /\ IF ok
       THEN Proceed(r, IF In(r).msg = "list" THEN "policy_mode" ELSE "forward") /\ Quiet
       ELSE /\ Finish(r, "error")
            /\ Log(r, <<Row("ERROR", IF In(r).msg = "list" THEN None ELSE Origin(r))>>
                      \o DeferredRow(r))
    /\ UNCHANGED <<store, usage, sent, stored>>

(* The arguments that go out are the redacted ones when DLP redacted any.      *)
OutgoingBody(r) == IF req[r].decision.redacted # {} THEN "redacted" ELSE "original"

(* _forward and bridge_call: the request leaves for the upstream.  Before it   *)
(* does the raw path may find the extra path invalid (RoutingError), and the   *)
(* bridge may refuse the method or fail its handshake (BridgeError).           *)
Forward(r) ==
    /\ Awaits(r, "forward")
    /\ sent' = [sent EXCEPT ![r] = OutgoingBody(r)]
    /\ Proceed(r, "upstream")
    /\ Quiet /\ UNCHANGED <<store, usage, stored>>

ForwardFails(r) ==
    /\ Awaits(r, "forward")
    /\ Finish(r, "error")
    /\ Log(r, ErrorRows(r))
    /\ UNCHANGED <<store, usage, sent, stored>>

(* The upstream answers: streamed as it is, or on to the response scan when    *)
(* the policy the call was decided by asks for one.                            *)
ScansResponseIfRaw(r) == In(r).msg = "call" /\ req[r].pol.response_dlp /\ ~In(r).bridged
ScansResponse(r) == In(r).msg = "call" /\ req[r].pol.response_dlp
UpstreamAnswers(r) ==
    /\ Awaits(r, "upstream")
    /\ IF ScansResponse(r) THEN Proceed(r, "scan") ELSE Finish(r, "unscanned")
    /\ Quiet /\ UNCHANGED <<store, usage, sent, stored>>

(* httpx.HTTPError, or BridgeError.                                            *)
UpstreamFails(r) ==
    /\ Awaits(r, "upstream")
    /\ Finish(r, "error")
    /\ Log(r, ErrorRows(r))
    /\ UNCHANGED <<store, usage, sent, stored>>

(* _scan_passthrough_response and _scan_message: the rebuilt response, or the  *)
(* marker that stands for one that could not be scanned.                       *)
ScanResponse(r, ok) ==
    /\ Awaits(r, "scan")
    /\ Finish(r, IF ok THEN "scanned" ELSE "marker")
    /\ Log(r, DeferredRow(r))
    /\ UNCHANGED <<store, usage, sent, stored>>

(* _handle_tools_list after its policy read: the catalog, filtered.            *)
ListTools(r) ==
    /\ Awaits(r, "catalog")
    /\ req' = [req EXCEPT ![r].pc = "done", ![r].answer = "ok",
                          ![r].listed = {t \in Tools : ToolIsVisible(t, req[r].pol)}]
    /\ Log(r, <<Row("PASSTHROUGH", None)>>)
    /\ UNCHANGED <<store, usage, sent, stored>>

(* The coroutine is cancelled at an await (shutdown, a client that is gone),   *)
(* or what it awaits raises something nobody catches (the database is away).   *)
(* Only the finally around the last part still runs.                           *)
Abandon(r) ==
    /\ req[r].pc \notin {"idle", "done"}
    /\ Finish(r, "abandoned")
    /\ Log(r, IF req[r].pc \in {"credential", "forward", "upstream", "scan"}
              THEN DeferredRow(r) ELSE <<>>)
    /\ UNCHANGED <<store, usage, sent, stored>>

------------------------------------------------------------------------------
Step(r) ==
    \/ ResolveServer(r) \/ \E ok \in BOOLEAN : Authenticate(r, ok)
    \/ AnswerAtOnce(r) \/ BeginCall(r) \/ BeginOther(r)
    \/ ReadServerPolicies(r) \/ ReadToolPolicies(r) \/ ReadParamRules(r)
    \/ \E ok \in BOOLEAN : CheckRateLimits(r, ok)
    \/ \E ok \in BOOLEAN : CheckQuota(r, ok)
    \/ \E out \in OutcomeSpace : EvaluateCall(r, out)
    \/ \E ok \in BOOLEAN : RecordUsage(r, ok)
    \/ \E ok \in BOOLEAN : ResolveCredential(r, ok)
    \/ Forward(r) \/ ForwardFails(r)
    \/ UpstreamAnswers(r) \/ UpstreamFails(r)
    \/ \E ok \in BOOLEAN : ScanResponse(r, ok)
    \/ ListTools(r)

PipelineNext ==
    \/ \E p \in StorablePolicies : SetPolicy(p)
    \/ CascadeDelete
    \/ \E r \in Requests, in \in Inputs : Arrive(r, in)
    \/ \E r \in Requests : Step(r) \/ Abandon(r)

PipelineSpec == PipelineInit /\ [][PipelineNext]_pipelineVars

------------------------------------------------------------------------------
AwaitPoints == {"idle", "auth", "resolve", "process", "policy_mode", "policy_tools", "policy_params",
        "rate", "quota", "evaluate", "usage", "credential", "forward", "upstream", "scan",
        "catalog", "done"}

Answers == {None, "ok", "error", "refused", "unscanned", "scanned", "marker", "abandoned"}

DecidedAt(log) == {i \in DOMAIN log : log[i].decision \in {"ALLOWED", "BLOCKED"}}
Done(r) == Awaits(r, "done")
IsCall(r) == req[r].in # None /\ In(r).msg = "call"

(* The shape of the state: every coroutine stands at one of its awaits, and    *)
(* the rows, counters and bodies are what the handlers write.                  *)
PipelineTypeOK ==
    /\ tables \in StorablePolicies \cup {NoRows}
    /\ present \in BOOLEAN
    /\ writes \in 0..MaxWrites
    /\ \A r \in Requests :
        /\ req[r].pc \in AwaitPoints
        /\ req[r].in \in Inputs \cup {None}
        /\ req[r].answer \in Answers
        /\ usage[r] + req[r].lost \in 0..1
        /\ sent[r] \in {"nothing", "original", "redacted"}
        /\ stored[r] \subseteq StorablePolicies \cup {NoRows}
        /\ Len(rows[r]) <= 2

(* Every call that was answered on its merits, and every call that reached the *)
(* upstream however it ended, has exactly one decision row, and that row says  *)
(* what happened: ALLOWED iff the call was let through.  The deferred row of a *)
(* scanned response is the hard case: it survives credential and upstream      *)
(* failures and a cancellation (_log_deferred_allowed in its finally).         *)
OneTrueDecisionRow ==
    \A r \in Requests :
        Done(r) /\ IsCall(r) /\ (sent[r] # "nothing" \/ req[r].answer \notin {"error", "abandoned"})
        => \E i \in DOMAIN rows[r] :
               /\ DecidedAt(rows[r]) = {i}
               /\ rows[r][i].decision = IF req[r].refused THEN "BLOCKED" ELSE "ALLOWED"

(* A call with a BLOCKED row never reaches the upstream, before or after the   *)
(* row; a call whose arguments were redacted reaches it only in that form.     *)
BlockedNeverSent ==
    \A r \in Requests :
        /\ (\E i \in DOMAIN rows[r] : rows[r][i].decision = "BLOCKED") => sent[r] = "nothing"
        /\ req[r].decision.redacted # {} => sent[r] # "original"

(* What every version of the policy stored during the read agrees on holds of  *)
(* the request, although get_policies_for may combine rows of two versions:    *)
(* a tool that all of them refuse in one mode is neither called nor listed.    *)
Refuses(p, t) == p.mode # "passthrough" /\ ~ToolIsVisible(t, p)
AgreedRefusalHolds ==
    \A r \in Requests : \A t \in Tools :
        /\ stored[r] # {}
        /\ \E m \in Modes : \A p \in stored[r] : p.mode = m /\ Refuses(p, t)
        => /\ t \notin req[r].listed
           /\ IsCall(r) /\ In(r).tool = t => sent[r] = "nothing"

(* When every version stored during the read asks for the response to be       *)
(* scanned, the caller never gets a response that was not.                     *)
AgreedScanHolds ==
    \A r \in Requests :
        Done(r) /\ IsCall(r) /\ stored[r] # {} /\ (\A p \in stored[r] : p.response_dlp)
        => req[r].answer # "unscanned"

(* A finished call with a name has as many usage increments, made or lost to   *)
(* the database, as decision rows, none or one: the rollup follows the audit trail through  *)
(* refusals, evaluations and upstream failures (record_usage on every path).   *)
UsageFollowsRows ==
    \A r \in Requests :
        Done(r) /\ IsCall(r) /\ req[r].answer # "abandoned"
        => \/ usage[r] + req[r].lost = 0 /\ DecidedAt(rows[r]) = {}
           \/ usage[r] + req[r].lost = 1 /\ \E i \in DOMAIN rows[r] : DecidedAt(rows[r]) = {i}

------------------------------------------------------------------------------
(* Two statements of the repository that the code does not keep.               *)

(* "a concurrent reader NEVER observes a partially-applied policy"             *)
(* (db/repo.py, set_policy): the policy a request decides by is one that was   *)
(* stored, whole, at some time during its read.                                *)
PolicyIsOneStored ==
    \A r \in Requests :
        req[r].pc \in {"rate", "quota", "evaluate", "catalog"} => req[r].pol \in stored[r]

(* "The audit event for THIS call was broadcast synchronously inside handle()" *)
(* and "nothing else will arrive" (archon/api.py, test_call): the event the    *)
(* Try-it answer is built from is the call's own.                              *)
TryItReportsItsOwn ==
    \A r \in Requests :
        captured[r] # None /\ Done(r) /\ req[r].answer # "abandoned" => captured[r].from = r
=============================================================================
