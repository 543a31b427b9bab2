--------------------------- MODULE PipelineProofs ---------------------------
(* The safety properties of the request path, for any number of concurrent     *)
(* requests, any inputs, any storable policies and any number of policy writes *)
(* between the awaits.  PipelineInv says, for each await a coroutine may stand *)
(* at, what its rows, its usage, the body it has sent and the policy it has    *)
(* read so far may be.                                                         *)
EXTENDS Pipeline, TLAPS

(* A leaf that names no prover is tried with SMT, with Zenon, and with SMT     *)
(* once more and for longer.                                                   *)
USE SMT, Zenon, SMTT(30)

(* What the pipeline's variables hold.  The policy a request has read is put   *)
(* together from stored ones.                                                  *)
Stored == StorablePolicies \cup {NoRows}
ReadPolicies ==
    [mode : {p.mode : p \in Stored}, allowed : {p.allowed : p \in Stored},
     denied : {p.denied : p \in Stored}, param_rules : {p.param_rules : p \in Stored},
     dlp : {p.dlp : p \in Stored}, response_dlp : {p.response_dlp : p \in Stored}]
Violations ==
    {None, "allowlist", "denylist", "dlp", "denied_param", "max_length", "block_pattern",
     "block_pattern_undetermined", "allow_pattern", "allow_pattern_undetermined", "max_value", "min_value"}
Verdicts == [blocked : BOOLEAN, rule : Violations, redacted : SUBSET DOMAIN Args]
Coroutines ==
    [pc : AwaitPoints, in : Inputs \cup {None}, pol : ReadPolicies, refused : BOOLEAN, decision : Verdicts,
     pending : BOOLEAN, lost : Nat, listed : SUBSET Tools, answer : Answers]
LogRows == [decision : {"ALLOWED", "BLOCKED", "ERROR", "PASSTHROUGH"}, origin : {None, "test", "local"}]
Bodies == {"nothing", "original", "redacted"}
Tabled ==
    /\ tables \in Stored /\ present \in BOOLEAN /\ writes \in 0..MaxWrites
    /\ req \in [Requests -> Coroutines] /\ rows \in [Requests -> Seq(LogRows)]
    /\ usage \in [Requests -> Nat] /\ sent \in [Requests -> Bodies]
    /\ stored \in [Requests -> SUBSET Stored]

(* The decision rows of a log: none, or one that says d.                       *)
Undecided(log) == DecidedAt(log) = {}
Decided(log, d) == \E i \in DOMAIN log : DecidedAt(log) = {i} /\ log[i].decision = d

(* The policy of a coroutine takes mode and response_dlp from one stored       *)
(* policy, and its tool rows from one.                                         *)
ModeRead(pol, seen) == \E p \in seen : pol.mode = p.mode /\ pol.response_dlp = p.response_dlp
ToolsRead(pol, seen) == \E p \in seen : pol.allowed = p.allowed /\ pol.denied = p.denied

(* What holds of a coroutine x with its log, usage u, body b, and the policies *)
(* seen, while the tables are now, at each of its awaits.                      *)
Entering == {"idle", "auth", "resolve", "process"}
Deciding == {"policy_mode", "policy_tools", "policy_params", "rate", "quota", "evaluate", "catalog"}
Sending == {"credential", "forward", "upstream", "scan"}

Untouched(x, log, u, b) ==
    /\ log = <<>> /\ u = 0 /\ x.lost = 0 /\ b = "nothing"
    /\ ~x.pending /\ x.decision.redacted = {} /\ x.listed = {}

(* The tool rules and the scan a call was let through under.                   *)
LetThrough(x, seen) ==
    ModeRead(x.pol, seen) /\ ToolsRead(x.pol, seen) /\ ToolIsVisible(x.in.tool, x.pol)

AtUsage(x, log, u, b, seen) ==
    /\ x.in.msg = "call" /\ Len(log) <= 1 /\ u = 0 /\ x.lost = 0 /\ b = "nothing" /\ x.listed = {}
    /\ x.pending => x.pol.response_dlp
    /\ x.refused => ~x.pending /\ Decided(log, "BLOCKED") /\ x.decision.redacted = {}
    /\ ~x.refused => LetThrough(x, seen)
    /\ ~x.refused /\ x.pending => log = <<>> /\ x.in.via # "evaluate"
    /\ ~x.refused /\ ~x.pending => Decided(log, "ALLOWED")

AtSending(x, log, u, b, seen) ==
    /\ Len(log) <= 1 /\ x.listed = {} /\ (x.pc = "scan" => x.in.msg = "call")
    /\ x.pending => x.pol.response_dlp
    /\ x.in.msg \in {"call", "list", "other", "bodiless"} /\ (x.in.msg = "list" => x.pc = "credential")
    /\ b = IF x.pc \in {"credential", "forward"} THEN "nothing"
           ELSE IF x.decision.redacted # {} THEN "redacted" ELSE "original"
    /\ x.in.msg = "call" =>
        /\ ~x.refused /\ u + x.lost = 1 /\ LetThrough(x, seen)
        /\ IF x.pending THEN log = <<>> ELSE Decided(log, "ALLOWED")
    /\ x.in.msg # "call" => ~x.pending /\ u = 0 /\ x.lost = 0 /\ Undecided(log) /\ x.decision.redacted = {}
    /\ x.in.msg = "list" => log = <<>>

AtDone(x, log, u, b, seen) ==
    /\ Len(log) <= 2 /\ u + x.lost \in 0..1
    /\ (\E i \in DOMAIN log : log[i].decision = "BLOCKED") => b = "nothing"
    /\ x.decision.redacted # {} => b # "original"
    /\ x.in.msg = "call" =>
        /\ b # "nothing" \/ x.answer \notin {"error", "abandoned"}
               => Decided(log, IF x.refused THEN "BLOCKED" ELSE "ALLOWED")
        /\ x.answer # "abandoned" =>
            \/ u + x.lost = 0 /\ Undecided(log)
            \/ u + x.lost = 1 /\ Decided(log, IF x.refused THEN "BLOCKED" ELSE "ALLOWED")
        /\ b # "nothing" => LetThrough(x, seen)
        /\ x.answer = "unscanned" => ~x.pol.response_dlp /\ ModeRead(x.pol, seen)
    /\ \A t \in x.listed :
        ModeRead(x.pol, seen) /\ ToolsRead(x.pol, seen) /\ ToolIsVisible(t, x.pol)

CoroutineOK(x, log, u, b, seen, now) ==
    /\ x.pc # "idle" => x.in \in Inputs
    /\ x.pc \in Entering \cup Deciding => Untouched(x, log, u, b)
    /\ x.pc \in Deciding => x.in.msg \in {"call", "list"}
    /\ x.pc \in {"rate", "quota", "evaluate"} => x.in.msg = "call"
    /\ x.pc = "catalog" => x.in.msg = "list"
    /\ x.pc \in Reading => now \in seen
    /\ x.pc \in Deciding \ {"policy_mode"} => ModeRead(x.pol, seen)
    /\ x.pc \in Deciding \ {"policy_mode", "policy_tools"} => ToolsRead(x.pol, seen)
    /\ x.pc = "usage" => AtUsage(x, log, u, b, seen)
    /\ x.pc \in Sending => AtSending(x, log, u, b, seen)
    /\ x.pc = "done" => AtDone(x, log, u, b, seen)

PipelineInv ==
    /\ Tabled
    /\ \A r \in Requests : CoroutineOK(req[r], rows[r], usage[r], sent[r], stored[r], tables)

------------------------------------------------------------------------------
(* evaluate: its verdict is a decision; a refusal redacts nothing, and a call  *)
(* is let through only for a tool that tool_is_visible would list.             *)
LEMMA EvaluateFacts ==
    ASSUME NEW t, NEW p, NEW out
    PROVE  LET d == Evaluate(t, Args, p, out)
           IN  /\ d \in Verdicts
               /\ d.blocked => d.redacted = {}
               /\ ~d.blocked => ToolIsVisible(t, p)
<1>1. ASSUME NEW rules, NEW i PROVE ParamViolation(rules, Args, out, i) \in Violations
  <2>1. ASSUME NEW rule, NEW v PROVE OutOfRange(rule, v) \in Violations
    BY Zenon DEF OutOfRange, Violations
  <2>2. ASSUME NEW rule, NEW v, NEW o PROVE CheckParam(rule, v, o) \in Violations
    BY <2>1, Zenon DEF CheckParam, Violations
  <2> QED BY <2>2, Zenon DEF ParamViolation, Violations
<1>2. ASSUME NEW a PROVE DlpHits(Args, p, out, a) \in SUBSET DOMAIN Args
  BY Zenon DEF DlpHits
<1>3. ASSUME NEW v \in Violations
      PROVE Block(v) \in Verdicts /\ Block(v).blocked /\ Block(v).redacted = {}
  BY DEF Block, Verdicts
<1>4. ASSUME NEW S \in SUBSET DOMAIN Args PROVE Redact(S) \in Verdicts
  BY DEF Redact, Verdicts, Violations
<1>5. Allow \in Verdicts BY DEF Allow, Verdicts, Violations
<1>6. \A S : ~Redact(S).blocked BY DEF Redact
<1>7. ~Allow.blocked BY DEF Allow
<1>8. {"allowlist", "denylist", "dlp"} \subseteq Violations BY DEF Violations
<1>9. CASE p.mode = "allowlist" /\ t \notin p.allowed
  BY <1>3, <1>8, <1>9, Zenon DEF Evaluate
<1>10. CASE ~(p.mode = "allowlist" /\ t \notin p.allowed) /\ p.mode = "denylist" /\ t \in p.denied
  BY <1>3, <1>8, <1>10, Zenon DEF Evaluate
<1>11. CASE ~(p.mode = "allowlist" /\ t \notin p.allowed) /\ ~(p.mode = "denylist" /\ t \in p.denied)
  <2>1. ToolIsVisible(t, p) BY <1>11, Zenon DEF ToolIsVisible
  <2>2. \/ \E v \in Violations : Evaluate(t, Args, p, out) = Block(v)
        \/ \E S \in SUBSET DOMAIN Args : Evaluate(t, Args, p, out) = Redact(S)
        \/ Evaluate(t, Args, p, out) = Allow
    BY <1>1, <1>2, <1>8, <1>11, Zenon DEF Evaluate
  <2> QED BY <2>1, <2>2, <1>3, <1>4, <1>5, <1>6, <1>7, Zenon
<1> QED BY <1>9, <1>10, <1>11, Zenon

------------------------------------------------------------------------------
(* AuditLogger.log: what a row more does to the decisions of a log.            *)
LEMMA LogGrows ==
    ASSUME NEW log \in Seq(LogRows), NEW row \in LogRows
    PROVE  /\ log \o <<row>> \in Seq(LogRows)
           /\ Len(log \o <<row>>) = Len(log) + 1
           /\ row.decision \notin {"ALLOWED", "BLOCKED"} => DecidedAt(log \o <<row>>) = DecidedAt(log)
           /\ row.decision \in {"ALLOWED", "BLOCKED"} =>
                DecidedAt(log \o <<row>>) = DecidedAt(log) \cup {Len(log) + 1}
           /\ \A i \in DOMAIN log : i \in DOMAIN (log \o <<row>>) /\ (log \o <<row>>)[i] = log[i]
           /\ (log \o <<row>>)[Len(log) + 1] = row
<1> DEFINE more == log \o <<row>>
<1>1. more \in Seq(LogRows) /\ Len(more) = Len(log) + 1 /\ DOMAIN log = 1..Len(log)
      /\ DOMAIN more = 1..(Len(log) + 1) /\ Len(log) \in Nat
  OBVIOUS
<1>2. \A i \in 1..Len(log) : more[i] = log[i]
  OBVIOUS
<1>3. more[Len(log) + 1] = row
  OBVIOUS
<1> HIDE DEF more
<1>4. \A i : i \in DOMAIN more <=> i \in DOMAIN log \/ i = Len(log) + 1
  BY <1>1
<1>5. ASSUME row.decision \notin {"ALLOWED", "BLOCKED"} PROVE DecidedAt(more) = DecidedAt(log)
  BY <1>1, <1>2, <1>3, <1>4, <1>5 DEF DecidedAt
<1>6. ASSUME row.decision \in {"ALLOWED", "BLOCKED"} PROVE DecidedAt(more) = DecidedAt(log) \cup {Len(log) + 1}
  BY <1>1, <1>2, <1>3, <1>4, <1>6 DEF DecidedAt
<1> QED BY <1>1, <1>2, <1>3, <1>4, <1>5, <1>6 DEF more

(* A row more: a log stays undecided, keeps its decision, or gets its one.     *)
LEMMA LogDecisions ==
    ASSUME NEW log \in Seq(LogRows), NEW row \in LogRows
    PROVE  /\ row.decision \notin {"ALLOWED", "BLOCKED"} /\ Undecided(log) => Undecided(log \o <<row>>)
           /\ \A d : row.decision \notin {"ALLOWED", "BLOCKED"} /\ Decided(log, d) => Decided(log \o <<row>>, d)
           /\ row.decision \in {"ALLOWED", "BLOCKED"} /\ Undecided(log) => Decided(log \o <<row>>, row.decision)
<1>1. Len(log) + 1 \in DOMAIN (log \o <<row>>) OBVIOUS
<1> QED BY LogGrows, <1>1, ZenonT(30) DEF Undecided, Decided

(* An empty log has no decision.                                               *)
LEMMA NoRowNoDecision == Undecided(<<>>) /\ Len(<<>>) = 0 /\ <<>> \in Seq(LogRows)
  BY DEF Undecided, DecidedAt

(* An ALLOWED decision, or none, means no BLOCKED row.                         *)
LEMMA NoBlockedRow ==
    ASSUME NEW log \in Seq(LogRows), Undecided(log) \/ Decided(log, "ALLOWED")
    PROVE  ~\E i \in DOMAIN log : log[i].decision = "BLOCKED"
<1> SUFFICES ASSUME NEW i \in DOMAIN log, log[i].decision = "BLOCKED" PROVE FALSE OBVIOUS
<1>1. i \in DecidedAt(log) BY DEF DecidedAt
<1>2. "ALLOWED" # "BLOCKED" OBVIOUS
<1> QED BY <1>1, <1>2, Zenon DEF Undecided, Decided

------------------------------------------------------------------------------
(* The ways out of a coroutine, on its own values: x before, y after, with the *)
(* same input, policy, decision and losses.                                    *)
Same(x, y) ==
    /\ y.in = x.in /\ y.pol = x.pol /\ y.refused = x.refused /\ y.decision = x.decision
    /\ y.pending = x.pending /\ y.lost = x.lost /\ y.listed = x.listed

(* The finally of _process and _handle_bridged: whatever rows E an error adds, *)
(* before or after the deferred row D, a call ends with its one ALLOWED row    *)
(* and anything else with none.                                                *)
LEMMA LogCloses ==
    ASSUME NEW log \in Seq(LogRows), Len(log) <= 1,
           NEW call \in BOOLEAN, NEW pending \in BOOLEAN, ~call => ~pending /\ Undecided(log),
           call => IF pending THEN log = <<>> ELSE Decided(log, "ALLOWED"),
           NEW late \in LogRows, late.decision = "ALLOWED",
           NEW err \in LogRows, err.decision = "ERROR",
           NEW D, D = IF pending THEN <<late>> ELSE <<>>,
           NEW new, new \in {D, <<err>> \o D, D \o <<err>>}
    PROVE  /\ log \o new \in Seq(LogRows) /\ Len(log \o new) <= 2
           /\ call => Decided(log \o new, "ALLOWED")
           /\ ~call => Undecided(log \o new)
<1>1. CASE ~pending
  <2>1. D = <<>> /\ new \in {<<>>, <<err>>} BY <1>1
  <2>2. CASE new = <<>>
    <3>1. log \o new = log BY <2>2
    <3> QED BY <3>1, <1>1
  <2>3. CASE new = <<err>>
    <3>1. err.decision \notin {"ALLOWED", "BLOCKED"} OBVIOUS
    <3>2. log \o <<err>> \in Seq(LogRows) /\ Len(log \o <<err>>) <= 2 BY LogGrows
    <3>3. (call => Decided(log \o <<err>>, "ALLOWED")) /\ (~call => Undecided(log \o <<err>>))
      BY <3>1, <1>1, LogDecisions, Zenon
    <3> QED BY <2>3, <3>2, <3>3
  <2> QED BY <2>1, <2>2, <2>3
<1>2. CASE pending
  <2>1. call /\ log = <<>> /\ D = <<late>> BY <1>2
  <2>2. log \o new = new /\ <<>> \o <<late>> = <<late>> /\ <<>> \o <<err>> = <<err>> BY <2>1
  <2>3. /\ <<late>> \in Seq(LogRows) /\ Len(<<late>>) = 1 /\ <<err>> \in Seq(LogRows) /\ Len(<<err>>) = 1
    OBVIOUS
  <2>4. err.decision \notin {"ALLOWED", "BLOCKED"} /\ late.decision \in {"ALLOWED", "BLOCKED"} OBVIOUS
  <2>5. Decided(<<late>>, "ALLOWED") /\ Undecided(<<err>>)
    <3>1. Decided(<<>> \o <<late>>, "ALLOWED") /\ Undecided(<<>> \o <<err>>)
      BY <2>4, LogDecisions, NoRowNoDecision, Zenon
    <3> QED BY <3>1, <2>2
  <2>6. Decided(<<err>> \o <<late>>, "ALLOWED") /\ Decided(<<late>> \o <<err>>, "ALLOWED")
    BY <2>3, <2>4, <2>5, LogDecisions, Zenon
  <2>7. /\ <<err>> \o <<late>> \in Seq(LogRows) /\ Len(<<err>> \o <<late>>) = 2
        /\ <<late>> \o <<err>> \in Seq(LogRows) /\ Len(<<late>> \o <<err>>) = 2
    OBVIOUS
  <2>8. CASE new = <<late>> BY <2>8, <2>1, <2>2, <2>3, <2>5
  <2>9. CASE new = <<err>> \o <<late>> BY <2>9, <2>1, <2>2, <2>6, <2>7
  <2>10. CASE new = <<late>> \o <<err>> BY <2>10, <2>1, <2>2, <2>6, <2>7
  <2> QED BY <2>1, <2>8, <2>9, <2>10, Zenon
<1> QED BY <1>1, <1>2

(* A coroutine that ends before anything was decided: one row at most, and a   *)
(* decision row only for what is not a call.                                   *)
LEMMA EarlyEnds ==
    ASSUME NEW x \in Coroutines, NEW y \in Coroutines, NEW log \in Seq(LogRows), NEW u \in Nat,
           NEW b \in Bodies, NEW seen, Untouched(x, log, u, b), Same(x, y), y.answer \in {"ok", "error", "abandoned"},
           NEW row \in LogRows, NEW new \in {<<>>, <<row>>},
           x.in.msg = "call" => y.answer # "ok" /\ (new = <<>> \/ row.decision \in {"ERROR", "PASSTHROUGH"})
    PROVE  log \o new \in Seq(LogRows) /\ AtDone(y, log \o new, u, b, seen)
<1>0. log = <<>> BY DEF Untouched
<1>1. log \o new = new /\ new \in Seq(LogRows) /\ Len(new) <= 1 /\ <<>> \o <<row>> = <<row>>
  <2>1. <<>> \o <<row>> = <<row>> /\ <<row>> \in Seq(LogRows) /\ Len(<<row>>) = 1 OBVIOUS
  <2>2. <<>> \o <<>> = <<>> /\ <<>> \in Seq(LogRows) /\ Len(<<>>) = 0 OBVIOUS
  <2>3. CASE new = <<>> BY <2>1, <2>2, <2>3, <1>0
  <2>4. CASE new = <<row>> BY <2>1, <2>4, <1>0
  <2> QED BY <2>3, <2>4
<1>2. x.in.msg = "call" => Undecided(new)
  <2>1. CASE new = <<>> BY <2>1, NoRowNoDecision
  <2>2. CASE new = <<row>> /\ row.decision \in {"ERROR", "PASSTHROUGH"}
    <3>1. row.decision \notin {"ALLOWED", "BLOCKED"} BY <2>2
    <3>2. Undecided(<<>> \o <<row>>) BY <3>1, LogDecisions, NoRowNoDecision, Zenon
    <3> QED BY <3>2, <2>2, <1>1
  <2> QED BY <2>1, <2>2
<1>4. u = 0 /\ y.lost = 0 /\ b = "nothing" /\ y.decision.redacted = {} /\ y.listed = {} /\ y.in = x.in
  BY DEF Untouched, Same
<1>5. AtDone(y, new, u, b, seen)
  BY <1>1, <1>2, <1>4 DEF AtDone
<1> QED BY <1>1, <1>5

------------------------------------------------------------------------------
(* One request's step: the values x, log, u, b and seen replace those of r.    *)
LEMMA OneMoves ==
    ASSUME PipelineInv, NEW r \in Requests, tables' = tables, present' = present, writes' = writes,
           NEW x \in Coroutines, NEW log \in Seq(LogRows), NEW u \in Nat, NEW b \in Bodies,
           NEW seen \in SUBSET Stored, CoroutineOK(x, log, u, b, seen, tables),
           req' = [req EXCEPT ![r] = x], rows' = [rows EXCEPT ![r] = log],
           usage' = [usage EXCEPT ![r] = u], sent' = [sent EXCEPT ![r] = b],
           stored' = [stored EXCEPT ![r] = seen]
    PROVE  PipelineInv'
<1>1. Tabled /\ \A q \in Requests : CoroutineOK(req[q], rows[q], usage[q], sent[q], stored[q], tables)
  BY Zenon DEF PipelineInv
<1>2. Tabled'
  BY <1>1 DEF Tabled
<1>3. ASSUME NEW q \in Requests
      PROVE  CoroutineOK(req'[q], rows'[q], usage'[q], sent'[q], stored'[q], tables')
  <2>1. CASE q = r
    <3>1. req'[q] = x /\ rows'[q] = log /\ usage'[q] = u /\ sent'[q] = b /\ stored'[q] = seen
      BY <2>1, <1>1 DEF Tabled
    <3> QED BY <3>1
  <2>2. CASE q # r
    <3>1. /\ req'[q] = req[q] /\ rows'[q] = rows[q] /\ usage'[q] = usage[q]
          /\ sent'[q] = sent[q] /\ stored'[q] = stored[q]
      BY <2>2, <1>1 DEF Tabled
    <3> QED BY <3>1, <1>1
  <2> QED BY <2>1, <2>2
<1> QED BY <1>2, <1>3, Zenon DEF PipelineInv

(* The same for a step that leaves usage, the body and the read alone, and     *)
(* logs the rows new.                                                          *)
LEMMA OneLogs ==
    ASSUME PipelineInv, NEW r \in Requests, NEW x \in Coroutines, NEW new,
           req' = [req EXCEPT ![r] = x], rows' = [rows EXCEPT ![r] = @ \o new], rows[r] \o new \in Seq(LogRows),
           CoroutineOK(x, rows[r] \o new, usage[r], sent[r], stored[r], tables),
           UNCHANGED <<store, usage, sent, stored>>
    PROVE  PipelineInv'
<1> DEFINE log == rows[r] \o new
           u == usage[r]
           b == sent[r]
           seen == stored[r]
<1>1. Tabled BY Zenon DEF PipelineInv
<1>2. /\ usage' = [usage EXCEPT ![r] = u] /\ sent' = [sent EXCEPT ![r] = b]
      /\ stored' = [stored EXCEPT ![r] = seen]
      /\ u \in Nat /\ b \in Bodies /\ seen \in SUBSET Stored
  BY <1>1 DEF Tabled
<1>3. tables' = tables /\ present' = present /\ writes' = writes
  BY DEF store
<1>4. rows' = [rows EXCEPT ![r] = log] /\ log \in Seq(LogRows) /\ CoroutineOK(x, log, u, b, seen, tables)
  OBVIOUS
<1> HIDE DEF log, u, b, seen
<1> QED BY ONLY PipelineInv, r \in Requests, x \in Coroutines, req' = [req EXCEPT ![r] = x],
           <1>2, <1>3, <1>4, OneMoves, Zenon

(* ... or none.                                                                *)
LEMMA OneGoes ==
    ASSUME PipelineInv, NEW r \in Requests, NEW x \in Coroutines, req' = [req EXCEPT ![r] = x],
           CoroutineOK(x, rows[r], usage[r], sent[r], stored[r], tables),
           Quiet, UNCHANGED <<store, usage, sent, stored>>
    PROVE  PipelineInv'
<1>1. rows \in [Requests -> Seq(LogRows)] BY Zenon DEF PipelineInv, Tabled
<1>2. rows[r] \in Seq(LogRows) BY <1>1, Zenon
<1>3. rows[r] \o <<>> = rows[r] BY <1>2
<1>4. rows' = [rows EXCEPT ![r] = @ \o <<>>] BY <1>1, <1>3 DEF Quiet
<1>5. /\ rows[r] \o <<>> \in Seq(LogRows)
      /\ CoroutineOK(x, rows[r] \o <<>>, usage[r], sent[r], stored[r], tables)
  BY <1>2, <1>3
<1> QED BY <1>4, <1>5, OneLogs, Zenon

(* What a request's values are.                                                *)
LEMMA OfRequest ==
    ASSUME PipelineInv, NEW r \in Requests
    PROVE  /\ req[r] \in Coroutines /\ rows[r] \in Seq(LogRows) /\ usage[r] \in Nat
           /\ sent[r] \in Bodies /\ stored[r] \in SUBSET Stored /\ tables \in Stored
           /\ CoroutineOK(req[r], rows[r], usage[r], sent[r], stored[r], tables)
  BY DEF PipelineInv, Tabled

(* Origin and the rows handlers build.                                         *)
LEMMA RowFacts ==
    ASSUME NEW r
    PROVE  /\ Origin(r) \in {None, "test", "local"}
           /\ \A d \in {"ALLOWED", "BLOCKED", "ERROR", "PASSTHROUGH"}, o \in {None, "test", "local"} :
                Row(d, o) \in LogRows /\ Row(d, o).decision = d
<1>1. Origin(r) \in {None, "test", "local"} BY Zenon DEF Origin
<1> QED BY <1>1 DEF Row, LogRows

(* Proceed and Finish as replacements of the request's coroutine.              *)
LEMMA ProceedFacts ==
    ASSUME PipelineInv, NEW r \in Requests, NEW pc \in AwaitPoints, Proceed(r, pc)
    PROVE  LET x == [req[r] EXCEPT !.pc = pc]
           IN  x \in Coroutines /\ req' = [req EXCEPT ![r] = x] /\ x.pc = pc /\ Same(req[r], x)
<1>1. req[r] \in Coroutines BY OfRequest
<1>2. req' = [req EXCEPT ![r] = [req[r] EXCEPT !.pc = pc]] BY Zenon DEF Proceed
<1> QED BY <1>1, <1>2 DEF Coroutines, Same

(* ... and Finish.                                                             *)
LEMMA FinishFacts ==
    ASSUME PipelineInv, NEW r \in Requests, NEW a \in Answers, Finish(r, a)
    PROVE  LET x == [req[r] EXCEPT !.pc = "done", !.answer = a]
           IN  /\ x \in Coroutines /\ req' = [req EXCEPT ![r] = x] /\ x.pc = "done" /\ x.answer = a
               /\ Same(req[r], x)
<1>1. req[r] \in Coroutines BY OfRequest
<1>2. req' = [req EXCEPT ![r] = [req[r] EXCEPT !.pc = "done", !.answer = a]] BY Zenon DEF Finish
<1> QED BY <1>1, <1>2, Zenon DEF Coroutines, Same, AwaitPoints

(* A finished coroutine has nothing more to keep than AtDone.                  *)
LEMMA DoneIsOK ==
    ASSUME NEW x, NEW log, NEW u, NEW b, NEW seen, NEW now,
           x.pc = "done", x.in \in Inputs, AtDone(x, log, u, b, seen)
    PROVE  CoroutineOK(x, log, u, b, seen, now)
  BY DEF CoroutineOK, Entering, Deciding, Reading, Sending

(* Finish before anything was decided, with one row or none.                   *)
LEMMA EarlyFinish ==
    ASSUME PipelineInv, NEW r \in Requests, NEW a \in {"ok", "error", "abandoned"}, Finish(r, a),
           NEW row \in LogRows, NEW new \in {<<>>, <<row>>}, Log(r, new),
           req[r].pc \in (Entering \cup Deciding) \ {"idle"},
           req[r].in.msg = "call" => a # "ok" /\ (new = <<>> \/ row.decision \in {"ERROR", "PASSTHROUGH"}),
           UNCHANGED <<store, usage, sent, stored>>
    PROVE  PipelineInv'
<1> DEFINE x == [req[r] EXCEPT !.pc = "done", !.answer = a]
<1>1. a \in Answers BY DEF Answers
<1>2. x \in Coroutines /\ req' = [req EXCEPT ![r] = x] /\ x.pc = "done" /\ x.answer = a /\ Same(req[r], x)
  BY <1>1, FinishFacts, Zenon
<1> HIDE DEF x
<1>3. req[r].in \in Inputs /\ Untouched(req[r], rows[r], usage[r], sent[r])
  BY OfRequest DEF CoroutineOK
<1>4. x.in \in Inputs BY <1>2, <1>3 DEF Same
<1>5. rows[r] \o new \in Seq(LogRows) /\ AtDone(x, rows[r] \o new, usage[r], sent[r], stored[r])
  BY <1>2, <1>3, OfRequest, EarlyEnds, ZenonT(30)
<1>6. CoroutineOK(x, rows[r] \o new, usage[r], sent[r], stored[r], tables)
  BY <1>2, <1>4, <1>5, DoneIsOK, Zenon
<1>7. rows' = [rows EXCEPT ![r] = @ \o new] BY Zenon DEF Log
<1> QED BY <1>2, <1>5, <1>6, <1>7, OneLogs, Zenon

(* Proceed from one await to the next, within the steps before the decision.   *)
LEMMA EarlyProceed ==
    ASSUME PipelineInv, NEW r \in Requests, NEW pc \in Entering \cup {"policy_mode"}, Proceed(r, pc),
           pc # "idle", req[r].pc \in Entering \ {"idle"}, pc = "policy_mode" => req[r].in.msg = "call",
           Quiet, UNCHANGED <<store, usage, sent, stored>>
    PROVE  PipelineInv'
<1> DEFINE x == [req[r] EXCEPT !.pc = pc]
<1>1. pc \in AwaitPoints BY DEF Entering, AwaitPoints
<1>2. x \in Coroutines /\ req' = [req EXCEPT ![r] = x] /\ x.pc = pc /\ Same(req[r], x)
  BY <1>1, ProceedFacts, Zenon
<1> HIDE DEF x
<1>3. req[r].in \in Inputs /\ Untouched(req[r], rows[r], usage[r], sent[r])
  BY OfRequest DEF CoroutineOK
<1>4. x.in \in Inputs /\ Untouched(x, rows[r], usage[r], sent[r]) /\ x.in = req[r].in
  BY <1>2, <1>3 DEF Same, Untouched
<1>5. CoroutineOK(x, rows[r], usage[r], sent[r], stored[r], tables)
  BY <1>2, <1>4 DEF CoroutineOK, Entering, Deciding, Reading, Sending
<1> QED BY <1>2, <1>5, OneGoes, Zenon

(* A request arrives: handle, test_call, evaluate_policy.                      *)
LEMMA ArriveStep ==
    ASSUME PipelineInv, NEW r \in Requests, NEW in \in Inputs, Arrive(r, in)
    PROVE  PipelineInv'
<1> DEFINE pc == IF in.via = "evaluate" THEN "auth" ELSE "resolve"
           x == [req[r] EXCEPT !.in = in, !.pc = pc]
<1>1. pc \in AwaitPoints /\ pc \in Entering /\ pc # "idle" BY DEF AwaitPoints, Entering
<1>2. req' = [req EXCEPT ![r] = x] /\ req[r].pc = "idle" BY Zenon DEF Arrive, Awaits
<1> HIDE DEF pc
<1>3. x \in Coroutines /\ x.pc = pc /\ x.in = in /\ x.lost = req[r].lost /\ x.pending = req[r].pending
      /\ x.decision = req[r].decision /\ x.listed = req[r].listed
  BY <1>1, OfRequest, Zenon DEF Coroutines
<1> HIDE DEF x
<1>4. Untouched(req[r], rows[r], usage[r], sent[r])
  BY <1>2, OfRequest DEF CoroutineOK, Entering
<1>5. Untouched(x, rows[r], usage[r], sent[r]) BY <1>3, <1>4 DEF Untouched
<1>6. CoroutineOK(x, rows[r], usage[r], sent[r], stored[r], tables)
  BY <1>1, <1>3, <1>5 DEF CoroutineOK, Entering, Deciding, Reading, Sending
<1>7. Quiet /\ UNCHANGED <<store, usage, sent, stored>> BY Zenon DEF Arrive
<1> QED BY <1>2, <1>3, <1>6, <1>7, OneGoes, Zenon

(* _resolve_server: the server, or the ERROR row of a RoutingError.            *)
LEMMA ResolveServerStep ==
    ASSUME PipelineInv, NEW r \in Requests, ResolveServer(r)
    PROVE  PipelineInv'
<1>1. req[r].pc = "resolve" /\ UNCHANGED <<store, usage, sent, stored>> BY Zenon DEF ResolveServer, Awaits
<1>2. req[r].pc \in Entering \ {"idle"} BY <1>1 DEF Entering
<1>3. CASE present
  <2> DEFINE pc == IF In(r).via = "direct" THEN "auth"
                   ELSE IF In(r).via = "evaluate" THEN "policy_mode" ELSE "process"
  <2>1. Proceed(r, pc) /\ Quiet BY <1>3, Zenon DEF ResolveServer
  <2>2. req[r].in \in Inputs BY <1>1, OfRequest DEF CoroutineOK
  <2>3. pc \in Entering \cup {"policy_mode"} /\ pc # "idle" BY DEF Entering
  <2>4. pc = "policy_mode" => req[r].in.msg = "call" BY <2>2, PipelineAssumption DEF In
  <2> HIDE DEF pc
  <2> QED BY <1>1, <1>2, <2>1, <2>3, <2>4, EarlyProceed, Zenon
<1>4. CASE ~present
  <2> DEFINE row == Row("ERROR", Origin(r))
             new == IF In(r).via = "evaluate" THEN <<>> ELSE <<row>>
  <2>1. Finish(r, "error") /\ Log(r, new) BY <1>4, Zenon DEF ResolveServer
  <2>2. row \in LogRows /\ row.decision \in {"ERROR", "PASSTHROUGH"} BY RowFacts
  <2>3. new \in {<<>>, <<row>>} BY Zenon
  <2> HIDE DEF row, new
  <2>4. /\ req[r].pc \in (Entering \cup Deciding) \ {"idle"}
        /\ "error" \in {"ok", "error", "abandoned"} /\ "error" # "ok"
    BY <1>2
  <2> QED BY <1>1, <2>1, <2>2, <2>3, <2>4, EarlyFinish, Zenon
<1> QED BY <1>3, <1>4

(* _authenticate: the key, or the ERROR row of a refusal.                      *)
LEMMA AuthenticateStep ==
    ASSUME PipelineInv, NEW r \in Requests, NEW ok \in BOOLEAN, Authenticate(r, ok)
    PROVE  PipelineInv'
<1>1. req[r].pc = "auth" /\ UNCHANGED <<store, usage, sent, stored>> BY Zenon DEF Authenticate, Awaits
<1>2. req[r].pc \in Entering \ {"idle"} BY <1>1 DEF Entering
<1>3. CASE ok
  <2> DEFINE pc == IF In(r).via = "evaluate" THEN "resolve" ELSE "process"
  <2>1. Proceed(r, pc) /\ Quiet BY <1>3, Zenon DEF Authenticate
  <2>2. pc \in Entering \cup {"policy_mode"} /\ pc # "idle" /\ pc # "policy_mode" BY DEF Entering
  <2> HIDE DEF pc
  <2> QED BY <1>1, <1>2, <2>1, <2>2, EarlyProceed, Zenon
<1>4. CASE ~ok
  <2> DEFINE row == Row("ERROR", None)
             new == IF In(r).via = "evaluate" THEN <<>> ELSE <<row>>
  <2>1. Finish(r, "error") /\ Log(r, new) BY <1>4, Zenon DEF Authenticate
  <2>2. row \in LogRows /\ row.decision \in {"ERROR", "PASSTHROUGH"} BY RowFacts
  <2>3. new \in {<<>>, <<row>>} BY Zenon
  <2> HIDE DEF row, new
  <2>4. /\ req[r].pc \in (Entering \cup Deciding) \ {"idle"}
        /\ "error" \in {"ok", "error", "abandoned"} /\ "error" # "ok"
    BY <1>2
  <2> QED BY <1>1, <2>1, <2>2, <2>3, <2>4, EarlyFinish, Zenon
<1> QED BY <1>3, <1>4

(* _process: the messages answered in one step, none of them a call.           *)
LEMMA AnswerAtOnceStep ==
    ASSUME PipelineInv, NEW r \in Requests, AnswerAtOnce(r)
    PROVE  PipelineInv'
<1> DEFINE m == In(r).msg
           a == IF m = "discover" THEN "ok" ELSE "error"
           row == IF m = "oversize" THEN Row("ERROR", Origin(r))
                  ELSE IF m = "mismatch" THEN Row("ERROR", None) ELSE Row("BLOCKED", Origin(r))
           new == IF m = "discover" THEN <<>> ELSE <<row>>
<1>1. req[r].pc = "process" /\ UNCHANGED <<store, usage, sent, stored>> /\ Finish(r, a)
      /\ m \in {"oversize", "malformed", "mismatch", "discover", "nameless"}
  BY Zenon DEF AnswerAtOnce, Awaits
<1>2. Log(r, new)
  <2>1. new = CASE m = "discover" -> <<>>
                [] m = "oversize" -> <<Row("ERROR", Origin(r))>>
                [] m = "mismatch" -> <<Row("ERROR", None)>>
                [] m \in {"malformed", "nameless"} -> <<Row("BLOCKED", Origin(r))>>
    BY <1>1
  <2> QED BY <2>1, Zenon DEF AnswerAtOnce
<1>3. row \in LogRows BY RowFacts
<1>4. new \in {<<>>, <<row>>} BY Zenon
<1>5. a \in {"ok", "error", "abandoned"} BY Zenon
<1>6. req[r].in.msg # "call" BY <1>1 DEF In
<1>7. req[r].pc \in (Entering \cup Deciding) \ {"idle"} BY <1>1 DEF Entering
<1> HIDE DEF a, row, new
<1> QED BY <1>1, <1>2, <1>3, <1>4, <1>5, <1>6, <1>7, EarlyFinish, Zenon

(* _process: a tools/call goes on to its policy read.                          *)
LEMMA BeginCallStep ==
    ASSUME PipelineInv, NEW r \in Requests, BeginCall(r)
    PROVE  PipelineInv'
<1>1. /\ req[r].pc = "process" /\ UNCHANGED <<store, usage, sent, stored>> /\ Proceed(r, "policy_mode") /\ Quiet
      /\ req[r].in.msg = "call"
  BY Zenon DEF BeginCall, Awaits, In
<1>2. req[r].pc \in Entering \ {"idle"} /\ "policy_mode" # "idle"
      /\ "policy_mode" \in Entering \cup {"policy_mode"}
  BY <1>1 DEF Entering
<1> QED BY <1>1, <1>2, EarlyProceed, Zenon

(* _process: everything else goes on to the credential, undecided.             *)
LEMMA BeginOtherStep ==
    ASSUME PipelineInv, NEW r \in Requests, BeginOther(r)
    PROVE  PipelineInv'
<1> DEFINE x == [req[r] EXCEPT !.pc = "credential"]
           row == Row("PASSTHROUGH", IF In(r).bridged THEN Origin(r) ELSE None)
           new == IF In(r).msg # "other" THEN <<>> ELSE <<row>>
<1>1. /\ req[r].pc = "process" /\ UNCHANGED <<store, usage, sent, stored>> /\ Proceed(r, "credential")
      /\ req[r].in.msg \in {"list", "other", "bodiless"} /\ rows' = [rows EXCEPT ![r] = @ \o new]
  BY Zenon DEF BeginOther, Awaits, In, Log
<1>2. "credential" \in AwaitPoints BY DEF AwaitPoints
<1>3. x \in Coroutines /\ req' = [req EXCEPT ![r] = x] /\ x.pc = "credential" /\ Same(req[r], x)
  BY <1>1, <1>2, ProceedFacts, Zenon
<1>4. row \in LogRows /\ row.decision \notin {"ALLOWED", "BLOCKED"} BY RowFacts
<1>5. new \in {<<>>, <<row>>} /\ (req[r].in.msg = "list" => new = <<>>) BY Zenon DEF In
<1> HIDE DEF x, row, new
<1>6. req[r].in \in Inputs /\ Untouched(req[r], rows[r], usage[r], sent[r])
  BY <1>1, OfRequest DEF CoroutineOK, Entering
<1>7. rows[r] \o new = new /\ new \in Seq(LogRows) /\ Len(new) <= 1 /\ Undecided(new)
  <2>1. rows[r] = <<>> BY <1>6 DEF Untouched
  <2>2. <<>> \o <<row>> = <<row>> /\ <<row>> \in Seq(LogRows) /\ Len(<<row>>) = 1 BY <1>4
  <2>3. <<>> \o <<>> = <<>> OBVIOUS
  <2>4. Undecided(<<>> \o <<row>>) BY <1>4, LogDecisions, NoRowNoDecision, Zenon
  <2>5. CASE new = <<>> BY <2>1, <2>3, <2>5, NoRowNoDecision
  <2>6. CASE new = <<row>> BY <2>1, <2>2, <2>4, <2>6
  <2> QED BY <1>5, <2>5, <2>6
<1>8. AtSending(x, new, usage[r], sent[r], stored[r])
  BY <1>1, <1>3, <1>5, <1>6, <1>7 DEF AtSending, Same, Untouched
<1>9. x.in \in Inputs BY Zenon, <1>3, <1>6 DEF Same
<1>10. CoroutineOK(x, rows[r] \o new, usage[r], sent[r], stored[r], tables) /\ rows[r] \o new \in Seq(LogRows)
  BY <1>3, <1>7, <1>8, <1>9 DEF CoroutineOK, Entering, Deciding, Reading, Sending
<1> QED BY <1>1, <1>3, <1>10, OneLogs, Zenon

------------------------------------------------------------------------------
(* get_policies_for, statement by statement.                                   *)
LEMMA ReadServerPoliciesStep ==
    ASSUME PipelineInv, NEW r \in Requests, ReadServerPolicies(r)
    PROVE  PipelineInv'
<1> DEFINE pol == [NoRows EXCEPT !.mode = tables.mode, !.dlp = tables.dlp, !.response_dlp = tables.response_dlp]
           x == [req[r] EXCEPT !.pc = "policy_tools", !.pol = pol]
           log == rows[r]
           u == usage[r]
           b == sent[r]
           seen == {tables}
<1>1. req[r].pc = "policy_mode" /\ req' = [req EXCEPT ![r] = x]
  BY Zenon DEF ReadServerPolicies, Awaits
<1>2. /\ tables \in Stored /\ log \in Seq(LogRows) /\ u \in Nat /\ b \in Bodies /\ req[r] \in Coroutines
      /\ req[r].in \in Inputs /\ req[r].in.msg \in {"call", "list"} /\ Untouched(req[r], log, u, b)
  BY <1>1, OfRequest DEF CoroutineOK, Deciding
<1>3. pol \in ReadPolicies /\ pol.mode = tables.mode /\ pol.response_dlp = tables.response_dlp
  BY <1>2, Zenon DEF ReadPolicies, Stored, NoRows
<1> HIDE DEF pol
<1>4. x \in Coroutines /\ x.pc = "policy_tools" /\ x.pol = pol /\ x.in = req[r].in /\ x.lost = req[r].lost
      /\ x.pending = req[r].pending /\ x.decision = req[r].decision /\ x.listed = req[r].listed
  BY <1>2, <1>3, Zenon DEF Coroutines, AwaitPoints
<1>5. /\ tables' = tables /\ present' = present /\ writes' = writes
      /\ rows' = [rows EXCEPT ![r] = log] /\ usage' = [usage EXCEPT ![r] = u] /\ sent' = [sent EXCEPT ![r] = b]
      /\ stored' = [stored EXCEPT ![r] = seen]
  BY DEF ReadServerPolicies, Quiet, store, PipelineInv, Tabled
<1>6. ModeRead(pol, seen) /\ seen \in SUBSET Stored /\ tables \in seen
  BY <1>2, <1>3 DEF ModeRead
<1> HIDE DEF x, log, u, b, seen
<1>7. Untouched(x, log, u, b) BY Zenon, <1>2, <1>4 DEF Untouched
<1>8. CoroutineOK(x, log, u, b, seen, tables)
  BY <1>2, <1>4, <1>6, <1>7 DEF CoroutineOK, Entering, Deciding, Reading, Sending
<1> QED BY ONLY PipelineInv, r \in Requests, <1>1, <1>2, <1>4, <1>5, <1>6, <1>8, OneMoves, Zenon

(* The tool rows: those of one stored policy, the one there now.               *)
LEMMA ReadToolPoliciesStep ==
    ASSUME PipelineInv, NEW r \in Requests, ReadToolPolicies(r)
    PROVE  PipelineInv'
<1> DEFINE pol == SplitToolRows(req[r].pol)
           x == [req[r] EXCEPT !.pc = "policy_params", !.pol = pol]
<1>1. req[r].pc = "policy_tools" /\ req' = [req EXCEPT ![r] = x]
      /\ Quiet /\ UNCHANGED <<store, usage, sent, stored>>
  BY Zenon DEF ReadToolPolicies, Awaits
<1>2. /\ tables \in Stored /\ req[r] \in Coroutines /\ req[r].in \in Inputs /\ req[r].in.msg \in {"call", "list"}
      /\ Untouched(req[r], rows[r], usage[r], sent[r]) /\ tables \in stored[r] /\ ModeRead(req[r].pol, stored[r])
  BY <1>1, OfRequest DEF CoroutineOK, Deciding, Reading
<1>3. /\ pol \in ReadPolicies /\ pol.allowed = tables.allowed /\ pol.denied = tables.denied
      /\ pol.mode = req[r].pol.mode /\ pol.response_dlp = req[r].pol.response_dlp
  BY <1>2, Zenon DEF SplitToolRows, ReadPolicies, Coroutines
<1> HIDE DEF pol
<1>4. x \in Coroutines /\ x.pc = "policy_params" /\ x.pol = pol /\ x.in = req[r].in /\ x.lost = req[r].lost
      /\ x.pending = req[r].pending /\ x.decision = req[r].decision /\ x.listed = req[r].listed
  BY <1>2, <1>3, Zenon DEF Coroutines, AwaitPoints
<1>5. ModeRead(pol, stored[r]) /\ ToolsRead(pol, stored[r])
  BY <1>2, <1>3 DEF ModeRead, ToolsRead
<1> HIDE DEF x
<1>6. Untouched(x, rows[r], usage[r], sent[r]) BY Zenon, <1>2, <1>4 DEF Untouched
<1>7. CoroutineOK(x, rows[r], usage[r], sent[r], stored[r], tables)
  BY <1>2, <1>4, <1>5, <1>6 DEF CoroutineOK, Entering, Deciding, Reading, Sending
<1> QED BY <1>1, <1>4, <1>7, OneGoes, Zenon

(* The parameter rules, the last of the three statements.                      *)
LEMMA ReadParamRulesStep ==
    ASSUME PipelineInv, NEW r \in Requests, ReadParamRules(r)
    PROVE  PipelineInv'
<1> DEFINE pol == [req[r].pol EXCEPT !.param_rules = tables.param_rules]
           pc == IF In(r).msg = "list" THEN "catalog" ELSE "rate"
           x == [req[r] EXCEPT !.pc = pc, !.pol = pol]
<1>1. req[r].pc = "policy_params" /\ req' = [req EXCEPT ![r] = x]
      /\ Quiet /\ UNCHANGED <<store, usage, sent, stored>>
  BY Zenon DEF ReadParamRules, Awaits
<1>2. /\ tables \in Stored /\ req[r] \in Coroutines /\ req[r].in \in Inputs /\ req[r].in.msg \in {"call", "list"}
      /\ Untouched(req[r], rows[r], usage[r], sent[r])
      /\ ModeRead(req[r].pol, stored[r]) /\ ToolsRead(req[r].pol, stored[r])
  BY <1>1, OfRequest DEF CoroutineOK, Deciding, Reading
<1>3. /\ pol \in ReadPolicies /\ pol.allowed = req[r].pol.allowed /\ pol.denied = req[r].pol.denied
      /\ pol.mode = req[r].pol.mode /\ pol.response_dlp = req[r].pol.response_dlp
  BY <1>2 DEF ReadPolicies, Coroutines
<1>4. pc \in {"catalog", "rate"} /\ pc \in AwaitPoints /\ (pc = "rate" => req[r].in.msg = "call")
      /\ (pc = "catalog" => req[r].in.msg = "list")
  BY <1>2 DEF AwaitPoints, In
<1> HIDE DEF pol, pc
<1>5. x \in Coroutines /\ x.pc = pc /\ x.pol = pol /\ x.in = req[r].in /\ x.lost = req[r].lost
      /\ x.pending = req[r].pending /\ x.decision = req[r].decision /\ x.listed = req[r].listed
  BY <1>2, <1>3, <1>4, Zenon DEF Coroutines
<1>6. ModeRead(pol, stored[r]) /\ ToolsRead(pol, stored[r])
  BY <1>2, <1>3 DEF ModeRead, ToolsRead
<1> HIDE DEF x
<1>7. Untouched(x, rows[r], usage[r], sent[r]) BY Zenon, <1>2, <1>5 DEF Untouched
<1>8. CoroutineOK(x, rows[r], usage[r], sent[r], stored[r], tables)
  BY <1>2, <1>4, <1>5, <1>6, <1>7 DEF CoroutineOK, Entering, Deciding, Reading, Sending
<1> QED BY <1>1, <1>5, <1>8, OneGoes, Zenon

------------------------------------------------------------------------------
(* _enforce: a refusal leaves the one BLOCKED row.                             *)
LEMMA RefuseStep ==
    ASSUME PipelineInv, NEW r \in Requests, NEW o \in {None, "test", "local"}, Refuse(r, o),
           req[r].pc \in {"rate", "quota"}, UNCHANGED <<store, usage, sent, stored>>
    PROVE  PipelineInv'
<1> DEFINE x == [req[r] EXCEPT !.pc = "usage", !.refused = TRUE]
           row == Row("BLOCKED", o)
           new == <<row>>
<1>1. req' = [req EXCEPT ![r] = x] /\ rows' = [rows EXCEPT ![r] = @ \o new]
  BY Zenon DEF Refuse, Log
<1>2. /\ req[r] \in Coroutines /\ req[r].in \in Inputs /\ req[r].in.msg = "call"
      /\ Untouched(req[r], rows[r], usage[r], sent[r])
  BY OfRequest DEF CoroutineOK, Deciding
<1>3. x \in Coroutines /\ x.pc = "usage" /\ x.refused /\ x.in = req[r].in /\ x.lost = req[r].lost
      /\ x.pending = req[r].pending /\ x.decision = req[r].decision /\ x.listed = req[r].listed
  BY <1>2, Zenon DEF Coroutines, AwaitPoints
<1>4. row \in LogRows /\ row.decision = "BLOCKED" BY RowFacts
<1> HIDE DEF x, row
<1>5. <<>> \o new = new /\ new \in Seq(LogRows) /\ Len(new) = 1 BY <1>4
<1>6. Decided(<<>> \o <<row>>, "BLOCKED")
  <2>1. row.decision \in {"ALLOWED", "BLOCKED"} BY <1>4
  <2> QED BY <2>1, <1>4, LogDecisions, NoRowNoDecision, Zenon
<1>7. rows[r] \o new = new BY <1>2, <1>5 DEF Untouched
<1>8. AtUsage(x, new, usage[r], sent[r], stored[r])
  BY <1>2, <1>3, <1>5, <1>6 DEF AtUsage, Untouched
<1>9. CoroutineOK(x, rows[r] \o new, usage[r], sent[r], stored[r], tables) /\ rows[r] \o new \in Seq(LogRows)
  BY <1>2, <1>3, <1>5, <1>7, <1>8, Zenon DEF CoroutineOK, Entering, Deciding, Reading, Sending
<1> QED BY <1>1, <1>3, <1>9, OneLogs, Zenon

(* _check_rate_limits: on to the quota, or a refusal.                          *)
LEMMA CheckRateLimitsStep ==
    ASSUME PipelineInv, NEW r \in Requests, NEW ok \in BOOLEAN, CheckRateLimits(r, ok)
    PROVE  PipelineInv'
<1>1. req[r].pc = "rate" /\ UNCHANGED <<store, usage, sent, stored>> BY Zenon DEF CheckRateLimits, Awaits
<1>2. CASE ok \/ In(r).via = "evaluate"
  <2> DEFINE no == ~ok
             x == [req[r] EXCEPT !.pc = "quota", !.refused = no]
  <2>1. req' = [req EXCEPT ![r] = x] /\ Quiet
    BY <1>2, Zenon DEF CheckRateLimits
  <2>2. /\ req[r] \in Coroutines /\ req[r].in \in Inputs /\ req[r].in.msg = "call"
        /\ Untouched(req[r], rows[r], usage[r], sent[r])
        /\ ModeRead(req[r].pol, stored[r]) /\ ToolsRead(req[r].pol, stored[r])
    BY <1>1, OfRequest DEF CoroutineOK, Deciding
  <2>3. no \in BOOLEAN BY Zenon
  <2> HIDE DEF no
  <2>4. x \in Coroutines /\ x.pc = "quota" /\ x.in = req[r].in /\ x.lost = req[r].lost /\ x.pol = req[r].pol
        /\ x.pending = req[r].pending /\ x.decision = req[r].decision /\ x.listed = req[r].listed
    BY <2>2, <2>3, Zenon DEF Coroutines, AwaitPoints
  <2> HIDE DEF x
  <2>5. Untouched(x, rows[r], usage[r], sent[r]) BY Zenon, <2>2, <2>4 DEF Untouched
  <2>6. CoroutineOK(x, rows[r], usage[r], sent[r], stored[r], tables)
    BY <2>2, <2>4, <2>5 DEF CoroutineOK, Entering, Deciding, Reading, Sending
  <2> QED BY <1>1, <2>1, <2>4, <2>6, OneGoes, Zenon
<1>3. CASE ~(ok \/ In(r).via = "evaluate")
  <2>1. Refuse(r, None) BY <1>3, Zenon DEF CheckRateLimits
  <2>2. req[r].pc \in {"rate", "quota"} BY <1>1, Zenon
  <2>3. None \in {None, "test", "local"} BY Zenon
  <2> QED BY <1>1, <2>1, <2>2, <2>3, RefuseStep, Zenon
<1> QED BY <1>2, <1>3

(* _check_quota: on to evaluate, or a refusal.                                 *)
LEMMA CheckQuotaStep ==
    ASSUME PipelineInv, NEW r \in Requests, NEW ok \in BOOLEAN, CheckQuota(r, ok)
    PROVE  PipelineInv'
<1>1. req[r].pc = "quota" /\ UNCHANGED <<store, usage, sent, stored>> BY Zenon DEF CheckQuota, Awaits
<1>2. CASE ok /\ ~req[r].refused
  <2> DEFINE x == [req[r] EXCEPT !.pc = "evaluate"]
  <2>1. Proceed(r, "evaluate") /\ Quiet BY <1>2, Zenon DEF CheckQuota
  <2>2. "evaluate" \in AwaitPoints BY DEF AwaitPoints
  <2>3. x \in Coroutines /\ req' = [req EXCEPT ![r] = x] /\ x.pc = "evaluate" /\ Same(req[r], x)
    BY <2>1, <2>2, ProceedFacts, ZenonT(30)
  <2> HIDE DEF x
  <2>4. /\ req[r].in \in Inputs /\ req[r].in.msg = "call"
        /\ Untouched(req[r], rows[r], usage[r], sent[r])
        /\ ModeRead(req[r].pol, stored[r]) /\ ToolsRead(req[r].pol, stored[r])
    BY <1>1, OfRequest DEF CoroutineOK, Deciding
  <2>5. Untouched(x, rows[r], usage[r], sent[r]) BY Zenon, <2>3, <2>4 DEF Untouched, Same
  <2>6. CoroutineOK(x, rows[r], usage[r], sent[r], stored[r], tables)
    BY <2>3, <2>4, <2>5 DEF CoroutineOK, Entering, Deciding, Reading, Sending, Same
  <2> QED BY <1>1, <2>1, <2>3, <2>6, OneGoes, Zenon
<1>3. CASE ~(ok /\ ~req[r].refused)
  <2> DEFINE o == IF In(r).via = "evaluate" THEN Origin(r) ELSE None
  <2>1. Refuse(r, o) BY <1>3, Zenon DEF CheckQuota
  <2>2. req[r].pc \in {"rate", "quota"} BY <1>1, Zenon
  <2>3. o \in {None, "test", "local"} BY RowFacts, Zenon
  <2> HIDE DEF o
  <2> QED BY <1>1, <2>1, <2>2, <2>3, RefuseStep, Zenon
<1> QED BY <1>2, <1>3

(* evaluate: the decision row now, or the promise of one.                      *)
LEMMA EvaluateCallStep ==
    ASSUME PipelineInv, NEW r \in Requests, NEW out \in OutcomeSpace, EvaluateCall(r, out)
    PROVE  PipelineInv'
<1> DEFINE d == Evaluate(In(r).tool, Args, req[r].pol, out)
           deferred == ~d.blocked /\ req[r].pol.response_dlp /\ In(r).via # "evaluate"
           x == [req[r] EXCEPT !.pc = "usage", !.decision = d, !.refused = d.blocked, !.pending = deferred]
           row == Row(IF d.blocked THEN "BLOCKED" ELSE "ALLOWED", Origin(r))
           new == IF deferred THEN <<>> ELSE <<row>>
<1>1. /\ req[r].pc = "evaluate" /\ req' = [req EXCEPT ![r] = x] /\ rows' = [rows EXCEPT ![r] = @ \o new]
      /\ UNCHANGED <<store, usage, sent, stored>>
  BY Zenon DEF EvaluateCall, Awaits, Log
<1>2. /\ req[r] \in Coroutines /\ req[r].in \in Inputs /\ req[r].in.msg = "call"
      /\ Untouched(req[r], rows[r], usage[r], sent[r])
      /\ ModeRead(req[r].pol, stored[r]) /\ ToolsRead(req[r].pol, stored[r])
  BY <1>1, OfRequest DEF CoroutineOK, Deciding
<1>3. /\ d \in Verdicts /\ (d.blocked => d.redacted = {})
      /\ (~d.blocked => ToolIsVisible(req[r].in.tool, req[r].pol))
  BY EvaluateFacts, Zenon DEF In
<1>4. /\ deferred \in BOOLEAN
      /\ deferred => ~d.blocked /\ req[r].in.via # "evaluate" /\ req[r].pol.response_dlp
  BY Zenon DEF In
<1>5. d.blocked \in BOOLEAN BY ZenonT(30), <1>3 DEF Verdicts
<1>6. /\ row \in LogRows /\ (d.blocked => row.decision = "BLOCKED") /\ (~d.blocked => row.decision = "ALLOWED")
      /\ row.decision \in {"ALLOWED", "BLOCKED"}
  BY RowFacts
<1>7. (deferred => new = <<>>) /\ (~deferred => new = <<row>>) BY Zenon
<1> HIDE DEF d, deferred, row, new
<1>8. x \in Coroutines /\ x.pc = "usage" /\ x.refused = d.blocked /\ x.in = req[r].in /\ x.lost = req[r].lost
      /\ x.pending = deferred /\ x.decision = d /\ x.listed = req[r].listed /\ x.pol = req[r].pol
  BY <1>2, <1>3, <1>4, <1>5, Zenon DEF Coroutines, AwaitPoints
<1> HIDE DEF x
<1>9. rows[r] \o new = new /\ new \in Seq(LogRows) /\ Len(new) <= 1
      /\ (~deferred => Decided(new, row.decision))
  <2>1. rows[r] = <<>> BY <1>2 DEF Untouched
  <2>2. <<>> \o <<row>> = <<row>> /\ <<row>> \in Seq(LogRows) /\ Len(<<row>>) = 1 BY <1>6
  <2>3. <<>> \o <<>> = <<>> OBVIOUS
  <2>4. Decided(<<>> \o <<row>>, row.decision) BY <1>6, LogDecisions, NoRowNoDecision, Zenon
  <2>5. CASE deferred BY <1>7, <2>1, <2>3, <2>5, NoRowNoDecision
  <2>6. CASE ~deferred
    <3>1. new = <<row>> BY <1>7, <2>6, Zenon
    <3>2. Decided(<<row>>, row.decision) BY <2>2, <2>4
    <3> QED BY <2>1, <2>2, <3>1, <3>2
  <2> QED BY <2>5, <2>6
<1>10. ~x.refused => LetThrough(x, stored[r])
  BY <1>2, <1>3, <1>8, ZenonT(30) DEF LetThrough
<1>11. AtUsage(x, new, usage[r], sent[r], stored[r])
  BY <1>2, <1>3, <1>4, <1>6, <1>7, <1>8, <1>9, <1>10 DEF AtUsage, Untouched
<1>12. CoroutineOK(x, rows[r] \o new, usage[r], sent[r], stored[r], tables) /\ rows[r] \o new \in Seq(LogRows)
  BY <1>2, <1>8, <1>9, <1>11, Zenon DEF CoroutineOK, Entering, Deciding, Reading, Sending
<1> QED BY <1>1, <1>8, <1>12, OneLogs, Zenon

(* record_usage, and the answer of a refusal or an evaluation.                 *)
LEMMA RecordUsageStep ==
    ASSUME PipelineInv, NEW r \in Requests, NEW ok \in BOOLEAN, RecordUsage(r, ok)
    PROVE  PipelineInv'
<1> DEFINE a == AnswerAfterUsage(r)
           pc == IF a = None THEN "credential" ELSE "done"
           lost == IF ok THEN req[r].lost ELSE req[r].lost + 1
           x == [req[r] EXCEPT !.lost = lost, !.pc = pc, !.answer = a]
           log == rows[r]
           u == usage[r] + Increment(r, ok)
           b == sent[r]
           seen == stored[r]
<1>1. req[r].pc = "usage" /\ req' = [req EXCEPT ![r] = x]
  BY Zenon DEF RecordUsage, Awaits
<1>2. /\ req[r] \in Coroutines /\ req[r].in \in Inputs /\ log \in Seq(LogRows) /\ b \in Bodies
      /\ AtUsage(req[r], log, usage[r], b, seen) /\ seen \in SUBSET Stored
  BY Zenon, <1>1, OfRequest DEF CoroutineOK
<1>3. u \in Nat /\ lost \in Nat /\ u + lost = 1
  BY <1>2 DEF AtUsage, Increment
<1>4. /\ req[r].refused => a = "refused"
      /\ ~req[r].refused /\ req[r].in.via = "evaluate" => a = "ok"
      /\ ~req[r].refused /\ req[r].in.via # "evaluate" => a = None
      /\ a \in Answers
  BY DEF AnswerAfterUsage, In, Answers
<1>5. pc \in AwaitPoints BY DEF AwaitPoints
<1>6. /\ tables' = tables /\ present' = present /\ writes' = writes
      /\ rows' = [rows EXCEPT ![r] = log] /\ usage' = [usage EXCEPT ![r] = u] /\ sent' = [sent EXCEPT ![r] = b]
      /\ stored' = [stored EXCEPT ![r] = seen]
  BY DEF RecordUsage, Quiet, store, PipelineInv, Tabled
<1>7. pc = IF req[r].refused \/ req[r].in.via = "evaluate" THEN "done" ELSE "credential"
  BY <1>4, PipelineAssumption
<1> HIDE DEF a, pc, lost, u
<1>8. x \in Coroutines /\ x.pc = pc /\ x.answer = a /\ x.lost = lost
      /\ x.in = req[r].in /\ x.refused = req[r].refused /\ x.pending = req[r].pending
      /\ x.decision = req[r].decision /\ x.listed = req[r].listed /\ x.pol = req[r].pol
  BY <1>2, <1>3, <1>4, <1>5, Zenon DEF Coroutines
<1> HIDE DEF x, log, b, seen
<1>9. ~x.refused => LetThrough(x, seen) BY <1>2, <1>8 DEF AtUsage, LetThrough
<1>10. CASE req[r].refused \/ req[r].in.via = "evaluate"
  <2>1. Decided(log, IF x.refused THEN "BLOCKED" ELSE "ALLOWED")
    BY <1>2, <1>8, <1>10 DEF AtUsage
  <2>3. a # "unscanned" BY Zenon, <1>4, <1>10
  <2>4. AtDone(x, log, u, b, seen)
    BY <1>2, <1>3, <1>8, <2>1, <2>3 DEF AtDone, AtUsage
  <2>5. x.pc = "done" /\ x.in \in Inputs BY <1>2, <1>7, <1>8, <1>10
  <2>6. CoroutineOK(x, log, u, b, seen, tables)
    BY <2>4, <2>5, DoneIsOK, Zenon
  <2> QED BY ONLY PipelineInv, r \in Requests, <1>1, <1>2, <1>3, <1>6, <1>8, <2>6, OneMoves, Zenon
<1>11. CASE ~(req[r].refused \/ req[r].in.via = "evaluate")
  <2>1. x.pc = "credential" /\ x.in \in Inputs /\ ~x.refused BY Zenon, <1>2, <1>7, <1>8, <1>11
  <2>2. IF x.pending THEN log = <<>> ELSE Decided(log, "ALLOWED")
    BY Zenon, <1>2, <1>8, <1>11 DEF AtUsage
  <2>3. AtSending(x, log, u, b, seen)
    BY Zenon, <1>2, <1>3, <1>8, <1>9, <2>1, <2>2 DEF AtSending, AtUsage
  <2>4. CoroutineOK(x, log, u, b, seen, tables)
    BY Zenon, <2>1, <2>3 DEF CoroutineOK, Entering, Deciding, Reading, Sending
  <2> QED BY ONLY PipelineInv, r \in Requests, <1>1, <1>2, <1>3, <1>6, <1>8, <2>4, OneMoves, Zenon
<1> QED BY <1>10, <1>11

------------------------------------------------------------------------------
(* From the credential to the answer: a way out with the deferred row, an      *)
(* error row before or after it, or neither.                                   *)
WaysOut(r, o) ==
    {DeferredRow(r), <<Row("ERROR", o)>> \o DeferredRow(r), DeferredRow(r) \o <<Row("ERROR", o)>>}

(* What AtSending says of the trace, in the form the ways out need.            *)
LEMMA SendingFacts ==
    ASSUME NEW r \in Requests, AtSending(req[r], rows[r], usage[r], sent[r], stored[r])
    PROVE  /\ usage[r] + req[r].lost \in 0..1 /\ req[r].listed = {}
           /\ req[r].in.msg = "call" => usage[r] + req[r].lost = 1 /\ ~req[r].refused /\ LetThrough(req[r], stored[r])
           /\ req[r].decision.redacted # {} => sent[r] # "original"
           /\ Undecided(rows[r]) \/ Decided(rows[r], "ALLOWED")
<1>1. /\ req[r].listed = {}
      /\ req[r].in.msg = "call" => usage[r] + req[r].lost = 1 /\ ~req[r].refused /\ LetThrough(req[r], stored[r])
      /\ req[r].in.msg # "call" => usage[r] = 0 /\ req[r].lost = 0
  BY Zenon DEF AtSending
<1>2. usage[r] + req[r].lost \in 0..1 BY <1>1
<1>3. sent[r] = IF req[r].pc \in {"credential", "forward"} THEN "nothing"
          ELSE IF req[r].decision.redacted # {} THEN "redacted" ELSE "original"
  BY Zenon DEF AtSending
<1>4. req[r].decision.redacted # {} => sent[r] # "original" BY <1>3
<1>5. Undecided(rows[r]) \/ Decided(rows[r], "ALLOWED")
  BY NoRowNoDecision, Zenon DEF AtSending
<1> QED BY <1>1, <1>2, <1>4, <1>5

(* Every one of them closes the log.                                           *)
LEMMA SendingFinish ==
    ASSUME PipelineInv, NEW r \in Requests, NEW a \in Answers, Finish(r, a), req[r].pc \in Sending,
           a = "unscanned" => req[r].in.msg # "call" \/ ~req[r].pol.response_dlp,
           NEW o \in {None, "test", "local"}, NEW new,
           new \in WaysOut(r, o),
           rows' = [rows EXCEPT ![r] = @ \o new], UNCHANGED <<store, usage, sent, stored>>
    PROVE  PipelineInv'
<1> DEFINE x == [req[r] EXCEPT !.pc = "done", !.answer = a]
           late == Row("ALLOWED", Origin(r))
           err == Row("ERROR", o)
           D == DeferredRow(r)
<1>1. x \in Coroutines /\ req' = [req EXCEPT ![r] = x] /\ x.pc = "done" /\ x.answer = a /\ Same(req[r], x)
  BY FinishFacts, Zenon
<1> HIDE DEF x
<1>2. late \in LogRows /\ late.decision = "ALLOWED" /\ err \in LogRows /\ err.decision = "ERROR"
  BY RowFacts
<1>3. D = IF req[r].pending THEN <<late>> ELSE <<>> BY Zenon DEF DeferredRow
<1>4. new \in {D, <<err>> \o D, D \o <<err>>} BY Zenon DEF WaysOut
<1> HIDE DEF late, err, D
<1>5. /\ req[r] \in Coroutines /\ rows[r] \in Seq(LogRows) /\ usage[r] \in Nat /\ sent[r] \in Bodies
      /\ req[r].in \in Inputs /\ AtSending(req[r], rows[r], usage[r], sent[r], stored[r])
  BY OfRequest, Zenon DEF CoroutineOK, Sending
<1>6. rows[r] \o new \in Seq(LogRows) /\ Len(rows[r] \o new) <= 2
      /\ (req[r].in.msg = "call" => Decided(rows[r] \o new, "ALLOWED"))
      /\ (req[r].in.msg # "call" => Undecided(rows[r] \o new))
  <2> DEFINE log == rows[r]
             call == req[r].in.msg = "call"
             pending == req[r].pending
  <2>1. /\ Len(log) <= 1 /\ pending \in BOOLEAN /\ (~call => ~pending /\ Undecided(log))
        /\ call => IF pending THEN log = <<>> ELSE Decided(log, "ALLOWED")
    BY <1>5, Zenon DEF AtSending, Coroutines
  <2>2. call \in BOOLEAN /\ log \in Seq(LogRows) /\ D = IF pending THEN <<late>> ELSE <<>> BY <1>3, <1>5
  <2> HIDE DEF log, call, pending
  <2>3. log \o new \in Seq(LogRows) /\ Len(log \o new) <= 2
        /\ (call => Decided(log \o new, "ALLOWED")) /\ (~call => Undecided(log \o new))
    BY ONLY <2>1, <2>2, <1>2, <1>4, LogCloses, ZenonT(30)
  <2> QED BY <2>3 DEF log, call
<1>7. AtDone(x, rows[r] \o new, usage[r], sent[r], stored[r])
  <2> DEFINE all == rows[r] \o new
             call == req[r].in.msg = "call"
  <2> HIDE DEF all
  <2>1. all \in Seq(LogRows) /\ Len(all) <= 2 /\ (call => Decided(all, "ALLOWED")) /\ (~call => Undecided(all))
    BY <1>6 DEF all
  <2>2. ~\E i \in DOMAIN all : all[i].decision = "BLOCKED"
    BY <2>1, NoBlockedRow, Zenon
  <2>4. /\ usage[r] + req[r].lost \in 0..1 /\ req[r].listed = {}
        /\ (call => usage[r] + req[r].lost = 1 /\ ~req[r].refused /\ LetThrough(req[r], stored[r]))
        /\ (req[r].decision.redacted # {} => sent[r] # "original")
    <3>1. AtSending(req[r], rows[r], usage[r], sent[r], stored[r]) BY <1>5, Zenon
    <3> QED BY <3>1, SendingFacts, Zenon
  <2>5. LetThrough(req[r], stored[r]) => LetThrough(x, stored[r]) /\ ModeRead(x.pol, stored[r])
    BY <1>1 DEF LetThrough, Same
  <2>6. AtDone(x, all, usage[r], sent[r], stored[r])
    BY <1>1, <2>1, <2>2, <2>4, <2>5, Zenon DEF AtDone, Same
  <2> QED BY <2>6 DEF all
<1>8. x.in \in Inputs BY <1>1, <1>5 DEF Same
<1>9. CoroutineOK(x, rows[r] \o new, usage[r], sent[r], stored[r], tables)
  BY <1>1, <1>7, <1>8, DoneIsOK, Zenon
<1> QED BY <1>1, <1>6, <1>9, OneLogs, Zenon

(* _resolve_credential: on, or the ERROR row with the deferred one.            *)
LEMMA ResolveCredentialStep ==
    ASSUME PipelineInv, NEW r \in Requests, NEW ok \in BOOLEAN, ResolveCredential(r, ok)
    PROVE  PipelineInv'
<1>1. req[r].pc = "credential" /\ UNCHANGED <<store, usage, sent, stored>> BY Zenon DEF ResolveCredential, Awaits
<1>2. req[r].pc \in Sending BY <1>1 DEF Sending
<1>3. req[r].in \in Inputs /\ AtSending(req[r], rows[r], usage[r], sent[r], stored[r])
  BY <1>2, OfRequest, Zenon DEF CoroutineOK, Sending
<1>4. CASE ok
  <2> DEFINE pc == IF In(r).msg = "list" THEN "policy_mode" ELSE "forward"
             x == [req[r] EXCEPT !.pc = pc]
  <2>1. Proceed(r, pc) /\ Quiet BY <1>4, Zenon DEF ResolveCredential
  <2>2. pc \in AwaitPoints /\ pc \in {"policy_mode", "forward"} BY DEF AwaitPoints
  <2>3. x \in Coroutines /\ req' = [req EXCEPT ![r] = x] /\ x.pc = pc /\ Same(req[r], x)
    BY <2>1, <2>2, ProceedFacts, Zenon
  <2>4. (pc = "policy_mode" => req[r].in.msg = "list") /\ (pc = "forward" => req[r].in.msg # "list") BY DEF In
  <2> HIDE DEF x, pc
  <2>5. CASE pc = "policy_mode"
    <3>1. Untouched(x, rows[r], usage[r], sent[r])
      BY <1>1, <1>3, <2>3, <2>4, <2>5, Zenon DEF AtSending, Untouched, Same
    <3>2. CoroutineOK(x, rows[r], usage[r], sent[r], stored[r], tables)
      BY <1>3, <2>3, <2>4, <2>5, <3>1, Zenon DEF CoroutineOK, Entering, Deciding, Reading, Sending, Same
    <3> QED BY <1>1, <2>1, <2>3, <3>2, OneGoes, Zenon
  <2>6. CASE pc = "forward"
    <3>1. LetThrough(req[r], stored[r]) => LetThrough(x, stored[r]) BY <2>3 DEF LetThrough, Same
    <3>2. AtSending(x, rows[r], usage[r], sent[r], stored[r])
      BY <1>1, <1>3, <2>3, <2>4, <2>6, <3>1, ZenonT(30) DEF AtSending, Same
    <3>3. CoroutineOK(x, rows[r], usage[r], sent[r], stored[r], tables)
      BY <1>3, <2>3, <2>6, <3>2 DEF CoroutineOK, Entering, Deciding, Reading, Sending, Same
    <3> QED BY <1>1, <2>1, <2>3, <3>3, OneGoes, Zenon
  <2> QED BY <2>2, <2>5, <2>6
<1>5. CASE ~ok
  <2> DEFINE o == IF In(r).msg = "list" THEN None ELSE Origin(r)
             new == <<Row("ERROR", o)>> \o DeferredRow(r)
  <2>1. Finish(r, "error") /\ rows' = [rows EXCEPT ![r] = @ \o new] BY <1>5, Zenon DEF ResolveCredential, Log
  <2>2. o \in {None, "test", "local"} BY RowFacts, Zenon
  <2>3. "error" \in Answers /\ "error" # "unscanned" BY DEF Answers
  <2>4. new \in WaysOut(r, o) BY Zenon DEF WaysOut
  <2> HIDE DEF o, new
  <2> QED BY <1>1, <1>2, <2>1, <2>2, <2>3, <2>4, SendingFinish, Zenon
<1> QED BY <1>4, <1>5

(* _forward: the body leaves, redacted when the decision says so.              *)
LEMMA ForwardStep ==
    ASSUME PipelineInv, NEW r \in Requests, Forward(r)
    PROVE  PipelineInv'
<1> DEFINE x == [req[r] EXCEPT !.pc = "upstream"]
           log == rows[r]
           u == usage[r]
           b == OutgoingBody(r)
           seen == stored[r]
<1>1. req[r].pc = "forward" /\ Proceed(r, "upstream") BY Zenon DEF Forward, Awaits
<1>2. "upstream" \in AwaitPoints BY DEF AwaitPoints
<1>3. x \in Coroutines /\ req' = [req EXCEPT ![r] = x] /\ x.pc = "upstream" /\ Same(req[r], x)
  BY <1>1, <1>2, ProceedFacts, Zenon
<1>4. /\ req[r].in \in Inputs /\ AtSending(req[r], log, u, sent[r], seen)
      /\ log \in Seq(LogRows) /\ u \in Nat /\ seen \in SUBSET Stored
  BY <1>1, OfRequest, Zenon DEF CoroutineOK, Sending
<1>5. /\ tables' = tables /\ present' = present /\ writes' = writes
      /\ rows' = [rows EXCEPT ![r] = log] /\ usage' = [usage EXCEPT ![r] = u] /\ sent' = [sent EXCEPT ![r] = b]
      /\ stored' = [stored EXCEPT ![r] = seen]
  BY DEF Forward, Quiet, store, PipelineInv, Tabled
<1>6. b = (IF req[r].decision.redacted # {} THEN "redacted" ELSE "original") /\ b \in Bodies
  BY DEF OutgoingBody, Bodies
<1> HIDE DEF x, log, u, b, seen
<1>7. LetThrough(req[r], seen) => LetThrough(x, seen) BY ZenonT(30), <1>3 DEF LetThrough, Same
<1>8. AtSending(x, log, u, b, seen)
  <2> DEFINE y == req[r]
  <2>0. AtSending(y, log, u, sent[r], seen) /\ Same(y, x) /\ (LetThrough(y, seen) => LetThrough(x, seen))
        /\ x.pc = "upstream" /\ y.pc = "forward"
        /\ b = (IF y.decision.redacted # {} THEN "redacted" ELSE "original")
    BY <1>1, <1>3, <1>4, <1>6, <1>7, Zenon
  <2> HIDE DEF y
  <2>1. Len(log) <= 1 /\ x.listed = {} /\ (x.pending => x.pol.response_dlp)
    BY ONLY <2>0, Zenon DEF AtSending, Same
  <2>2. x.in.msg \in {"call", "list", "other", "bodiless"} /\ x.in.msg # "list"
    BY ONLY <2>0 DEF AtSending, Same
  <2>3. b = (IF x.decision.redacted # {} THEN "redacted" ELSE "original")
    BY ONLY <2>0, Zenon DEF Same
  <2>4. x.in.msg = "call" =>
          /\ ~x.refused /\ u + x.lost = 1 /\ LetThrough(x, seen)
          /\ IF x.pending THEN log = <<>> ELSE Decided(log, "ALLOWED")
    BY ONLY <2>0, Zenon DEF AtSending, Same
  <2>5. x.in.msg # "call" => ~x.pending /\ u = 0 /\ x.lost = 0 /\ Undecided(log) /\ x.decision.redacted = {}
    BY ONLY <2>0, Zenon DEF AtSending, Same
  <2>6. x.pc = "upstream" BY <2>0
  <2> QED BY ONLY <2>1, <2>2, <2>3, <2>4, <2>5, <2>6 DEF AtSending
<1>9. CoroutineOK(x, log, u, b, seen, tables)
  BY <1>3, <1>4, <1>8 DEF CoroutineOK, Entering, Deciding, Reading, Sending, Same
<1> QED BY ONLY PipelineInv, r \in Requests, <1>3, <1>4, <1>5, <1>6, <1>9, OneMoves, Zenon

(* ForwardFails and UpstreamFails: the error row around the deferred one.      *)
LEMMA ErrorStep ==
    ASSUME PipelineInv, NEW r \in Requests, ForwardFails(r) \/ UpstreamFails(r)
    PROVE  PipelineInv'
<1> DEFINE new == ErrorRows(r)
           o == Origin(r)
<1>1. /\ req[r].pc \in {"forward", "upstream"} /\ Finish(r, "error") /\ rows' = [rows EXCEPT ![r] = @ \o new]
      /\ UNCHANGED <<store, usage, sent, stored>>
  BY Zenon DEF ForwardFails, UpstreamFails, Awaits, Log
<1>2. req[r].pc \in Sending /\ "error" \in Answers /\ "error" # "unscanned" BY <1>1 DEF Sending, Answers
<1>3. o \in {None, "test", "local"} BY RowFacts, Zenon
<1>4. new \in WaysOut(r, o)
  BY Zenon DEF ErrorRows, WaysOut
<1> HIDE DEF new, o
<1> QED BY <1>1, <1>2, <1>3, <1>4, SendingFinish, Zenon

(* The upstream answers: only a call with no scan to wait for ends here, so no *)
(* row is owed.                                                                *)
LEMMA UpstreamAnswersStep ==
    ASSUME PipelineInv, NEW r \in Requests, UpstreamAnswers(r)
    PROVE  PipelineInv'
<1>1. req[r].pc = "upstream" /\ Quiet /\ UNCHANGED <<store, usage, sent, stored>>
  BY Zenon DEF UpstreamAnswers, Awaits
<1>2. /\ req[r].in \in Inputs /\ AtSending(req[r], rows[r], usage[r], sent[r], stored[r]) /\ req[r] \in Coroutines
  BY <1>1, OfRequest, Zenon DEF CoroutineOK, Sending
<1>3. CASE ScansResponse(r)
  <2> DEFINE x == [req[r] EXCEPT !.pc = "scan"]
  <2>1. Proceed(r, "scan") BY <1>3, Zenon DEF UpstreamAnswers
  <2>2. "scan" \in AwaitPoints BY DEF AwaitPoints
  <2>3. x \in Coroutines /\ req' = [req EXCEPT ![r] = x] /\ x.pc = "scan" /\ Same(req[r], x)
    BY <2>1, <2>2, ProceedFacts, Zenon
  <2> HIDE DEF x
  <2>4. req[r].in.msg = "call" BY <1>3, Zenon DEF ScansResponse, In
  <2>5. LetThrough(req[r], stored[r]) => LetThrough(x, stored[r]) BY <2>3 DEF LetThrough, Same
  <2>6. AtSending(x, rows[r], usage[r], sent[r], stored[r])
    BY <1>1, <1>2, <2>3, <2>4, <2>5, Zenon DEF AtSending, Same
  <2>7. CoroutineOK(x, rows[r], usage[r], sent[r], stored[r], tables)
    BY <1>2, <2>3, <2>6, Zenon DEF CoroutineOK, Entering, Deciding, Reading, Sending, Same
  <2> QED BY <1>1, <2>3, <2>7, OneGoes, Zenon
<1>4. CASE ~ScansResponse(r)
  <2> DEFINE new == DeferredRow(r)
  <2>1. Finish(r, "unscanned") BY <1>4, Zenon DEF UpstreamAnswers
  <2>2. req[r].in.msg # "call" \/ ~req[r].pol.response_dlp BY <1>4, Zenon DEF ScansResponse, In
  <2>3. ~req[r].pending BY <1>2, <2>2, Zenon DEF AtSending
  <2>4. rows \in [Requests -> Seq(LogRows)] /\ rows[r] \in Seq(LogRows) BY Zenon DEF PipelineInv, Tabled
  <2>5. rows[r] \o <<>> = rows[r] BY <2>4
  <2>6. new = <<>> BY <2>3, Zenon DEF DeferredRow
  <2>7. rows' = [rows EXCEPT ![r] = @ \o new] BY <1>1, <2>4, <2>5, <2>6 DEF Quiet
  <2>8. new \in WaysOut(r, None)
    BY Zenon DEF WaysOut
  <2>9. req[r].pc \in Sending /\ "unscanned" \in Answers /\ None \in {None, "test", "local"}
    BY <1>1 DEF Sending, Answers
  <2> HIDE DEF new
  <2> QED BY <1>1, <2>1, <2>2, <2>7, <2>8, <2>9, SendingFinish, Zenon
<1> QED BY <1>3, <1>4

(* _scan_message: whatever the scan finds, the deferred row is written.        *)
LEMMA ScanResponseStep ==
    ASSUME PipelineInv, NEW r \in Requests, NEW ok \in BOOLEAN, ScanResponse(r, ok)
    PROVE  PipelineInv'
<1> DEFINE a == IF ok THEN "scanned" ELSE "marker"
           new == DeferredRow(r)
<1>1. /\ req[r].pc = "scan" /\ Finish(r, a) /\ rows' = [rows EXCEPT ![r] = @ \o new]
      /\ UNCHANGED <<store, usage, sent, stored>>
  BY Zenon DEF ScanResponse, Awaits, Log
<1>2. req[r].pc \in Sending /\ a \in Answers /\ a # "unscanned" BY <1>1 DEF Sending, Answers
<1>3. new \in WaysOut(r, None)
      /\ None \in {None, "test", "local"}
  BY Zenon DEF WaysOut
<1> HIDE DEF new, a
<1> QED BY <1>1, <1>2, <1>3, SendingFinish, Zenon

(* tools/list answers with what the policy it read makes visible.              *)
LEMMA ListToolsStep ==
    ASSUME PipelineInv, NEW r \in Requests, ListTools(r)
    PROVE  PipelineInv'
<1> DEFINE shown == {t \in Tools : ToolIsVisible(t, req[r].pol)}
           x == [req[r] EXCEPT !.pc = "done", !.answer = "ok", !.listed = shown]
           row == Row("PASSTHROUGH", None)
           new == <<row>>
<1>1. /\ req[r].pc = "catalog" /\ req' = [req EXCEPT ![r] = x] /\ rows' = [rows EXCEPT ![r] = @ \o new]
      /\ UNCHANGED <<store, usage, sent, stored>>
  BY Zenon DEF ListTools, Awaits, Log
<1>2. /\ req[r] \in Coroutines /\ req[r].in \in Inputs /\ req[r].in.msg = "list"
      /\ Untouched(req[r], rows[r], usage[r], sent[r])
      /\ ModeRead(req[r].pol, stored[r]) /\ ToolsRead(req[r].pol, stored[r])
  BY <1>1, OfRequest DEF CoroutineOK, Deciding
<1>3. shown \in SUBSET Tools /\ \A t \in shown : ToolIsVisible(t, req[r].pol) BY Zenon
<1>4. row \in LogRows /\ row.decision = "PASSTHROUGH" BY RowFacts
<1> HIDE DEF shown, row
<1>5. x \in Coroutines /\ x.pc = "done" /\ x.answer = "ok" /\ x.in = req[r].in /\ x.lost = req[r].lost
      /\ x.decision = req[r].decision /\ x.listed = shown /\ x.pol = req[r].pol
  BY <1>2, <1>3, Zenon DEF Coroutines, AwaitPoints, Answers
<1> HIDE DEF x
<1>6. rows[r] \o new = new /\ new \in Seq(LogRows) /\ Len(new) = 1 /\ new[1] = row /\ DOMAIN new = {1}
  BY <1>2, <1>4 DEF Untouched
<1>7. ~\E i \in DOMAIN new : new[i].decision = "BLOCKED" BY ZenonT(30), <1>4, <1>6
<1> HIDE DEF new
<1>8. AtDone(x, new, usage[r], sent[r], stored[r])
  BY <1>2, <1>3, <1>5, <1>6, <1>7 DEF AtDone, Untouched
<1>9. x.in \in Inputs BY <1>2, <1>5
<1>10. CoroutineOK(x, new, usage[r], sent[r], stored[r], tables)
  BY <1>5, <1>8, <1>9, DoneIsOK, Zenon
<1>11. CoroutineOK(x, rows[r] \o new, usage[r], sent[r], stored[r], tables) /\ rows[r] \o new \in Seq(LogRows)
  BY <1>6, <1>10
<1> QED BY <1>1, <1>5, <1>11, OneLogs, Zenon

(* A cancellation at any await: only the finally around the last part logs.    *)
LEMMA AbandonStep ==
    ASSUME PipelineInv, NEW r \in Requests, Abandon(r)
    PROVE  PipelineInv'
<1>1. /\ req[r].pc \notin {"idle", "done"} /\ Finish(r, "abandoned")
      /\ UNCHANGED <<store, usage, sent, stored>> /\ req[r].pc \in AwaitPoints
  BY OfRequest DEF Abandon, Coroutines
<1>2. CASE req[r].pc \in Sending
  <2> DEFINE new == DeferredRow(r)
  <2>1. rows' = [rows EXCEPT ![r] = @ \o new] BY <1>2, Zenon DEF Abandon, Log, Sending
  <2>2. "abandoned" \in Answers /\ "abandoned" # "unscanned" BY DEF Answers
  <2>3. new \in WaysOut(r, None)
        /\ None \in {None, "test", "local"}
    BY Zenon DEF WaysOut
  <2> HIDE DEF new
  <2> QED BY <1>1, <1>2, <2>1, <2>2, <2>3, SendingFinish, Zenon
<1>3. CASE req[r].pc \in (Entering \cup Deciding) \ {"idle"}
  <2> DEFINE row == Row("ERROR", None)
             new == <<>>
  <2>1. req[r].pc \notin Sending BY <1>3 DEF Entering, Deciding, Sending
  <2>2. Log(r, new) BY <2>1, Zenon DEF Abandon, Sending
  <2>3. row \in LogRows BY RowFacts
  <2>4. new \in {<<>>, <<row>>} /\ "abandoned" \in {"ok", "error", "abandoned"} /\ "abandoned" # "ok" OBVIOUS
  <2> HIDE DEF row
  <2> QED BY <1>1, <1>3, <2>2, <2>3, <2>4, EarlyFinish, Zenon
<1>4. CASE req[r].pc = "usage"
  <2> DEFINE x == [req[r] EXCEPT !.pc = "done", !.answer = "abandoned"]
             new == <<>>
  <2>1. "abandoned" \in Answers BY DEF Answers
  <2>2. x \in Coroutines /\ req' = [req EXCEPT ![r] = x] /\ x.pc = "done" /\ x.answer = "abandoned" /\ Same(req[r], x)
    BY <1>1, <2>1, FinishFacts, Zenon
  <2> HIDE DEF x
  <2>3. req[r].pc \notin Sending BY <1>4 DEF Sending
  <2>4. rows' = [rows EXCEPT ![r] = @ \o new] BY <2>3, Zenon DEF Abandon, Log, Sending
  <2>5. /\ req[r].in \in Inputs /\ AtUsage(req[r], rows[r], usage[r], sent[r], stored[r]) /\ rows[r] \in Seq(LogRows)
    BY <1>4, OfRequest, Zenon DEF CoroutineOK
  <2>6. rows[r] \o new = rows[r] BY <2>5
  <2>7. AtDone(x, rows[r], usage[r], sent[r], stored[r])
    <3>1. /\ Len(rows[r]) <= 1 /\ usage[r] = 0 /\ x.lost = 0 /\ sent[r] = "nothing" /\ x.listed = {}
      BY <2>2, <2>5, Zenon DEF AtUsage, Same
    <3>2. Len(rows[r]) <= 2 /\ usage[r] + x.lost \in 0..1 /\ sent[r] # "original"
          /\ x.answer \in {"error", "abandoned"} /\ x.answer # "unscanned"
      BY <2>2, <2>5, <3>1
    <3> QED BY <2>2, <3>1, <3>2, Zenon DEF AtDone
  <2>8. x.in \in Inputs BY <2>2, <2>5 DEF Same
  <2>9. CoroutineOK(x, rows[r], usage[r], sent[r], stored[r], tables)
    BY <2>2, <2>7, <2>8, DoneIsOK, Zenon
  <2>10. CoroutineOK(x, rows[r] \o new, usage[r], sent[r], stored[r], tables) /\ rows[r] \o new \in Seq(LogRows)
    BY <2>5, <2>6, <2>9, Zenon
  <2> HIDE DEF new
  <2> QED BY <1>1, <2>2, <2>4, <2>10, OneLogs, Zenon
<1> QED BY ZenonT(30), <1>1, <1>2, <1>3, <1>4 DEF AwaitPoints, Entering, Deciding, Sending

------------------------------------------------------------------------------
(* set_policy and delete: a read in progress gets one policy more to have      *)
(* seen, and nobody else notices.                                              *)
LEMMA StoreStep ==
    ASSUME PipelineInv, NEW p \in Stored, tables' = p, NoteStored(p), present' \in BOOLEAN,
           writes < MaxWrites, writes' = writes + 1, UNCHANGED <<req, rows, usage, sent, captured>>
    PROVE  PipelineInv'
<1>1. Tabled /\ \A r \in Requests : CoroutineOK(req[r], rows[r], usage[r], sent[r], stored[r], tables)
  BY Zenon DEF PipelineInv
<1>2. stored' \in [Requests -> SUBSET Stored]
  BY Zenon, <1>1 DEF NoteStored, Tabled
<1>3. writes' \in 0..MaxWrites BY <1>1, PipelineAssumption DEF Tabled
<1>4. Tabled' BY Zenon, <1>1, <1>2, <1>3 DEF Tabled
<1>5. ASSUME NEW r \in Requests
      PROVE  CoroutineOK(req[r], rows[r], usage[r], sent[r], stored'[r], p)
  <2>1. CASE req[r].pc \in Reading
    <3>1. stored'[r] = stored[r] \cup {p} BY <2>1, Zenon DEF NoteStored
    <3>2. ModeRead(req[r].pol, stored[r]) => ModeRead(req[r].pol, stored'[r])
      BY <3>1, Zenon DEF ModeRead
    <3>3. ToolsRead(req[r].pol, stored[r]) => ToolsRead(req[r].pol, stored'[r])
      BY <3>1, Zenon DEF ToolsRead
    <3>4. p \in stored'[r] BY <3>1
    <3> QED BY <1>1, <2>1, <3>2, <3>3, <3>4, Zenon DEF CoroutineOK, Reading, Sending
  <2>2. CASE req[r].pc \notin Reading
    <3>1. stored'[r] = stored[r] BY <2>2, Zenon DEF NoteStored
    <3> QED BY <1>1, <2>2, <3>1, Zenon DEF CoroutineOK
  <2> QED BY <2>1, <2>2
<1> QED BY <1>4, <1>5, Zenon DEF PipelineInv

(* PipelineInv is inductive.                                                   *)
LEMMA PipelineStarts == PipelineInit => PipelineInv
<1> SUFFICES ASSUME PipelineInit PROVE PipelineInv OBVIOUS
<1>1. NoRows \in ReadPolicies BY Zenon DEF ReadPolicies, Stored, NoRows
<1>2. Unstarted \in Coroutines
  BY <1>1, Zenon DEF Unstarted, Coroutines, NoDecision, Verdicts, Violations, AwaitPoints, Answers
<1>3. Tabled
  BY <1>2, PipelineAssumption DEF PipelineInit, Tabled, Stored, Bodies
<1>4. ASSUME NEW r \in Requests
      PROVE  CoroutineOK(req[r], rows[r], usage[r], sent[r], stored[r], tables)
  <2>1. req[r] = Unstarted /\ rows[r] = <<>> /\ usage[r] = 0 /\ sent[r] = "nothing"
    BY Zenon DEF PipelineInit
  <2>2. Untouched(req[r], rows[r], usage[r], sent[r]) /\ req[r].pc = "idle"
    BY <2>1 DEF Untouched, Unstarted, NoDecision
  <2> QED BY <2>2 DEF CoroutineOK, Entering, Deciding, Reading, Sending
<1> QED BY <1>3, <1>4, Zenon DEF PipelineInv

(* Every step of the pipeline, and of the policy store, keeps PipelineInv.     *)
LEMMA PipelineSteps ==
    ASSUME PipelineInv, [PipelineNext]_pipelineVars
    PROVE  PipelineInv'
<1>1. ASSUME NEW p \in StorablePolicies, SetPolicy(p) PROVE PipelineInv'
  <2>1. p \in Stored BY DEF Stored
  <2>2. tables' = p /\ NoteStored(p) /\ writes < MaxWrites /\ writes' = writes + 1
        /\ UNCHANGED <<req, rows, usage, sent, captured>> /\ present' = present
    BY <1>1 DEF SetPolicy
  <2>3. present' \in BOOLEAN BY <2>2 DEF PipelineInv, Tabled
  <2> QED BY <2>1, <2>2, <2>3, StoreStep
<1>2. ASSUME CascadeDelete PROVE PipelineInv'
  <2>1. NoRows \in Stored BY DEF Stored
  <2>2. tables' = NoRows /\ NoteStored(NoRows) /\ writes < MaxWrites /\ writes' = writes + 1
        /\ UNCHANGED <<req, rows, usage, sent, captured>> /\ present' \in BOOLEAN
    BY <1>2, Zenon DEF CascadeDelete
  <2> QED BY <2>1, <2>2, StoreStep
<1>3. ASSUME NEW r \in Requests, Step(r) PROVE PipelineInv'
  BY <1>3, ResolveServerStep, AuthenticateStep, AnswerAtOnceStep, BeginCallStep, BeginOtherStep,
     ReadServerPoliciesStep, ReadToolPoliciesStep, ReadParamRulesStep, CheckRateLimitsStep, CheckQuotaStep,
     EvaluateCallStep, RecordUsageStep, ResolveCredentialStep, ForwardStep, ErrorStep, UpstreamAnswersStep,
     ScanResponseStep, ListToolsStep, Zenon DEF Step
<1>4. ASSUME UNCHANGED pipelineVars PROVE PipelineInv'
  <2>1. /\ tables' = tables /\ present' = present /\ writes' = writes /\ req' = req /\ rows' = rows
        /\ usage' = usage /\ sent' = sent /\ stored' = stored
    BY <1>4 DEF pipelineVars
  <2> QED BY <2>1, Zenon DEF PipelineInv, Tabled
<1> QED BY <1>1, <1>2, <1>3, <1>4, ArriveStep, AbandonStep, Zenon DEF PipelineNext

(* A tool that all the policies seen refuse, in one mode, is not visible under *)
(* the policy put together from them.                                          *)
LEMMA AgreedIsInvisible ==
    ASSUME NEW pol, NEW seen, NEW t, ModeRead(pol, seen), ToolsRead(pol, seen),
           \E m \in Modes : \A p \in seen : p.mode = m /\ Refuses(p, t)
    PROVE  ~ToolIsVisible(t, pol)
  BY DEF ModeRead, ToolsRead, Refuses, ToolIsVisible

(* Where a coroutine stands, and what PipelineInv then says of its trace.      *)
LEMMA RequestTrace ==
    ASSUME PipelineInv, NEW r \in Requests
    PROVE  /\ Len(rows[r]) <= 2 /\ usage[r] + req[r].lost \in 0..1
           /\ (\E i \in DOMAIN rows[r] : rows[r][i].decision = "BLOCKED") => sent[r] = "nothing"
           /\ req[r].decision.redacted # {} => sent[r] # "original"
           /\ req[r].in # None /\ req[r].in.msg = "call" /\ sent[r] # "nothing" => LetThrough(req[r], stored[r])
           /\ \A t \in req[r].listed :
                ModeRead(req[r].pol, stored[r]) /\ ToolsRead(req[r].pol, stored[r]) /\ ToolIsVisible(t, req[r].pol)
<1>1. /\ req[r] \in Coroutines /\ rows[r] \in Seq(LogRows) /\ usage[r] \in Nat /\ sent[r] \in Bodies
      /\ CoroutineOK(req[r], rows[r], usage[r], sent[r], stored[r], tables)
  BY OfRequest, ZenonT(30)
<1>2. CASE req[r].pc \in Entering \cup Deciding
  <2>1. Untouched(req[r], rows[r], usage[r], sent[r]) BY <1>1, <1>2, Zenon DEF CoroutineOK
  <2> QED BY <2>1 DEF Untouched
<1>3. CASE req[r].pc = "usage"
  <2>1. AtUsage(req[r], rows[r], usage[r], sent[r], stored[r]) BY <1>1, <1>3, Zenon DEF CoroutineOK
  <2>2. Len(rows[r]) <= 1 /\ usage[r] = 0 /\ req[r].lost = 0 /\ sent[r] = "nothing" /\ req[r].listed = {}
    BY <2>1, Zenon DEF AtUsage
  <2>3. Len(rows[r]) <= 2 /\ usage[r] + req[r].lost \in 0..1 BY <1>1, <2>2
  <2>4. sent[r] # "original" BY <2>2
  <2> QED BY <2>2, <2>3, <2>4, Zenon
<1>4. CASE req[r].pc \in Sending
  <2>1. AtSending(req[r], rows[r], usage[r], sent[r], stored[r]) BY <1>1, <1>4, Zenon DEF CoroutineOK
  <2>2. Undecided(rows[r]) \/ Decided(rows[r], "ALLOWED")
    BY <2>1, SendingFacts, Zenon
  <2>3. ~\E i \in DOMAIN rows[r] : rows[r][i].decision = "BLOCKED"
    BY <1>1, <2>2, NoBlockedRow, Zenon
  <2>4. Len(rows[r]) <= 1 BY <2>1, Zenon DEF AtSending
  <2>5. Len(rows[r]) <= 2 BY <1>1, <2>4
  <2>6. /\ usage[r] + req[r].lost \in 0..1 /\ req[r].listed = {}
        /\ req[r].in.msg = "call" => LetThrough(req[r], stored[r])
        /\ req[r].decision.redacted # {} => sent[r] # "original"
    BY <2>1, SendingFacts, Zenon
  <2> QED BY <2>3, <2>5, <2>6, Zenon
<1>5. CASE req[r].pc = "done"
  <2>1. AtDone(req[r], rows[r], usage[r], sent[r], stored[r]) BY <1>1, <1>5, Zenon DEF CoroutineOK
  <2> QED BY <2>1, Zenon DEF AtDone
<1> QED BY <1>1, <1>2, <1>3, <1>4, <1>5, Zenon DEF Coroutines, AwaitPoints, Entering, Deciding, Sending

(* PipelineInv has the six properties.                                         *)
LEMMA PipelineInvImplies ==
    ASSUME PipelineInv
    PROVE  /\ PipelineTypeOK /\ OneTrueDecisionRow /\ BlockedNeverSent
           /\ AgreedRefusalHolds /\ AgreedScanHolds /\ UsageFollowsRows
<1>1. PipelineTypeOK
  <2>1. tables \in StorablePolicies \cup {NoRows} /\ present \in BOOLEAN /\ writes \in 0..MaxWrites
    BY ZenonT(30) DEF PipelineInv, Tabled, Stored
  <2>2. ASSUME NEW r \in Requests
        PROVE  /\ req[r].pc \in AwaitPoints /\ req[r].in \in Inputs \cup {None} /\ req[r].answer \in Answers
               /\ sent[r] \in {"nothing", "original", "redacted"} /\ stored[r] \subseteq StorablePolicies \cup {NoRows}
    BY OfRequest DEF Coroutines, Bodies, Stored
  <2> QED BY <2>1, <2>2, RequestTrace, Zenon DEF PipelineTypeOK
<1>2. BlockedNeverSent
  BY RequestTrace, Zenon DEF BlockedNeverSent
<1>3. AgreedRefusalHolds
  <2> SUFFICES ASSUME NEW r \in Requests, NEW t \in Tools, stored[r] # {},
                      \E m \in Modes : \A p \in stored[r] : p.mode = m /\ Refuses(p, t)
               PROVE  t \notin req[r].listed /\ (IsCall(r) /\ In(r).tool = t => sent[r] = "nothing")
    BY Zenon DEF AgreedRefusalHolds
  <2>1. ASSUME ModeRead(req[r].pol, stored[r]), ToolsRead(req[r].pol, stored[r]), ToolIsVisible(t, req[r].pol)
        PROVE  FALSE
    BY <2>1, AgreedIsInvisible, Zenon
  <2>2. t \notin req[r].listed BY <2>1, RequestTrace, Zenon
  <2>3. ASSUME IsCall(r), In(r).tool = t, sent[r] # "nothing" PROVE FALSE
    <3>1. LetThrough(req[r], stored[r]) BY <2>3, RequestTrace, Zenon DEF IsCall, In
    <3> QED BY <2>1, <2>3, <3>1, Zenon DEF LetThrough, In
  <2> QED BY <2>2, <2>3
<1>4. ASSUME NEW r \in Requests, Done(r), IsCall(r)
      PROVE  /\ AtDone(req[r], rows[r], usage[r], sent[r], stored[r]) /\ req[r].in.msg = "call"
  BY <1>4, OfRequest, Zenon DEF Done, IsCall, In, Awaits, CoroutineOK
<1>5. OneTrueDecisionRow
  BY <1>4, Zenon DEF OneTrueDecisionRow, AtDone, Decided
<1>6. AgreedScanHolds
  BY <1>4, ZenonT(30) DEF AgreedScanHolds, AtDone, ModeRead
<1>7. UsageFollowsRows
  BY <1>4, Zenon DEF UsageFollowsRows, AtDone, Undecided, Decided
<1> QED BY <1>1, <1>2, <1>3, <1>5, <1>6, <1>7

(* PipelineInv holds in every state of the pipeline, for any number of         *)
(* concurrent requests, any inputs, any policies and any number of policy      *)
(* writes.                                                                     *)
THEOREM PipelineAlways == PipelineSpec => []PipelineInv
  BY PipelineStarts, PipelineSteps, PTL DEF PipelineSpec

(* The shape of the pipeline's state: every coroutine stands at one of its     *)
(* awaits, with at most two rows and one usage increment, made or lost.        *)
THEOREM PipelineTypes == PipelineSpec => []PipelineTypeOK
  BY PipelineAlways, PipelineInvImplies, PTL

(* A call answered on its merits, or one that reached the upstream, has        *)
(* exactly one decision row, and it is true: the deferred ALLOWED row of       *)
(* _log_deferred_allowed is written on every way out.                          *)
THEOREM OneDecisionRow == PipelineSpec => []OneTrueDecisionRow
  BY PipelineAlways, PipelineInvImplies, PTL

(* What has a BLOCKED row never reaches the upstream, and a redacted call      *)
(* never goes out in its original form, whatever is written or abandoned       *)
(* meanwhile.                                                                  *)
THEOREM BlockedStaysHere == PipelineSpec => []BlockedNeverSent
  BY PipelineAlways, PipelineInvImplies, PTL

(* A tool that every policy stored during the three statements of              *)
(* get_policies_for refuses in one mode is neither called nor listed.          *)
THEOREM AgreedRefusals == PipelineSpec => []AgreedRefusalHolds
  BY PipelineAlways, PipelineInvImplies, PTL

(* When every policy stored during the read asks for the scan, no answer goes  *)
(* out unscanned.                                                              *)
THEOREM AgreedScans == PipelineSpec => []AgreedScanHolds
  BY PipelineAlways, PipelineInvImplies, PTL

(* record_usage follows the audit trail: as many increments, made or lost, as  *)
(* decision rows.                                                              *)
THEOREM UsageCountsRows == PipelineSpec => []UsageFollowsRows
  BY PipelineAlways, PipelineInvImplies, PTL
=============================================================================
