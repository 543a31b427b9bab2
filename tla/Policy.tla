------------------------------- MODULE Policy -------------------------------
(* The rules engine of argus/policy.py as operators: evaluate, _check_param,  *)
(* tool_is_visible, and the part of argus/dlp.py that decides what a scan of  *)
(* the arguments does to a call.                                              *)
(*                                                                            *)
(* A value is what the rules tell apart: its length as text, and its number   *)
(* (None when float() refuses it, or when it is not comparable).  What a      *)
(* pattern says of a value is an input, out[param][pattern]: the match runs   *)
(* in a worker under two timeouts, and the engine sees one of three outcomes. *)
EXTENDS Integers, Sequences

CONSTANT None

Matched == "matched"
NotMatched == "not_matched"
Undetermined == "undetermined"
Outcomes == {Matched, NotMatched, Undetermined}

Modes == {"passthrough", "allowlist", "denylist"}

First(S) == CHOOSE i \in S : \A j \in S : i <= j

------------------------------------------------------------------------------
(* _match_with_timeout: the outcome the engine sees of a pattern, from what    *)
(* the pattern would say of the value and how the worker fared.  A worker that *)
(* was not ready, timed out or failed yields no answer at all.                 *)
MatchWithTimeout(matches, answered) ==
    IF ~answered THEN Undetermined
    ELSE IF matches THEN Matched ELSE NotMatched

------------------------------------------------------------------------------
(* The block patterns a value does not clear: a match, or no answer.           *)
BlockHitsFailOpen(rule, out) ==
    {i \in DOMAIN rule.block_patterns : out[rule.block_patterns[i]] = Matched}
BlockHits(rule, out) ==
    {i \in DOMAIN rule.block_patterns : out[rule.block_patterns[i]] # NotMatched}

(* The allow list is met by one pattern that certainly matches.                *)
AllowSeen(rule, out) == {out[rule.allow_patterns[i]] : i \in DOMAIN rule.allow_patterns}
AllowMetOnTimeout(rule, out) ==
    rule.allow_patterns = <<>> \/ AllowSeen(rule, out) \cap {Matched, Undetermined} # {}
AllowMet(rule, out) ==
    rule.allow_patterns = <<>> \/ Matched \in AllowSeen(rule, out)

TooLongOffByOne(rule, value) == rule.max_length # None /\ value.len >= rule.max_length
TooLong(rule, value) == rule.max_length # None /\ value.len > rule.max_length

OutOfRange(rule, value) ==
    IF value.num = None THEN None
    ELSE IF rule.max_value # None /\ value.num > rule.max_value THEN "max_value"
    ELSE IF rule.min_value # None /\ value.num < rule.min_value THEN "min_value"
    ELSE None

(* _check_param: the name of the rule the value violates, or None.             *)
CheckParam(rule, value, out) ==
    IF rule.denied THEN "denied_param"
    ELSE IF TooLong(rule, value) THEN "max_length"
    ELSE IF BlockHits(rule, out) # {} THEN
            IF out[rule.block_patterns[First(BlockHits(rule, out))]] = Matched
            THEN "block_pattern" ELSE "block_pattern_undetermined"
    ELSE IF ~AllowMet(rule, out) THEN
            IF Undetermined \in AllowSeen(rule, out)
            THEN "allow_pattern_undetermined" ELSE "allow_pattern"
    ELSE OutOfRange(rule, value)

(* dlp_scan over scan_value: the arguments in which a detector or pattern of   *)
(* the given action fires.  A custom pattern without an answer is one finding  *)
(* over the whole value.                                                       *)
DlpHits(args, policy, out, action) ==
    {p \in DOMAIN args : \E i \in DOMAIN policy.dlp :
        /\ policy.dlp[i].action = action
        /\ out[p][policy.dlp[i].pattern] # NotMatched}

(* What a decision does to a call, least severe first: the arguments go out as *)
(* they came, with some of them redacted, or not at all.                       *)
Allow == [blocked |-> FALSE, rule |-> None, redacted |-> {}]
Block(rule) == [blocked |-> TRUE, rule |-> rule, redacted |-> {}]
Redact(params) == [blocked |-> FALSE, rule |-> None, redacted |-> params]

ParamViolation(rules, args, out, i) ==
    IF rules[i].param \in DOMAIN args
    THEN CheckParam(rules[i].rule, args[rules[i].param], out[rules[i].param])
    ELSE None

(* evaluate: tool lists, then parameter rules in row order, then DLP.          *)
Evaluate(tool, args, policy, out) ==
    LET rules == policy.param_rules[tool]
        bad == {i \in DOMAIN rules : ParamViolation(rules, args, out, i) # None}
    IN  IF policy.mode = "allowlist" /\ tool \notin policy.allowed THEN Block("allowlist")
        ELSE IF policy.mode = "denylist" /\ tool \in policy.denied THEN Block("denylist")
        ELSE IF bad # {} THEN Block(ParamViolation(rules, args, out, First(bad)))
        ELSE IF DlpHits(args, policy, out, "block") # {} THEN Block("dlp")
        ELSE IF DlpHits(args, policy, out, "redact") # {}
             THEN Redact(DlpHits(args, policy, out, "redact"))
        ELSE Allow

(* tool_is_visible: whether tools/list shows the tool.                         *)
ToolIsVisible(tool, policy) ==
    /\ policy.mode = "allowlist" => tool \in policy.allowed
    /\ policy.mode = "denylist" => tool \notin policy.denied

(* The order in which decisions get stricter.                                  *)
AtLeastAsStrict(d, e) ==
    \/ d.blocked
    \/ ~e.blocked /\ e.redacted \subseteq d.redacted
=============================================================================
