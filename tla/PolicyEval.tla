----------------------------- MODULE PolicyEval -----------------------------
(* One tools/call evaluated by the rules engine while its match workers lose   *)
(* their answers one by one: the forkserver is slow, a match exceeds its       *)
(* budget, a queue fails (argus/policy.py, _run_worker_with_timeout).          *)
EXTENDS Policy

CONSTANTS
    Tools,          \* tool names
    Patterns,       \* block, allow and DLP patterns
    PolicySpace,    \* the policies a server may have
    ArgsSpace       \* the argument objects a call may carry: param -> value

(* What the request models of the control plane guarantee of a stored rule and *)
(* what the engine derives from an argument.                                   *)
RuleOK(rule) ==
    /\ rule.denied \in BOOLEAN
    /\ rule.max_length = None \/ rule.max_length \in Int
    /\ rule.max_value = None \/ rule.max_value \in Int
    /\ rule.min_value = None \/ rule.min_value \in Int
    /\ \A i \in DOMAIN rule.block_patterns : rule.block_patterns[i] \in Patterns
    /\ \A i \in DOMAIN rule.allow_patterns : rule.allow_patterns[i] \in Patterns
ValueOK(value) == value.len \in Int /\ (value.num = None \/ value.num \in Int)

ASSUME PolicyAssumption ==
    /\ None \notin {"denied_param", "max_length", "block_pattern", "block_pattern_undetermined",
                    "allow_pattern", "allow_pattern_undetermined", "max_value", "min_value"}
    /\ \A pol \in PolicySpace :
        /\ \A t \in Tools : \A i \in DOMAIN pol.param_rules[t] : RuleOK(pol.param_rules[t][i].rule)
        /\ \A i \in DOMAIN pol.dlp : pol.dlp[i].pattern \in Patterns
    /\ \A a \in ArgsSpace : \A p \in DOMAIN a : ValueOK(a[p])

VARIABLES
    policy,         \* the policy the request read
    tool,           \* params.name of the call
    args,           \* params.arguments of the call
    matches,        \* what each pattern would say of each argument
    answered        \* which (argument, pattern) matches come back in time

vars == <<policy, tool, args, matches, answered>>

(* The outcomes the engine sees.                                               *)
OutcomesSeen(m, a) ==
    [p \in DOMAIN m |-> [r \in Patterns |-> MatchWithTimeout(m[p][r], a[p][r])]]

Decision == Evaluate(tool, args, policy, OutcomesSeen(matches, answered))

AllAnswered(m) == [p \in DOMAIN m |-> [r \in Patterns |-> TRUE]]

Init ==
    /\ policy \in PolicySpace
    /\ tool \in Tools
    /\ args \in ArgsSpace
    /\ matches \in [DOMAIN args -> [Patterns -> BOOLEAN]]
    /\ answered = AllAnswered(matches)

(* A worker is terminated without an answer.  Which patterns can lose theirs   *)
(* is the environment's choice; an re2 pattern never does.                     *)
LoseAnswer(p, r) ==
    /\ answered[p][r]
    /\ answered' = [answered EXCEPT ![p][r] = FALSE]
    /\ UNCHANGED <<policy, tool, args, matches>>

Next == \E p \in DOMAIN args, r \in Patterns : LoseAnswer(p, r)

Spec == Init /\ [][Next]_vars

------------------------------------------------------------------------------
(* What the operator asked for, stated without the engine's order of checks:   *)
(* a value complies with a rule when every constraint of the rule holds of it. *)
Complies(rule, value, m) ==
    /\ ~rule.denied
    /\ rule.max_length # None => value.len <= rule.max_length
    /\ \A i \in DOMAIN rule.block_patterns : ~m[rule.block_patterns[i]]
    /\ rule.allow_patterns # <<>> =>
           \E i \in DOMAIN rule.allow_patterns : m[rule.allow_patterns[i]]
    /\ value.num # None =>
           /\ rule.max_value # None => value.num <= rule.max_value
           /\ rule.min_value # None => value.num >= rule.min_value

CallComplies ==
    /\ ToolIsVisible(tool, policy)
    /\ LET rules == policy.param_rules[tool] IN
       \A i \in DOMAIN rules : rules[i].param \in DOMAIN args =>
           Complies(rules[i].rule, args[rules[i].param], matches[rules[i].param])
    /\ \A p \in DOMAIN args, i \in DOMAIN policy.dlp :
           policy.dlp[i].action = "block" => ~matches[p][policy.dlp[i].pattern]

(* The arguments a redacting detector really matches.                          *)
MustRedact ==
    {p \in DOMAIN args : \E i \in DOMAIN policy.dlp :
        policy.dlp[i].action = "redact" /\ matches[p][policy.dlp[i].pattern]}

------------------------------------------------------------------------------
(* A call the engine lets through complies with the policy, and every argument *)
(* a redacting detector matches is redacted, whichever workers lost their      *)
(* answers: a timeout never opens the gate (_check_param's fail-closed         *)
(* branches, _scan_value_with_custom_pattern's whole-value finding).           *)
ForwardedComplies ==
    ~Decision.blocked => CallComplies /\ MustRedact \subseteq Decision.redacted

(* With every answer in, the engine refuses nothing it should let through and  *)
(* redacts nothing else: its ordered checks compute exactly the policy.        *)
AnsweredIsExact ==
    answered = AllAnswered(matches) =>
        /\ Decision.blocked <=> ~CallComplies
        /\ ~Decision.blocked => Decision.redacted = MustRedact

(* Losing an answer makes the decision stricter or leaves it alone: load on    *)
(* the match workers can refuse a call, it can never admit or unredact one.    *)
LoadOnlyTightens ==
    [][AtLeastAsStrict(Decision', Decision)]_vars

=============================================================================
