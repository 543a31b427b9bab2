---------------------------- MODULE MCPolicyEval ----------------------------
(* PolicyEval over two tools, one argument and two patterns.                   *)
EXTENDS PolicyEval

MCTools == {"read", "write"}
MCPatterns == {"p", "q"}

PatternLists == {<<>>, <<"p">>, <<"p", "q">>}
ParamRules ==
    [denied : BOOLEAN, max_length : {None, 1}, block_patterns : PatternLists,
     allow_patterns : PatternLists \cup {<<"q">>}, max_value : {None, 1}, min_value : {None, 1}]

Dlps == {<<>>, <<[pattern |-> "p", action |-> "redact"]>>,
         <<[pattern |-> "q", action |-> "redact"], [pattern |-> "p", action |-> "block"]>>}

(* "write" carries the parameter rule; "read" has none.  The list of the mode  *)
(* names "read", so each mode tells the two tools apart.                       *)
ListFor(m, listed) == IF m = listed THEN {"read"} ELSE {}

MCPolicySpace ==
    {[mode |-> m, allowed |-> ListFor(m, "allowlist"), denied |-> ListFor(m, "denylist"),
      param_rules |-> [t \in MCTools |->
          IF t = "write" THEN <<[param |-> "path", rule |-> r]>> ELSE <<>>],
      dlp |-> d] : m \in Modes, r \in ParamRules, d \in Dlps}

MCValues == {[len |-> 1, num |-> None], [len |-> 2, num |-> None],
             [len |-> 1, num |-> 0], [len |-> 1, num |-> 1], [len |-> 1, num |-> 2]}

(* A call supplies the ruled parameter, or leaves it out.                      *)
MCArgsSpace == UNION {[ps -> MCValues] : ps \in {{}, {"path"}}}
=============================================================================
