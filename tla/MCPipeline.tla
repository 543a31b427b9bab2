----------------------------- MODULE MCPipeline -----------------------------
(* Pipeline over one server, one tool and a few requests at a time.            *)
EXTENDS Pipeline

In4(via, msg, bridged) == [via |-> via, msg |-> msg, bridged |-> bridged, tool |-> "t"]

(* Both generations of client, every kind of message, Try-it (always bridged,  *)
(* always a call) and the local evaluation.                                    *)
MCInputs ==
    {In4("direct", m, b) : m \in {"call", "nameless", "list", "other"}, b \in BOOLEAN}
    \cup {In4("direct", m, FALSE) :
            m \in {"oversize", "malformed", "mismatch", "discover", "bodiless"}}
    \cup {In4("tryit", "call", TRUE), In4("evaluate", "call", FALSE)}

(* A client's call beside an operator's Try-it.                                *)
MCCalls == {In4("direct", "call", FALSE), In4("tryit", "call", TRUE)}

PathRule ==
    [denied |-> FALSE, max_length |-> 1, block_patterns |-> <<>>,
     allow_patterns |-> <<>>, max_value |-> None, min_value |-> None]

Pol(mode, allowed, denied, rules, dlp, scan) ==
    [mode |-> mode, allowed |-> allowed, denied |-> denied,
     param_rules |-> [t \in {"t"} |-> rules], dlp |-> dlp, response_dlp |-> scan]

(* The tool denied, in two policies of one mode that differ in the rest; the   *)
(* tool not allowed, with the response scanned; the tool allowed with its long *)
(* arguments refused; the tool allowed with what DLP finds redacted and the    *)
(* response scanned.                                                           *)
MCPolicies ==
    {Pol("denylist", {}, {"t"}, <<>>, <<>>, FALSE),
     Pol("denylist", {}, {"t"}, <<>>, <<[pattern |-> "p", action |-> "redact"]>>, TRUE),
     Pol("allowlist", {}, {}, <<>>, <<>>, TRUE),
     Pol("allowlist", {"t"}, {}, <<[param |-> "x", rule |-> PathRule]>>, <<>>, FALSE),
     Pol("allowlist", {"t"}, {}, <<>>, <<[pattern |-> "p", action |-> "redact"]>>, TRUE)}

MCArgs == [x \in {"x"} |-> [len |-> 2, num |-> None]]
MCOutcomeSpace == {[x \in {"x"} |-> [p \in {"p"} |-> o]] : o \in Outcomes}
=============================================================================
