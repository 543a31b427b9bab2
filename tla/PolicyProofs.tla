---------------------------- MODULE PolicyProofs ----------------------------
(* What a policy promises.  Its rules: the engine fails closed, for every      *)
(* policy, argument object and loss of match answers (PolicyEval).  Its rate   *)
(* limit: what a token bucket admits over a stretch of time, for any replicas, *)
(* requests and limits (RateLimiter).                                          *)
EXTENDS PolicyEval, RateLimiter, SequenceTheorems, TLAPS

(* A leaf that names no prover is tried with SMT, with Zenon, and with SMT     *)
(* once more and for longer.                                                   *)
USE SMT, Zenon, SMTT(30)

(* A value passes _check_param exactly when it passes each of its checks.      *)
LEMMA CheckParamPasses ==
    ASSUME NEW rule, NEW value, NEW out, RuleOK(rule)
    PROVE  CheckParam(rule, value, out) = None <=>
               /\ ~rule.denied /\ ~TooLong(rule, value)
               /\ BlockHits(rule, out) = {} /\ AllowMet(rule, out)
               /\ OutOfRange(rule, value) = None
  BY Zenon, PolicyAssumption DEF CheckParam, RuleOK

(* The checks on the value alone are the operator's bounds.                    *)
LEMMA BoundsExact ==
    ASSUME NEW rule, NEW value, RuleOK(rule), ValueOK(value)
    PROVE  /\ ~TooLong(rule, value) <=> (rule.max_length # None => value.len <= rule.max_length)
           /\ OutOfRange(rule, value) = None <=>
                  (value.num # None =>
                      /\ rule.max_value # None => value.num <= rule.max_value
                      /\ rule.min_value # None => value.num >= rule.min_value)
  BY PolicyAssumption DEF RuleOK, ValueOK, TooLong, OutOfRange

(* What evaluate decides, without its order of checks.                         *)
Violates(i, out) == ParamViolation(policy.param_rules[tool], args, out, i) # None
Refused(out) ==
    \/ ~ToolIsVisible(tool, policy)
    \/ \E i \in DOMAIN policy.param_rules[tool] : Violates(i, out)
    \/ DlpHits(args, policy, out, "block") # {}

(* evaluate refuses exactly when one of its checks does.                      *)
LEMMA EvaluateDecides ==
    ASSUME NEW out
    PROVE  LET d == Evaluate(tool, args, policy, out) IN
           /\ d.blocked <=> Refused(out)
           /\ ~d.blocked => d.redacted = DlpHits(args, policy, out, "redact")
  BY DEF Evaluate, Refused, Violates, Block, Redact, Allow, ToolIsVisible

------------------------------------------------------------------------------
(* The shapes of the state: the answers are one Boolean per argument and       *)
(* pattern.                                                                    *)
Grid(a) == [DOMAIN a -> [Patterns -> BOOLEAN]]
Shaped ==
    /\ policy \in PolicySpace /\ tool \in Tools /\ args \in ArgsSpace
    /\ matches \in Grid(args) /\ answered \in Grid(args)

(* The initial states are shaped.                                             *)
LEMMA ShapedInit == Init => Shaped
  <1>1. SUFFICES ASSUME Init PROVE answered \in Grid(args)
    BY DEF Init, Shaped, Grid
  <1>2. DOMAIN matches = DOMAIN args
    BY <1>1 DEF Init
  <1> QED
    BY <1>1, <1>2 DEF Init, AllAnswered, Grid

(* Losing an answer keeps the state shaped.                                   *)
LEMMA ShapedStep == Shaped /\ [Next]_vars => Shaped'
  <1>1. SUFFICES ASSUME Shaped, NEW p \in DOMAIN args, NEW r \in Patterns, LoseAnswer(p, r)
                 PROVE  Shaped'
    BY DEF Next, vars, Shaped, Grid
  <1>2. answered \in [DOMAIN args -> [Patterns -> BOOLEAN]]
    BY <1>1 DEF Shaped, Grid
  <1>3. [answered[p] EXCEPT ![r] = FALSE] \in [Patterns -> BOOLEAN]
    BY <1>2
  <1>4. [answered EXCEPT ![p] = [answered[p] EXCEPT ![r] = FALSE]] \in [DOMAIN args -> [Patterns -> BOOLEAN]]
    BY <1>2, <1>3
  <1>5. answered' = [answered EXCEPT ![p] = [answered[p] EXCEPT ![r] = FALSE]]
    BY <1>1 DEF LoseAnswer
  <1>6. answered' \in Grid(args)
    BY <1>4, <1>5 DEF Grid
  <1> QED
    BY <1>1, <1>6 DEF LoseAnswer, Shaped

(* The outcomes the engine sees, one argument and pattern at a time.           *)
Seen == OutcomesSeen(matches, answered)

(* What the engine sees of a match is its truth or nothing.                   *)
LEMMA SeenAt ==
    ASSUME Shaped, NEW p \in DOMAIN args, NEW r \in Patterns
    PROVE  /\ Seen[p][r] = Undetermined <=> ~answered[p][r]
           /\ Seen[p][r] = Matched <=> answered[p][r] /\ matches[p][r]
           /\ Seen[p][r] = NotMatched <=> answered[p][r] /\ ~matches[p][r]
  <1>1. DOMAIN matches = DOMAIN args
    BY DEF Shaped, Grid
  <1>2. Seen[p][r] = MatchWithTimeout(matches[p][r], answered[p][r])
    BY <1>1 DEF Seen, OutcomesSeen
  <1> QED
    BY <1>2 DEF MatchWithTimeout, Matched, NotMatched, Undetermined

(* A value the engine passes complies; with every answer in, and only then.    *)
LEMMA PassedComplies ==
    ASSUME Shaped, NEW p \in DOMAIN args, NEW rule, RuleOK(rule)
    PROVE  /\ CheckParam(rule, args[p], Seen[p]) = None => Complies(rule, args[p], matches[p])
           /\ (\A r \in Patterns : answered[p][r]) /\ Complies(rule, args[p], matches[p])
                  => CheckParam(rule, args[p], Seen[p]) = None
  <1>1. ValueOK(args[p])
    BY PolicyAssumption DEF Shaped
  <1>2. BlockHits(rule, Seen[p]) = {} =>
            \A i \in DOMAIN rule.block_patterns : ~matches[p][rule.block_patterns[i]]
    BY SeenAt DEF BlockHits, RuleOK
  <1>3. AllowMet(rule, Seen[p]) =>
            (rule.allow_patterns # <<>> =>
                \E i \in DOMAIN rule.allow_patterns : matches[p][rule.allow_patterns[i]])
    BY SeenAt DEF AllowMet, AllowSeen, RuleOK
  <1>4. ASSUME \A r \in Patterns : answered[p][r]
        PROVE  /\ (\A i \in DOMAIN rule.block_patterns : ~matches[p][rule.block_patterns[i]])
                      => BlockHits(rule, Seen[p]) = {}
               /\ (rule.allow_patterns # <<>> =>
                      \E i \in DOMAIN rule.allow_patterns : matches[p][rule.allow_patterns[i]])
                      => AllowMet(rule, Seen[p])
    BY <1>4, SeenAt DEF BlockHits, AllowMet, AllowSeen, RuleOK
  <1> QED
    BY <1>1, <1>2, <1>3, <1>4, CheckParamPasses, BoundsExact DEF Complies

(* The parameter rules of the called tool are well formed.                     *)
LEMMA RulesOK ==
    ASSUME Shaped
    PROVE  /\ \A i \in DOMAIN policy.param_rules[tool] : RuleOK(policy.param_rules[tool][i].rule)
           /\ \A i \in DOMAIN policy.dlp : policy.dlp[i].pattern \in Patterns
  BY PolicyAssumption DEF Shaped

(* In every shaped state a call that is let through complies.                  *)
LEMMA ShapedForwards == Shaped => ForwardedComplies
  <1> SUFFICES ASSUME Shaped, ~Decision.blocked
               PROVE  CallComplies /\ MustRedact \subseteq Decision.redacted
    BY DEF ForwardedComplies
  <1> DEFINE rules == policy.param_rules[tool]
  <1>1. ~Refused(Seen) /\ Decision.redacted = DlpHits(args, policy, Seen, "redact")
    BY EvaluateDecides DEF Decision, Seen
  <1>2. ASSUME NEW i \in DOMAIN rules, rules[i].param \in DOMAIN args
        PROVE  Complies(rules[i].rule, args[rules[i].param], matches[rules[i].param])
    <2>1. CheckParam(rules[i].rule, args[rules[i].param], Seen[rules[i].param]) = None
      BY <1>1, <1>2 DEF Refused, Violates, ParamViolation
    <2> QED
      BY <1>2, <2>1, RulesOK, PassedComplies
  <1>3. ASSUME NEW p \in DOMAIN args, NEW i \in DOMAIN policy.dlp, policy.dlp[i].action = "block"
        PROVE  ~matches[p][policy.dlp[i].pattern]
    BY <1>1, <1>3, RulesOK, SeenAt DEF Refused, DlpHits
  <1>4. MustRedact \subseteq Decision.redacted
    BY <1>1, RulesOK, SeenAt DEF MustRedact, DlpHits
  <1> QED
    BY <1>1, <1>2, <1>3, <1>4 DEF CallComplies, Refused

(* A call the engine lets through complies with the policy whichever match     *)
(* workers lost their answers (_check_param and dlp_scan fail closed).         *)
THEOREM TimeoutsFailClosed == Spec => []ForwardedComplies
  BY ShapedInit, ShapedStep, ShapedForwards, PTL DEF Spec

(* In every shaped state the decision is exact once every answer is in.        *)
LEMMA ShapedExact == Shaped => AnsweredIsExact
  <1> SUFFICES ASSUME Shaped, answered = AllAnswered(matches)
               PROVE  /\ Decision.blocked <=> ~CallComplies
                      /\ ~Decision.blocked => Decision.redacted = MustRedact
    BY DEF AnsweredIsExact
  <1> DEFINE rules == policy.param_rules[tool]
  <1>1. \A p \in DOMAIN args, r \in Patterns : answered[p][r]
    <2>1. DOMAIN matches = DOMAIN args
      BY DEF Shaped, Grid
    <2> QED
      BY <2>1 DEF AllAnswered
  <1>2. /\ Decision.blocked <=> Refused(Seen)
        /\ ~Decision.blocked => Decision.redacted = DlpHits(args, policy, Seen, "redact")
    BY EvaluateDecides DEF Decision, Seen
  <1>3. ASSUME NEW a PROVE DlpHits(args, policy, Seen, a) =
            {p \in DOMAIN args : \E i \in DOMAIN policy.dlp :
                policy.dlp[i].action = a /\ matches[p][policy.dlp[i].pattern]}
    <2>1. ASSUME NEW p \in DOMAIN args, NEW i \in DOMAIN policy.dlp
          PROVE  Seen[p][policy.dlp[i].pattern] # NotMatched <=> matches[p][policy.dlp[i].pattern]
      BY <1>1, RulesOK, SeenAt
    <2> QED
      BY <2>1 DEF DlpHits
  <1>4. ASSUME CallComplies PROVE ~Refused(Seen)
    <2>1. ASSUME NEW i \in DOMAIN rules PROVE ~Violates(i, Seen)
      <3>1. CASE rules[i].param \notin DOMAIN args
        BY <3>1 DEF Violates, ParamViolation
      <3>2. CASE rules[i].param \in DOMAIN args
        <4>1. Complies(rules[i].rule, args[rules[i].param], matches[rules[i].param])
          BY Zenon, <1>4, <3>2 DEF CallComplies
        <4>2. CheckParam(rules[i].rule, args[rules[i].param], Seen[rules[i].param]) = None
          BY <1>1, <3>2, <4>1, RulesOK, PassedComplies
        <4> QED
          BY <4>2, <3>2 DEF Violates, ParamViolation
      <3> QED
        BY <3>1, <3>2
    <2>2. DlpHits(args, policy, Seen, "block") = {}
      BY <1>3, <1>4 DEF CallComplies
    <2> QED
      BY <1>4, <2>1, <2>2 DEF Refused, CallComplies
  <1>5. ~Decision.blocked => CallComplies
    BY ShapedForwards DEF ForwardedComplies
  <1> QED
    BY <1>2, <1>3, <1>4, <1>5 DEF MustRedact

(* With every answer in, the engine's ordered checks compute exactly the       *)
(* policy: _check_param and dlp_scan refuse and redact nothing else.           *)
THEOREM AnsweredDecidesExactly == Spec => []AnsweredIsExact
  BY ShapedInit, ShapedStep, ShapedExact, PTL DEF Spec

------------------------------------------------------------------------------
(* A lost answer turns an outcome into Undetermined and changes no other.      *)
Worse(seen, lost) ==
    \A p \in DOMAIN args, r \in Patterns : lost[p][r] \in {seen[p][r], Undetermined}

(* A step of the system only replaces outcomes by Undetermined.               *)
LEMMA LossIsWorse ==
    ASSUME Shaped, NEW p \in DOMAIN args, NEW r \in Patterns, LoseAnswer(p, r)
    PROVE  Worse(Seen, Seen')
  <1>1. /\ DOMAIN matches = DOMAIN args /\ matches' = matches /\ args' = args
        /\ answered \in [DOMAIN args -> [Patterns -> BOOLEAN]]
    BY DEF Shaped, Grid, LoseAnswer
  <1>2. ASSUME NEW q \in DOMAIN args, NEW s \in Patterns
        PROVE  Seen'[q][s] \in {Seen[q][s], Undetermined}
    <2>1. /\ Seen[q][s] = MatchWithTimeout(matches[q][s], answered[q][s])
          /\ Seen'[q][s] = MatchWithTimeout(matches[q][s], answered'[q][s])
      BY <1>1 DEF Seen, OutcomesSeen
    <2>2. answered'[q][s] = answered[q][s] \/ answered'[q][s] = FALSE
      BY Zenon, <1>1 DEF LoseAnswer
    <2> QED
      BY <2>1, <2>2 DEF MatchWithTimeout
  <1> QED
    BY <1>2 DEF Worse

(* What was refused or redacted before a loss still is.                        *)
LEMMA WorseRefusesMore ==
    ASSUME Shaped, NEW seen, NEW lost, Worse(seen, lost)
    PROVE  /\ Refused(seen) => Refused(lost)
           /\ DlpHits(args, policy, seen, "redact") \subseteq DlpHits(args, policy, lost, "redact")
  <1> DEFINE rules == policy.param_rules[tool]
  <1>1. \A p \in DOMAIN args, r \in Patterns :
            /\ seen[p][r] # NotMatched => lost[p][r] # NotMatched
            /\ lost[p][r] = Matched => seen[p][r] = Matched
    BY DEF Worse, Matched, NotMatched, Undetermined
  <1>2. ASSUME NEW a PROVE DlpHits(args, policy, seen, a) \subseteq DlpHits(args, policy, lost, a)
    BY <1>1, RulesOK DEF DlpHits
  <1>3. ASSUME NEW i \in DOMAIN rules, Violates(i, seen) PROVE Violates(i, lost)
    <2> DEFINE p == rules[i].param
               rule == rules[i].rule
    <2>1. p \in DOMAIN args /\ CheckParam(rule, args[p], seen[p]) # None /\ RuleOK(rule)
      BY <1>3, RulesOK DEF Violates, ParamViolation
    <2>2. BlockHits(rule, lost[p]) = {} => BlockHits(rule, seen[p]) = {}
      BY ZenonT(30), <1>1, <2>1 DEF BlockHits, RuleOK
    <2>3. AllowMet(rule, lost[p]) => AllowMet(rule, seen[p])
      BY Zenon, <1>1, <2>1 DEF AllowMet, AllowSeen, RuleOK
    <2>4. CheckParam(rule, args[p], lost[p]) # None
      <3>1. RuleOK(rule)
        BY ZenonT(30), <2>1
      <3>2. CheckParam(rule, args[p], lost[p]) = None => CheckParam(rule, args[p], seen[p]) = None
        BY <3>1, <2>2, <2>3, CheckParamPasses
      <3> QED
        BY <3>2, <2>1
    <2> QED
      BY <2>1, <2>4 DEF Violates, ParamViolation
  <1> QED
    BY <1>2, <1>3 DEF Refused

(* Losing a match answer never admits a call or unredacts an argument: load on *)
(* the workers of _match_with_timeout only tightens the decision.              *)
THEOREM LoadTightens == Spec => LoadOnlyTightens
  <1>1. Shaped /\ [Next]_vars => [AtLeastAsStrict(Decision', Decision)]_vars
    <2>1. SUFFICES ASSUME Shaped, NEW p \in DOMAIN args, NEW r \in Patterns, LoseAnswer(p, r)
                   PROVE  AtLeastAsStrict(Decision', Decision)
      BY DEF Next, vars
    <2>2. Worse(Seen, Seen')
      BY <2>1, LossIsWorse
    <2>3. /\ Refused(Seen) => Refused(Seen')
          /\ DlpHits(args, policy, Seen, "redact") \subseteq DlpHits(args, policy, Seen', "redact")
      BY <2>1, <2>2, WorseRefusesMore
    <2>4. /\ Decision.blocked <=> Refused(Seen)
          /\ ~Decision.blocked => Decision.redacted = DlpHits(args, policy, Seen, "redact")
      BY EvaluateDecides DEF Decision, Seen
    <2>5. Decision' = Evaluate(tool, args, policy, Seen')
      BY <2>1 DEF LoseAnswer, Decision, Seen
    <2>6. /\ Decision'.blocked <=> Refused(Seen')
          /\ ~Decision'.blocked => Decision'.redacted = DlpHits(args, policy, Seen', "redact")
      BY <2>5, EvaluateDecides
    <2> QED
      BY <2>3, <2>4, <2>6 DEF AtLeastAsStrict
  <1> QED
    BY <1>1, ShapedInit, ShapedStep, PTL DEF Spec, LoadOnlyTightens

------------------------------------------------------------------------------
(* What the limiter's variables hold.                                          *)
WindowT == [spec : Specs \cup {Absent}, admits : Seq(Nat)]
RequestT ==
    [pc : {"idle", "check", "eval"}, rep : Replicas \cup {Absent}, spec : Specs \cup {Absent}]

LimiterShapes ==
    /\ shared \in BOOLEAN /\ time \in 0..MaxTime /\ wall \in 0..time
    /\ rate_limit \in Specs \cup {Absent, Gone} /\ deleting \in Replicas \cup {Absent}
    /\ spec \in [Replicas -> Specs \cup {Absent}]
    /\ bucket \in [Slots -> Buckets \cup {Absent}] /\ window \in [Slots -> WindowT]
    /\ req \in [Requests -> RequestT]
    /\ \A r \in Requests :
        /\ req[r].pc # "idle" => req[r].rep \in Replicas
        /\ req[r].pc = "eval" => shared /\ req[r].spec # Absent

(* The tokens a slot has at its present clock, uncapped.  A bucket that is gone *)
(* counts as full.                                                             *)
Have(slot) ==
    IF bucket[slot] = Absent THEN window[slot].spec.cap
    ELSE bucket[slot].tokens + window[slot].spec.rate * Elapsed(Clock, bucket[slot].last)

(* The calls a window admitted from the i-th on, and the tokens there are, are *)
(* paid for by a full bucket and the refill since the i-th.                    *)
Budget(w, have, now) ==
    \A i \in DOMAIN w.admits :
        (Len(w.admits) - i + 1) * Unit + have <= w.spec.cap + w.spec.rate * (now - w.admits[i])
Limited(w) ==
    \A i, j \in DOMAIN w.admits : i <= j =>
        (j - i + 1) * Unit <= w.spec.cap + w.spec.rate * (w.admits[j] - w.admits[i])

(* A slot no backend uses is empty; a bucket was last counted under the spec   *)
(* of its window; in memory that spec is the registered one.                   *)
Unused(slot) == shared # (slot = "valkey")
SlotOK(slot) ==
    /\ Unused(slot) => bucket[slot] = Absent /\ window[slot] = NoWindow
    /\ bucket[slot] # Absent =>
        /\ window[slot].spec # Absent /\ bucket[slot].tokens <= window[slot].spec.cap
        /\ bucket[slot].last <= time
        /\ bucket[slot].expires = bucket[slot].last + Ttl(window[slot].spec)
    /\ window[slot].spec = Absent => window[slot].admits = <<>>
    /\ ~shared /\ slot \in Replicas =>
        window[slot].spec = spec[slot] /\ (spec[slot] # Absent => bucket[slot] # Absent)
    /\ window[slot].spec # Absent => Budget(window[slot], Have(slot), time) /\ Limited(window[slot])

(* The inductive invariant of the limiter.                                     *)
LimiterInv == LimiterShapes /\ \A slot \in Slots : SlotOK(slot)

------------------------------------------------------------------------------
(* Products are taken apart here, so that the rest is linear.                  *)
LEMMA Products ==
    ASSUME NEW a \in Int, NEW b \in Int
    PROVE  a * (b + 1) = a * b + a /\ a * b \in Int /\ a * 0 = 0 /\ (b + 1) * a = b * a + a
  OBVIOUS

(* Products of integers are integers.                                          *)
LEMMA Times == \A a, b \in Int : a * b \in Int
  OBVIOUS

(* A product with a natural number grows with the other factor.                *)
LEMMA Monotone ==
    ASSUME NEW a \in Nat, NEW b \in Int, NEW c \in Int, b <= c
    PROVE  a * b <= a * c
  OBVIOUS

(* Products of naturals are naturals.                                          *)
LEMMA TimesNat ==
    ASSUME NEW a \in Nat, NEW b \in Nat
    PROVE  a * b \in Nat
<1>1. a * 0 = 0 /\ a * b \in Int
  BY Products
<1>2. a * 0 <= a * b
  BY Monotone
<1>. QED BY <1>1, <1>2

(* A limit's numbers; its TTL covers a refill from empty (_ttl).               *)
LEMMA SpecFacts ==
    ASSUME NEW s \in Specs
    PROVE  /\ s.rate \in Nat /\ s.period \in Nat /\ s.cap \in Nat /\ s.cap = s.rate * s.period
           /\ Ttl(s) \in Nat /\ s.rate * Ttl(s) >= s.cap /\ s.cap > 0
<1>1. s.rate \in Nat /\ s.period \in Nat /\ s.cap = s.rate * s.period /\ s.rate > 0 /\ s.period > 0
  BY RateAssumption
<1>2. s.cap \in Nat /\ s.cap > 0
  BY <1>1
<1>3. Ttl(s) \in Nat /\ s.period <= Ttl(s)
  BY <1>1 DEF Ttl
<1>. QED BY <1>1, <1>2, <1>3, Monotone

(* Elapsed time is a natural number, never negative (the script's guard).      *)
LEMMA ElapsedNat ==
    ASSUME NEW now \in Nat, NEW last \in Nat
    PROVE  /\ Elapsed(now, last) \in Nat /\ Elapsed(now, now) = 0
           /\ Elapsed(now + 1, last) <= Elapsed(now, last) + 1
           /\ \A w \in Nat : w <= now => Elapsed(w, last) <= Elapsed(now, last)
  BY DEF Elapsed

(* The three things that can happen to an inequality of the budget.           *)
LEMMA Waits ==
    ASSUME NEW m \in Int, NEW u \in Int, NEW h \in Int, NEW x \in Int, NEW c \in Int, NEW r \in Int,
           NEW d \in Int, m * u + h <= c + r * d, x <= h + r
    PROVE  m * u + x <= c + r * (d + 1)
<1>1. r * (d + 1) = r * d + r /\ r * d \in Int /\ m * u \in Int
  BY Products
<1>. QED BY <1>1

(* Fewer tokens.                                                               *)
LEMMA Lessens ==
    ASSUME NEW m \in Int, NEW u \in Int, NEW h \in Int, NEW x \in Int, NEW c \in Int, NEW r \in Int,
           NEW d \in Int, m * u + h <= c + r * d, x <= h
    PROVE  m * u + x <= c + r * d
<1>1. r * d \in Int /\ m * u \in Int
  BY Products
<1>. QED BY <1>1

(* A token spent, one call more.                                               *)
LEMMA Spends ==
    ASSUME NEW m \in Int, NEW u \in Int, NEW h \in Int, NEW x \in Nat, NEW c \in Int, NEW r \in Int,
           NEW d \in Int, m * u + h <= c + r * d, x + u <= h
    PROVE  (m + 1) * u + x <= c + r * d /\ (m + 1) * u <= c + r * d
<1>1. (m + 1) * u = m * u + u /\ r * d \in Int /\ m * u \in Int
  BY Products
<1>. QED BY <1>1

(* A tick refills no more than the rate; fewer tokens are paid for, too.       *)
LEMMA BudgetMoves ==
    ASSUME NEW w \in WindowT, w.spec \in Specs, NEW have \in Int, NEW new \in Int, NEW now \in Nat,
           Budget(w, have, now)
    PROVE  /\ new <= have + w.spec.rate => Budget(w, new, now + 1)
           /\ new <= have => Budget(w, new, now)
<1>1. w.spec.rate \in Int /\ w.spec.cap \in Int /\ Unit \in Int
  BY SpecFacts, RateAssumption
<1>2. ASSUME NEW i \in DOMAIN w.admits
      PROVE  /\ Len(w.admits) - i + 1 \in Int /\ now - w.admits[i] \in Int
             /\ (now + 1) - w.admits[i] = (now - w.admits[i]) + 1
  BY <1>2 DEF WindowT
<1>3. ASSUME new <= have + w.spec.rate, NEW i \in DOMAIN w.admits
      PROVE  (Len(w.admits) - i + 1) * Unit + new <= w.spec.cap + w.spec.rate * ((now + 1) - w.admits[i])
  <2> DEFINE m == Len(w.admits) - i + 1
             d == now - w.admits[i]
  <2>1. m * Unit + have <= w.spec.cap + w.spec.rate * d
    BY <1>3 DEF Budget
  <2>2. m \in Int /\ d \in Int /\ (now + 1) - w.admits[i] = d + 1
    BY <1>2, <1>3
  <2> HIDE DEF m, d
  <2>3. m * Unit + new <= w.spec.cap + w.spec.rate * (d + 1)
    BY <1>1, <1>3, <2>1, <2>2, Waits, Zenon
  <2>. QED BY <2>2, <2>3, Zenon DEF m
<1>4. ASSUME new <= have, NEW i \in DOMAIN w.admits
      PROVE  (Len(w.admits) - i + 1) * Unit + new <= w.spec.cap + w.spec.rate * (now - w.admits[i])
  <2> DEFINE m == Len(w.admits) - i + 1
             d == now - w.admits[i]
  <2>1. m * Unit + have <= w.spec.cap + w.spec.rate * d
    BY <1>4 DEF Budget
  <2>2. m \in Int /\ d \in Int
    BY <1>2, <1>4
  <2> HIDE DEF m, d
  <2>3. m * Unit + new <= w.spec.cap + w.spec.rate * d
    BY <1>1, <1>4, <2>1, <2>2, Lessens, Zenon
  <2>. QED BY <2>3, Zenon DEF m, d
<1>. QED BY <1>3, <1>4, Zenon DEF Budget

(* A token is spent on a call.                                                 *)
LEMMA BudgetAdmits ==
    ASSUME NEW w \in WindowT, w.spec \in Specs, NEW have \in Int, NEW now \in Nat, NEW tokens \in Nat,
           Budget(w, have, now), Limited(w), tokens + Unit <= have, tokens + Unit <= w.spec.cap,
           NEW new \in WindowT, new = [spec |-> w.spec, admits |-> Append(w.admits, now)]
    PROVE  Budget(new, tokens, now) /\ Limited(new)
<1> DEFINE n == Len(w.admits)
<1>0. /\ n \in Nat /\ Unit \in Nat /\ w.spec.rate \in Nat /\ w.spec.cap \in Nat
      /\ DOMAIN w.admits = 1..n /\ DOMAIN new.admits = 1..(n + 1) /\ Len(new.admits) = n + 1
      /\ \A i \in 1..n : w.admits[i] \in Nat /\ new.admits[i] = w.admits[i]
      /\ new.admits[n + 1] = now /\ new.spec = w.spec
  <2>1. w.admits \in Seq(Nat) /\ new.admits = Append(w.admits, now) /\ new.spec = w.spec
    BY DEF WindowT
  <2>2. /\ n \in Nat /\ DOMAIN w.admits = 1..n /\ \A i \in 1..n : w.admits[i] \in Nat
        /\ DOMAIN new.admits = 1..(n + 1) /\ Len(new.admits) = n + 1
        /\ new.admits[n + 1] = now /\ \A i \in 1..n : new.admits[i] = w.admits[i]
    BY <2>1, AppendProperties
  <2>3. Unit \in Nat /\ w.spec.rate \in Nat /\ w.spec.cap \in Nat
    BY SpecFacts, RateAssumption
  <2> HIDE DEF n
  <2>. QED BY <2>1, <2>2, <2>3, Zenon
<1>1. ASSUME NEW i \in 1..n
      PROVE  /\ ((n + 1) - i + 1) * Unit + tokens <= w.spec.cap + w.spec.rate * (now - w.admits[i])
             /\ ((n + 1) - i + 1) * Unit <= w.spec.cap + w.spec.rate * (now - w.admits[i])
  <2> DEFINE m == n - i + 1
             d == now - w.admits[i]
  <2>1. m * Unit + have <= w.spec.cap + w.spec.rate * d
    BY <1>0 DEF Budget
  <2>2. (n + 1) - i + 1 = m + 1 /\ m \in Int /\ d \in Int
    <3>1. w.admits[i] \in Nat /\ n \in Nat
      BY <1>0, Zenon
    <3>2. i \in Nat
      BY <3>1
    <3>3. \A a, b, c \in Nat : (a + 1) - b + 1 = (a - b + 1) + 1 /\ a - b + 1 \in Int /\ now - c \in Int
      OBVIOUS
    <3>. HIDE DEF n
    <3>. QED BY <3>1, <3>2, <3>3, Zenon
  <2>3. Unit \in Int /\ w.spec.cap \in Int /\ w.spec.rate \in Int
    BY <1>0
  <2> HIDE DEF m, d
  <2>4. m \in Int /\ d \in Int
    BY <2>2, Zenon
  <2>5. (m + 1) * Unit + tokens <= w.spec.cap + w.spec.rate * d /\ (m + 1) * Unit <= w.spec.cap + w.spec.rate * d
    BY <2>1, <2>3, <2>4, Spends, Zenon
  <2>. QED BY <2>2, <2>5, Zenon DEF d
<1>2. /\ ((n + 1) - (n + 1) + 1) * Unit + tokens <= w.spec.cap + w.spec.rate * (now - now)
      /\ ((n + 1) - (n + 1) + 1) * Unit <= w.spec.cap + w.spec.rate * (now - now)
  BY <1>0
<1>3. ASSUME NEW i \in 1..(n + 1)
      PROVE  /\ ((n + 1) - i + 1) * Unit + tokens <= w.spec.cap + w.spec.rate * (now - new.admits[i])
             /\ ((n + 1) - i + 1) * Unit <= w.spec.cap + w.spec.rate * (now - new.admits[i])
  <2>1. i = n + 1 \/ i \in 1..n
    BY <1>0
  <2>. QED BY <1>0, <1>1, <1>2, <2>1, Zenon
<1>4. Budget(new, tokens, now)
  BY <1>0, <1>3, Zenon DEF Budget
<1>5. Limited(new)
  <2>. SUFFICES ASSUME NEW i \in 1..(n + 1), NEW j \in 1..(n + 1), i <= j
       PROVE  (j - i + 1) * Unit <= w.spec.cap + w.spec.rate * (new.admits[j] - new.admits[i])
    BY <1>0, ZenonT(30) DEF Limited
  <2>1. CASE j \in 1..n
    <3>1. i \in 1..n
      BY <1>0, <2>1
    <3>. QED BY <1>0, <2>1, <3>1, Zenon DEF Limited
  <2>2. CASE j = n + 1
    BY <1>0, <1>3, <2>2, Zenon
  <2>3. j = n + 1 \/ j \in 1..n
    BY <1>0
  <2>. QED BY ZenonT(30), <2>1, <2>2, <2>3
<1>. QED BY <1>4, <1>5

------------------------------------------------------------------------------
(* The clocks count from zero, and the wall clock is never ahead.              *)
LEMMA ClockFacts ==
    ASSUME LimiterShapes
    PROVE  time \in Nat /\ wall \in Nat /\ Clock \in Nat /\ Clock <= time
  BY RateAssumption DEF LimiterShapes, Clock

(* What a slot has is a number.                                                *)
LEMMA HaveNumber ==
    ASSUME LimiterShapes, NEW slot \in Slots, window[slot].spec # Absent
    PROVE  window[slot] \in WindowT /\ window[slot].spec \in Specs /\ Have(slot) \in Int
<1>1. window[slot] \in WindowT /\ bucket[slot] \in Buckets \cup {Absent}
  BY Zenon DEF LimiterShapes
<1>2. window[slot].spec \in Specs
  BY <1>1 DEF WindowT
<1>3. window[slot].spec.cap \in Int /\ window[slot].spec.rate \in Int
  BY <1>2, SpecFacts
<1>4. CASE bucket[slot] \in Buckets
  <2>1. bucket[slot].tokens \in Int /\ bucket[slot].last \in Nat
    BY <1>4 DEF Buckets
  <2>2. Elapsed(Clock, bucket[slot].last) \in Int
    BY <2>1, ClockFacts DEF Elapsed
  <2>3. window[slot].spec.rate * Elapsed(Clock, bucket[slot].last) \in Int
    BY <1>3, <2>2, Times
  <2>. QED BY <1>1, <1>2, <1>3, <2>1, <2>3 DEF Have
<1>. QED BY <1>1, <1>2, <1>3, <1>4, Zenon DEF Have

(* A bucket refills to a number of tokens within the cap, and consume takes a  *)
(* token only when there is one.                                               *)
LEMMA ConsumeFacts ==
    ASSUME LimiterShapes, NEW s \in Specs, NEW b \in Buckets
    PROVE  /\ Refilled(b, s) \in Nat /\ Refilled(b, s) <= s.cap
           /\ Refilled(b, s) <= b.tokens + s.rate * Elapsed(Clock, b.last)
           /\ Consume(b, s) \in Buckets
           /\ Consume(b, s).last = Clock /\ Consume(b, s).expires = Clock + Ttl(s)
           /\ Consume(b, s).tokens <= Refilled(b, s)
           /\ Allowed(b, s) => Consume(b, s).tokens + Unit = Refilled(b, s)
<1> DEFINE e == s.rate * Elapsed(Clock, b.last)
<1>1. s.rate \in Nat /\ s.cap \in Nat /\ Ttl(s) \in Nat /\ Unit \in Nat
  BY SpecFacts, RateAssumption
<1>2. b.tokens \in Nat /\ b.last \in Nat /\ Clock \in Nat
  BY ClockFacts DEF Buckets
<1>3. e \in Nat
  <2>1. Elapsed(Clock, b.last) \in Nat
    BY Zenon, <1>2, ElapsedNat
  <2>. QED BY <1>1, <2>1, TimesNat, Zenon
<1>4. Refilled(b, s) = IF b.tokens + e > s.cap THEN s.cap ELSE b.tokens + e
  BY Zenon DEF Refilled
<1> HIDE DEF e
<1>5. Refilled(b, s) \in Nat /\ Refilled(b, s) <= s.cap /\ Refilled(b, s) <= b.tokens + e
  BY <1>1, <1>2, <1>3, <1>4
<1>6. /\ Consume(b, s).last = Clock /\ Consume(b, s).expires = Clock + Ttl(s)
      /\ Consume(b, s).tokens = Refilled(b, s) - (IF Allowed(b, s) THEN Unit ELSE 0)
  BY Zenon DEF Consume
<1>7. /\ Consume(b, s).tokens \in Nat /\ Consume(b, s).tokens <= Refilled(b, s)
      /\ Allowed(b, s) => Consume(b, s).tokens + Unit = Refilled(b, s)
  BY <1>1, <1>5, <1>6 DEF Allowed
<1>8. Consume(b, s) \in Buckets
  <2>1. Refilled(b, s) - (IF Allowed(b, s) THEN Unit ELSE 0) \in Nat /\ Clock + Ttl(s) \in Nat
    BY <1>1, <1>2, <1>6, <1>7
  <2>. QED BY <1>2, <2>1, Zenon DEF Consume, Buckets
<1>. QED BY <1>5, <1>6, <1>7, <1>8, Zenon DEF e

(* A check counts the slot's own tokens, or those of a full bucket.            *)
(* A bucket that a check starts from, unless it begins a new window, holds as  *)
(* much as its slot.                                                           *)
Counts(slot, b, s) == window[slot].spec = s => b.tokens + s.rate * Elapsed(Clock, b.last) = Have(slot)

(* The bucket a check starts from counts what its slot has.                    *)
LEMMA CountsItsOwn ==
    ASSUME LimiterShapes, NEW slot \in Slots, NEW s \in Specs
    PROVE  /\ bucket[slot] # Absent => Counts(slot, bucket[slot], s)
           /\ bucket[slot] = Absent => Counts(slot, Fresh(s), s)
           /\ window[slot].spec # s => Counts(slot, Fresh(s), s)
           /\ Fresh(s) \in Buckets
<1>1. Clock \in Nat /\ s.cap \in Nat /\ s.rate \in Nat
  BY ClockFacts, SpecFacts
<1>2. Fresh(s).tokens = s.cap /\ Fresh(s).last = Clock /\ Fresh(s) \in Buckets
  BY <1>1 DEF Fresh, Buckets
<1>3. s.cap + s.rate * Elapsed(Clock, Clock) = s.cap
  <2>1. Elapsed(Clock, Clock) = 0
    BY <1>1 DEF Elapsed
  <2>. QED BY <1>1, <2>1
<1>. QED BY <1>2, <1>3, Zenon DEF Counts, Have

(* A check of a slot under a limit keeps what holds of the slot.               *)
LEMMA CheckSlot ==
    ASSUME LimiterShapes, NEW slot \in Slots, SlotOK(slot), ~Unused(slot),
           NEW s \in Specs, NEW b \in Buckets, NEW passed \in BOOLEAN,
           passed => Allowed(b, s), Counts(slot, b, s),
           bucket' = [bucket EXCEPT ![slot] = Consume(b, s)], NoteChecked(slot, s, passed),
           shared' = shared, time' = time, wall' = wall,
           ~shared /\ slot \in Replicas => spec'[slot] = s
    PROVE  window' \in [Slots -> WindowT] /\ bucket' \in [Slots -> Buckets \cup {Absent}] /\ SlotOK(slot)'
<1> DEFINE before == IF window[slot].spec = s THEN window[slot].admits ELSE <<>>
           w == [spec |-> s, admits |-> before]
           new == [spec |-> s, admits |-> Append(before, time)]
           c == Consume(b, s)
           have == b.tokens + s.rate * Elapsed(Clock, b.last)
<1>0. /\ window \in [Slots -> WindowT] /\ bucket \in [Slots -> Buckets \cup {Absent}]
      /\ s.cap \in Nat /\ s.rate \in Nat /\ time \in Nat /\ Clock \in Nat /\ Clock <= time /\ Unit \in Nat
      /\ Absent \notin Specs /\ Absent \notin Buckets
  BY Zenon, ClockFacts, SpecFacts, RateAssumption DEF LimiterShapes
<1>1. before \in Seq(Nat) /\ w \in WindowT /\ new \in WindowT /\ w.spec = s /\ new.spec = s
  <2>1. window[slot].admits \in Seq(Nat)
    BY <1>0 DEF WindowT
  <2>2. before \in Seq(Nat)
    BY <2>1
  <2>3. Append(before, time) \in Seq(Nat)
    BY <1>0, <2>2
  <2> HIDE DEF before
  <2>. QED BY <2>2, <2>3 DEF WindowT
<1>2. /\ window' = [window EXCEPT ![slot] = IF passed THEN new ELSE w]
      /\ window' \in [Slots -> WindowT] /\ window'[slot] = IF passed THEN new ELSE w
  <2>1. window' = [window EXCEPT ![slot] = IF passed THEN new ELSE w]
    BY Zenon DEF NoteChecked
  <2> HIDE DEF new, w
  <2>. QED BY <1>0, <1>1, <2>1
<1>3. /\ c \in Buckets /\ c.last = Clock /\ c.expires = Clock + Ttl(s)
      /\ c.tokens <= Refilled(b, s) /\ Refilled(b, s) <= s.cap /\ Refilled(b, s) <= have
      /\ Refilled(b, s) \in Nat /\ c.tokens \in Nat
      /\ Allowed(b, s) => c.tokens + Unit = Refilled(b, s)
  BY Zenon, ConsumeFacts DEF Buckets
<1>4. have \in Int
  <2>1. b.tokens \in Int /\ b.last \in Nat
    BY DEF Buckets
  <2>2. Elapsed(Clock, b.last) \in Int /\ s.rate \in Int
    BY <1>0, <2>1 DEF Elapsed
  <2>3. s.rate * Elapsed(Clock, b.last) \in Int
    BY ZenonT(30), <2>2, Times
  <2>. QED BY <2>1, <2>3
<1>5. Budget(w, have, time) /\ Limited(w)
  <2>1. CASE window[slot].spec = s
    <3>1. w.spec = window[slot].spec /\ w.admits = window[slot].admits
      BY <2>1
    <3>2. Budget(window[slot], have, time) /\ Limited(window[slot])
      BY <1>0, <2>1, Zenon DEF SlotOK, Counts
    <3>. QED BY <3>1, <3>2, Zenon DEF Budget, Limited
  <2>2. CASE window[slot].spec # s
    <3>1. w.admits = <<>> /\ DOMAIN w.admits = {}
      BY <2>2
    <3>. QED BY <3>1, Zenon DEF Budget, Limited
  <2>. QED BY <2>1, <2>2
<1>6. bucket'[slot] = c /\ bucket' \in [Slots -> Buckets \cup {Absent}]
  BY <1>0, <1>3, ZenonT(30)
<1>7. Budget(w, c.tokens, time) /\ (passed => Budget(new, c.tokens, time) /\ Limited(new))
  <2>1. c.tokens <= have /\ c.tokens \in Int
    BY <1>3, <1>4
  <2>2. Budget(w, c.tokens, time)
    <3> HIDE DEF w, have, c
    <3>. QED BY <1>0, <1>1, <1>4, <1>5, <2>1, BudgetMoves, Zenon
  <2>3. ASSUME passed PROVE Budget(new, c.tokens, time) /\ Limited(new)
    <3>1. c.tokens + Unit <= have /\ c.tokens + Unit <= w.spec.cap
      BY <1>0, <1>1, <1>3, <1>4, <2>3
    <3>2. new = [spec |-> w.spec, admits |-> Append(w.admits, time)]
      BY Zenon
    <3> HIDE DEF w, new, have, c
    <3>. QED BY <1>0, <1>1, <1>3, <1>4, <1>5, <3>1, <3>2, BudgetAdmits, Zenon
  <2>. QED BY <2>2, <2>3
<1>8. Clock' = Clock /\ Have(slot)' = c.tokens
  <2>1. Clock' = Clock
    BY Zenon DEF Clock
  <2>2. c # Absent /\ window'[slot].spec = s
    BY <1>0, <1>1, <1>2, <1>3
  <2>3. Have(slot)' = c.tokens + s.rate * Elapsed(Clock, Clock)
    BY <1>3, <1>6, <2>1, <2>2, Zenon DEF Have
  <2>4. s.rate * Elapsed(Clock, Clock) = 0
    <3>1. Elapsed(Clock, Clock) = 0
      BY <1>0 DEF Elapsed
    <3>. QED BY <1>0, <3>1
  <2>. QED BY <1>3, <2>1, <2>3, <2>4
<1>9. window'[slot].spec = s /\ c # Absent /\ c.tokens <= s.cap /\ c.last <= time
  BY <1>0, <1>1, <1>2, <1>3
<1>10. Budget(window'[slot], Have(slot)', time') /\ Limited(window'[slot])
  BY <1>2, <1>5, <1>7, <1>8, Zenon
<1>11. ~Unused(slot)' /\ s # Absent
  BY <1>0, Zenon DEF Unused
<1> HIDE DEF c, w, new, have
<1>. QED BY <1>2, <1>3, <1>6, <1>9, <1>10, <1>11, Zenon DEF SlotOK, c

(* A slot that nothing touches, and one that is cleared.                       *)
LEMMA SlotSame ==
    ASSUME NEW slot \in Slots, SlotOK(slot), bucket'[slot] = bucket[slot], window'[slot] = window[slot],
           shared' = shared, time' = time, wall' = wall,
           ~shared /\ slot \in Replicas => spec'[slot] = spec[slot]
    PROVE  SlotOK(slot)'
<1>1. Clock' = Clock
  BY Zenon DEF Clock
<1>2. Have(slot)' = Have(slot)
  BY <1>1, Zenon DEF Have
<1>. QED BY <1>2, Zenon DEF SlotOK, Unused

(* A slot that unregister clears.                                              *)
LEMMA SlotCleared ==
    ASSUME NEW slot \in Slots, bucket'[slot] = Absent, window'[slot] = NoWindow,
           ~shared' /\ slot \in Replicas => spec'[slot] = Absent
    PROVE  SlotOK(slot)'
<1>1. window'[slot].spec = Absent /\ window'[slot].admits = <<>>
  BY DEF NoWindow
<1>. QED BY <1>1, Zenon DEF SlotOK

(* Time passes: the refill of the tick is paid for by the tick.                *)
LEMMA SlotTicks ==
    ASSUME LimiterShapes, NEW slot \in Slots, SlotOK(slot), Tick
    PROVE  SlotOK(slot)'
<1>0. /\ UNCHANGED <<shared, spec, bucket, window>> /\ time' = time + 1 /\ wall' = wall + 1
      /\ time \in Nat /\ Clock \in Nat
  BY ClockFacts DEF Tick
<1>1. Clock' = Clock + 1
  BY <1>0, Zenon DEF Clock
<1>2. bucket[slot] \in Buckets \cup {Absent}
  BY Zenon DEF LimiterShapes
<1>3. bucket[slot] # Absent => bucket'[slot].last <= time'
  <2>. SUFFICES ASSUME bucket[slot] # Absent PROVE bucket[slot].last <= time + 1
    BY Zenon, <1>0
  <2>1. bucket[slot].last <= time /\ bucket[slot].last \in Nat
    BY <1>2 DEF SlotOK, Buckets
  <2>. QED BY <1>0, <2>1
<1>4. ASSUME window[slot].spec # Absent
      PROVE  Budget(window[slot], Have(slot)', time + 1)
  <2>1. window[slot] \in WindowT /\ window[slot].spec \in Specs /\ Have(slot) \in Int
    BY <1>4, HaveNumber
  <2>2. window[slot].spec.rate \in Nat /\ window[slot].spec.cap \in Nat
    BY <2>1, SpecFacts
  <2>3. Have(slot)' \in Int /\ Have(slot)' <= Have(slot) + window[slot].spec.rate
    <3>1. CASE bucket[slot] = Absent
      <4>1. Have(slot)' = window[slot].spec.cap /\ Have(slot) = window[slot].spec.cap
        BY <1>0, <3>1, Zenon DEF Have
      <4>. QED BY <2>2, <4>1
    <3>2. CASE bucket[slot] # Absent
      <4> DEFINE rate == window[slot].spec.rate
                 e == Elapsed(Clock, bucket[slot].last)
                 f == Elapsed(Clock + 1, bucket[slot].last)
                 tokens == bucket[slot].tokens
      <4>1. tokens \in Nat /\ bucket[slot].last \in Nat
        BY <1>2, <3>2 DEF Buckets
      <4>2. e \in Int /\ f \in Int /\ f <= e + 1
        BY <1>0, <4>1 DEF Elapsed
      <4>3. Have(slot) = tokens + rate * e
        BY <3>2, Zenon DEF Have
      <4>4. Have(slot)' = tokens + rate * f
        BY <1>0, <1>1, <3>2, Zenon DEF Have
      <4>5. rate \in Nat
        BY <2>2
      <4> HIDE DEF rate, e, f, tokens
      <4>6. rate * f <= rate * (e + 1)
        BY <4>2, <4>5, Monotone
      <4>7. rate * (e + 1) = rate * e + rate /\ rate * e \in Int /\ rate * f \in Int
        BY <4>2, <4>5, Products
      <4>8. Have(slot)' \in Int /\ Have(slot)' <= Have(slot) + rate
        BY <4>1, <4>3, <4>4, <4>5, <4>6, <4>7
      <4>. QED BY <4>8, Zenon DEF rate
    <3>. QED BY <3>1, <3>2
  <2>4. Budget(window[slot], Have(slot), time)
    BY <1>4, Zenon DEF SlotOK
  <2>. QED BY <1>0, <2>1, <2>3, <2>4, BudgetMoves, Zenon
<1>. QED BY <1>0, <1>3, <1>4, Zenon DEF SlotOK, Unused

(* The wall clock is set back: a refill may be missed, none is granted twice.  *)
LEMMA SlotSetBack ==
    ASSUME LimiterShapes, NEW slot \in Slots, SlotOK(slot), NEW back \in 0..MaxTime, SetClockBack(back)
    PROVE  SlotOK(slot)'
<1>0. /\ UNCHANGED <<shared, spec, bucket, window, time>> /\ wall' = back /\ back \in Nat /\ back <= wall
      /\ shared /\ time \in Nat /\ wall \in Nat
  BY ClockFacts, RateAssumption DEF SetClockBack
<1>1. Clock = wall /\ Clock' = back
  BY <1>0, Zenon DEF Clock
<1>2. bucket[slot] \in Buckets \cup {Absent}
  BY Zenon DEF LimiterShapes
<1>4. ASSUME window[slot].spec # Absent
      PROVE  Budget(window[slot], Have(slot)', time)
  <2>1. window[slot] \in WindowT /\ window[slot].spec \in Specs /\ Have(slot) \in Int
    BY <1>4, HaveNumber
  <2>2. window[slot].spec.rate \in Nat /\ window[slot].spec.cap \in Nat
    BY <2>1, SpecFacts
  <2>3. Have(slot)' \in Int /\ Have(slot)' <= Have(slot)
    <3>1. CASE bucket[slot] = Absent
      <4>1. Have(slot)' = window[slot].spec.cap /\ Have(slot) = window[slot].spec.cap
        BY <1>0, <3>1, Zenon DEF Have
      <4>. QED BY <2>2, <4>1
    <3>2. CASE bucket[slot] # Absent
      <4> DEFINE rate == window[slot].spec.rate
                 e == Elapsed(wall, bucket[slot].last)
                 f == Elapsed(back, bucket[slot].last)
                 tokens == bucket[slot].tokens
      <4>1. tokens \in Nat /\ bucket[slot].last \in Nat
        BY <1>2, <3>2 DEF Buckets
      <4>2. e \in Int /\ f \in Int /\ f <= e
        BY <1>0, <4>1 DEF Elapsed
      <4>3. Have(slot) = tokens + rate * e
        BY <1>1, <3>2, Zenon DEF Have
      <4>4. Have(slot)' = tokens + rate * f
        BY <1>0, <1>1, <3>2, Zenon DEF Have
      <4>5. rate \in Nat
        BY <2>2
      <4> HIDE DEF rate, e, f, tokens
      <4>6. rate * f <= rate * e
        BY <4>2, <4>5, Monotone
      <4>7. rate * e \in Int /\ rate * f \in Int
        BY <4>2, <4>5, Products
      <4>. QED BY <4>1, <4>3, <4>4, <4>5, <4>6, <4>7
    <3>. QED BY <3>1, <3>2
  <2>4. Budget(window[slot], Have(slot), time)
    BY <1>4, Zenon DEF SlotOK
  <2>. QED BY <1>0, <2>1, <2>3, <2>4, BudgetMoves, Zenon
<1>. QED BY <1>0, <1>4, Zenon DEF SlotOK, Unused

(* A bucket that expires would have refilled to its cap.                       *)
LEMMA ExpiredIsFull ==
    ASSUME LimiterInv, Expire
    PROVE  /\ shared /\ window["valkey"].spec \in Specs /\ bucket["valkey"] \in Buckets
           /\ Refilled(bucket["valkey"], window["valkey"].spec) = window["valkey"].spec.cap
           /\ window["valkey"].spec.cap <= Have("valkey")
<1> DEFINE b == bucket["valkey"]
           s == window["valkey"].spec
           e == Elapsed(Clock, b.last)
<1>0. b # Absent /\ wall >= b.expires /\ "valkey" \in Slots /\ b \in Buckets /\ wall \in Nat
  BY ClockFacts, Zenon DEF Expire, LimiterInv, LimiterShapes, Slots
<1>1. s # Absent /\ b.expires = b.last + Ttl(s) /\ shared
  BY <1>0, Zenon DEF LimiterInv, SlotOK, Unused, LimiterShapes
<1>2. s \in Specs
  BY <1>0, <1>1, HaveNumber, Zenon DEF LimiterInv
<1>3. /\ s.cap \in Nat /\ s.rate \in Nat /\ Ttl(s) \in Nat /\ s.rate * Ttl(s) >= s.cap
      /\ b.tokens \in Nat /\ b.last \in Nat /\ Clock = wall
  BY <1>0, <1>1, <1>2, SpecFacts DEF Buckets, Clock
<1>4. e \in Nat /\ Ttl(s) <= e
  BY <1>0, <1>1, <1>3 DEF Elapsed
<1>5. Have("valkey") = b.tokens + s.rate * e
  BY <1>0, Zenon DEF Have
<1>6. Refilled(b, s) = IF b.tokens + s.rate * e > s.cap THEN s.cap ELSE b.tokens + s.rate * e
  BY Zenon DEF Refilled
<1> HIDE DEF b, s, e
<1>7. s.rate * Ttl(s) <= s.rate * e /\ s.rate * e \in Int /\ s.rate * Ttl(s) \in Int
  BY <1>3, <1>4, Monotone, Times
<1>8. Refilled(b, s) = s.cap /\ s.cap <= Have("valkey")
  <2> DEFINE p == s.rate * e
  <2>1. p \in Int /\ s.cap <= p
    BY <1>3, <1>7
  <2>2. Have("valkey") = b.tokens + p /\ Refilled(b, s) = IF b.tokens + p > s.cap THEN s.cap ELSE b.tokens + p
    BY <1>5, <1>6, Zenon
  <2> HIDE DEF p
  <2>. QED BY <1>3, <2>1, <2>2
<1>. QED BY <1>0, <1>1, <1>2, <1>8, Zenon DEF b, s

------------------------------------------------------------------------------
(* The initial state.                                                          *)
LEMMA LimiterInitInv == LimiterInit => LimiterInv
<1>. SUFFICES ASSUME LimiterInit PROVE LimiterInv
  OBVIOUS
<1>1. NoRequest \in RequestT /\ NoWindow \in WindowT /\ NoRequest.pc = "idle"
  BY DEF NoRequest, NoWindow, RequestT, WindowT
<1>2. LimiterShapes
  <2>1. time = 0 /\ wall = 0 /\ MaxTime \in Nat
    BY RateAssumption DEF LimiterInit
  <2>2. time \in 0..MaxTime /\ wall \in 0..time
    BY <2>1
  <2>3. \A r \in Requests : req[r] = NoRequest
    BY DEF LimiterInit
  <2>. QED BY <1>1, <2>2, <2>3 DEF LimiterInit, LimiterShapes
<1>3. \A slot \in Slots : SlotOK(slot)
  <2>. SUFFICES ASSUME NEW slot \in Slots PROVE SlotOK(slot)
    OBVIOUS
  <2>1. bucket[slot] = Absent /\ window[slot] = NoWindow /\ (slot \in Replicas => spec[slot] = Absent)
    BY DEF LimiterInit
  <2>2. window[slot].spec = Absent /\ window[slot].admits = <<>>
    BY <2>1 DEF NoWindow
  <2>. QED BY <2>1, <2>2, Zenon DEF SlotOK
<1>. QED BY <1>2, <1>3 DEF LimiterInv

(* A request that returns, and one that goes on, stay well formed.             *)
LEMMA ReturnShapes ==
    ASSUME LimiterShapes, NEW r \in Requests, Return(r), shared' = shared
    PROVE  /\ req' \in [Requests -> RequestT]
           /\ \A q \in Requests :
                /\ req'[q].pc # "idle" => req'[q].rep \in Replicas
                /\ req'[q].pc = "eval" => shared' /\ req'[q].spec # Absent
<1>1. NoRequest \in RequestT /\ NoRequest.pc = "idle"
  BY DEF NoRequest, RequestT
<1>2. req' = [req EXCEPT ![r] = NoRequest] /\ req \in [Requests -> RequestT]
  BY DEF Return, LimiterShapes
<1>3. req' \in [Requests -> RequestT] /\ \A q \in Requests : req'[q] = req[q] \/ req'[q] = NoRequest
  BY <1>1, <1>2
<1>. QED BY <1>1, <1>3, Zenon DEF LimiterShapes

(* Steps that leave the slots alone.                                           *)
LEMMA SlotsAlone ==
    ASSUME LimiterInv, UNCHANGED <<shared, time, wall, bucket, window>>,
           ~shared => spec' = spec
    PROVE  \A slot \in Slots : SlotOK(slot)'
  BY SlotSame, Zenon DEF LimiterInv

(* A request reads its policy.                                                 *)
LEMMA ReadPolicyStep ==
    ASSUME LimiterInv, NEW r \in Requests, NEW rep \in Replicas, ReadPolicy(r, rep)
    PROVE  LimiterInv'
<1> DEFINE x == [pc |-> "check", rep |-> rep, spec |-> rate_limit]
<1>0. /\ UNCHANGED <<shared, time, wall, rate_limit, deleting, edits, spec, bucket, window>>
      /\ req' = [req EXCEPT ![r] = x] /\ rate_limit # Gone
  BY DEF ReadPolicy, clocks
<1>1. LimiterShapes /\ rate_limit \in Specs \cup {Absent} /\ req \in [Requests -> RequestT]
  BY <1>0 DEF LimiterInv, LimiterShapes
<1>2. x \in RequestT /\ x.pc = "check" /\ x.rep = rep
  BY <1>1 DEF RequestT
<1> HIDE DEF x
<1>3. req' \in [Requests -> RequestT] /\ \A q \in Requests : req'[q] = req[q] \/ req'[q] = x
  BY Zenon, <1>0, <1>1, <1>2
<1>4. \A q \in Requests : /\ req'[q].pc # "idle" => req'[q].rep \in Replicas
                          /\ req'[q].pc = "eval" => shared' /\ req'[q].spec # Absent
  BY ZenonT(30), <1>0, <1>1, <1>2, <1>3 DEF LimiterShapes
<1>5. LimiterShapes'
  BY <1>0, <1>1, <1>3, <1>4 DEF LimiterShapes
<1>. QED BY <1>0, <1>5, SlotsAlone, Zenon DEF LimiterInv

(* A request registers its limit with the shared backend.                      *)
LEMMA RegisterSharedStep ==
    ASSUME LimiterInv, NEW r \in Requests, RegisterShared(r)
    PROVE  LimiterInv'
<1>0. /\ UNCHANGED <<shared, time, wall, rate_limit, deleting, edits, bucket, window>> /\ shared
      /\ spec' = [spec EXCEPT ![req[r].rep] = req[r].spec]
      /\ req' = [req EXCEPT ![r].pc = "eval"] /\ req[r].pc = "check" /\ req[r].spec # Absent
  BY DEF RegisterShared, clocks
<1>1. /\ LimiterShapes /\ req \in [Requests -> RequestT] /\ req[r] \in RequestT
      /\ req[r].rep \in Replicas /\ req[r].spec \in Specs
  BY <1>0 DEF LimiterInv, LimiterShapes, RequestT
<1>2. /\ req' \in [Requests -> RequestT]
      /\ \A q \in Requests : q # r => req'[q] = req[q]
      /\ req'[r].rep = req[r].rep /\ req'[r].spec = req[r].spec
  BY <1>0, <1>1 DEF RequestT
<1>3. \A q \in Requests : /\ req'[q].pc # "idle" => req'[q].rep \in Replicas
                          /\ req'[q].pc = "eval" => shared' /\ req'[q].spec # Absent
  BY <1>0, <1>1, <1>2, Zenon DEF LimiterShapes
<1>4. spec' \in [Replicas -> Specs \cup {Absent}]
  BY <1>0, <1>1 DEF LimiterShapes
<1>5. LimiterShapes'
  BY <1>0, <1>1, <1>2, <1>3, <1>4, Zenon DEF LimiterShapes
<1>. QED BY <1>0, <1>5, SlotsAlone, Zenon DEF LimiterInv

(* The Valkey server cannot be reached: the request fails open.                *)
LEMMA EvalUnavailableStep ==
    ASSUME LimiterInv, NEW r \in Requests, EvalUnavailable(r)
    PROVE  LimiterInv'
<1>0. UNCHANGED <<shared, time, wall, rate_limit, deleting, edits, spec, bucket, window>> /\ Return(r) /\ LimiterShapes
  BY DEF EvalUnavailable, clocks, LimiterInv
<1>1. LimiterShapes'
  BY <1>0, ReturnShapes, Zenon DEF LimiterShapes
<1>. QED BY <1>0, <1>1, SlotsAlone, Zenon DEF LimiterInv

(* The operator's steps, and the clock's.                                      *)
LEMMA PolicySteps ==
    ASSUME LimiterInv,
           \/ \E s \in Specs \cup {Absent} : SetRateLimit(s)
           \/ \E rep \in Replicas : DeleteServer(rep)
    PROVE  LimiterInv'
<1>0. UNCHANGED <<shared, time, wall, spec, bucket, req, window>> /\ LimiterShapes
      /\ rate_limit' \in Specs \cup {Absent, Gone} /\ deleting' \in Replicas \cup {Absent}
  BY DEF SetRateLimit, DeleteServer, LimiterInv, LimiterShapes
<1>1. LimiterShapes'
  BY <1>0, Zenon DEF LimiterShapes
<1>. QED BY <1>0, <1>1, SlotsAlone, Zenon DEF LimiterInv

(* Real time passes.                                                           *)
LEMMA TickStep ==
    ASSUME LimiterInv, Tick
    PROVE  LimiterInv'
<1>1. /\ UNCHANGED <<shared, rate_limit, deleting, edits, spec, bucket, req, window>> /\ LimiterShapes
      /\ time' \in 0..MaxTime /\ wall' \in 0..time'
  BY RateAssumption DEF Tick, LimiterInv, LimiterShapes
<1>2. LimiterShapes'
  BY <1>1, Zenon DEF LimiterShapes
<1>. QED BY <1>1, <1>2, SlotTicks, Zenon DEF LimiterInv, Slots

(* The wall clock of the Valkey server is set back.                            *)
LEMMA SetClockBackStep ==
    ASSUME LimiterInv, NEW back \in 0..MaxTime, SetClockBack(back)
    PROVE  LimiterInv'
<1>1. /\ UNCHANGED <<shared, time, rate_limit, deleting, spec, bucket, req, window>> /\ LimiterShapes
      /\ time' \in 0..MaxTime /\ wall' \in 0..time'
  BY RateAssumption DEF SetClockBack, LimiterInv, LimiterShapes
<1>2. LimiterShapes'
  BY <1>1, Zenon DEF LimiterShapes
<1>. QED BY <1>1, <1>2, SlotSetBack, Zenon DEF LimiterInv, Slots

(* unregister forgets the limit of a replica, and in memory its bucket.        *)
LEMMA UnregisterSlots ==
    ASSUME LimiterInv, NEW rep \in Replicas, Unregister(rep), UNCHANGED <<shared, time, wall>>
    PROVE  /\ spec' \in [Replicas -> Specs \cup {Absent}]
           /\ bucket' \in [Slots -> Buckets \cup {Absent}] /\ window' \in [Slots -> WindowT]
           /\ \A slot \in Slots : SlotOK(slot)'
<1>0. /\ spec \in [Replicas -> Specs \cup {Absent}] /\ window \in [Slots -> WindowT]
      /\ bucket \in [Slots -> Buckets \cup {Absent}] /\ rep \in Slots /\ NoWindow \in WindowT
  BY DEF LimiterInv, LimiterShapes, Slots, NoWindow, WindowT
<1>1. /\ spec' = [spec EXCEPT ![rep] = Absent] /\ spec' \in [Replicas -> Specs \cup {Absent}]
      /\ spec'[rep] = Absent /\ \A p \in Replicas \ {rep} : spec'[p] = spec[p]
  BY <1>0 DEF Unregister
<1>2. CASE shared
  <2>1. bucket' = bucket /\ window' = window
    BY <1>2, Zenon DEF Unregister
  <2>. QED BY <1>0, <1>1, <1>2, <2>1, SlotsAlone, Zenon
<1>3. CASE ~shared
  <2>1. bucket' = [bucket EXCEPT ![rep] = Absent] /\ window' = [window EXCEPT ![rep] = NoWindow]
    BY <1>3, Zenon DEF Unregister
  <2>2. /\ bucket' \in [Slots -> Buckets \cup {Absent}] /\ window' \in [Slots -> WindowT]
        /\ bucket'[rep] = Absent /\ window'[rep] = NoWindow
        /\ \A t \in Slots \ {rep} : bucket'[t] = bucket[t] /\ window'[t] = window[t]
    BY <1>0, <2>1
  <2>3. ASSUME NEW slot \in Slots PROVE SlotOK(slot)'
    <3>1. CASE slot = rep
      BY <1>1, <2>2, <3>1, SlotCleared, Zenon
    <3>2. CASE slot # rep
      <4>1. SlotOK(slot) /\ (slot \in Replicas => spec'[slot] = spec[slot])
            /\ bucket'[slot] = bucket[slot] /\ window'[slot] = window[slot]
        BY <1>1, <2>2, <3>2, Zenon DEF LimiterInv
      <4>. QED BY <4>1, SlotSame, Zenon
    <3>. QED BY <3>1, <3>2
  <2>. QED BY <1>1, <2>2, <2>3
<1>. QED BY ZenonT(30), <1>2, <1>3

(* A request of a server without a limit forgets the bucket and passes.        *)
LEMMA PassUnlimitedStep ==
    ASSUME LimiterInv, NEW r \in Requests, PassUnlimited(r)
    PROVE  LimiterInv'
<1>0. UNCHANGED <<shared, time, wall, rate_limit, deleting, edits>> /\ Return(r) /\ Unregister(req[r].rep)
  BY DEF PassUnlimited, clocks
<1>1. LimiterShapes /\ req[r].rep \in Replicas
  BY Zenon DEF PassUnlimited, LimiterInv, LimiterShapes
<1>2. /\ spec' \in [Replicas -> Specs \cup {Absent}]
      /\ bucket' \in [Slots -> Buckets \cup {Absent}] /\ window' \in [Slots -> WindowT]
      /\ \A slot \in Slots : SlotOK(slot)'
  BY <1>0, <1>1, UnregisterSlots, Zenon
<1>3. LimiterShapes'
  BY <1>0, <1>1, <1>2, ReturnShapes, Zenon DEF LimiterShapes
<1>. QED BY <1>2, <1>3, Zenon DEF LimiterInv, Slots

(* delete_server forgets the bucket.                                           *)
LEMMA ForgetBucketStep ==
    ASSUME LimiterInv, ForgetBucket
    PROVE  LimiterInv'
<1>0. /\ UNCHANGED <<shared, time, wall, rate_limit, edits, req>> /\ Unregister(deleting) /\ deleting' = Absent
      /\ LimiterShapes /\ deleting \in Replicas
  BY DEF ForgetBucket, LimiterInv, LimiterShapes
<1>2. /\ spec' \in [Replicas -> Specs \cup {Absent}]
      /\ bucket' \in [Slots -> Buckets \cup {Absent}] /\ window' \in [Slots -> WindowT]
      /\ \A slot \in Slots : SlotOK(slot)'
  BY <1>0, UnregisterSlots, Zenon
<1>3. LimiterShapes'
  BY <1>0, <1>2, Zenon DEF LimiterShapes
<1>. QED BY <1>2, <1>3, ZenonT(30) DEF LimiterInv, Slots

(* The slots a check does not touch.                                           *)
LEMMA CheckStep ==
    ASSUME LimiterInv, NEW r \in Requests, NEW slot \in Slots, ~Unused(slot),
           NEW s \in Specs, NEW b \in Buckets, NEW passed \in BOOLEAN,
           passed => Allowed(b, s), Counts(slot, b, s),
           bucket' = [bucket EXCEPT ![slot] = Consume(b, s)], NoteChecked(slot, s, passed),
           UNCHANGED clocks, Return(r),
           spec' = IF shared THEN spec ELSE [spec EXCEPT ![slot] = s]
    PROVE  LimiterInv'
<1>0. /\ UNCHANGED <<rate_limit, deleting, edits>> /\ shared' = shared /\ time' = time /\ wall' = wall
      /\ LimiterShapes /\ SlotOK(slot)
      /\ spec \in [Replicas -> Specs \cup {Absent}] /\ window \in [Slots -> WindowT]
      /\ bucket \in [Slots -> Buckets \cup {Absent}]
  BY DEF clocks, LimiterInv, LimiterShapes
<1>1. /\ spec' \in [Replicas -> Specs \cup {Absent}]
      /\ ~shared /\ slot \in Replicas => spec'[slot] = s
      /\ \A t \in Replicas \ {slot} : spec'[t] = spec[t]
  BY Zenon, <1>0
<1>2. window' \in [Slots -> WindowT] /\ bucket' \in [Slots -> Buckets \cup {Absent}] /\ SlotOK(slot)'
  <2>1. LimiterShapes /\ SlotOK(slot) /\ shared' = shared /\ time' = time /\ wall' = wall
    BY <1>0
  <2>2. ~shared /\ slot \in Replicas => spec'[slot] = s
    BY <1>1
  <2>. QED BY Zenon, <2>1, <2>2, CheckSlot
<1>3. \A t \in Slots \ {slot} : window'[t] = window[t] /\ bucket'[t] = bucket[t]
  BY <1>0, Zenon DEF NoteChecked
<1>4. ASSUME NEW t \in Slots \ {slot} PROVE SlotOK(t)'
  <2>1. SlotOK(t) /\ (t \in Replicas => spec'[t] = spec[t])
    BY <1>1, <1>4, Zenon DEF LimiterInv
  <2>. QED BY <1>0, <1>3, <2>1, SlotSame, Zenon
<1>5. LimiterShapes'
  BY <1>0, <1>1, <1>2, ReturnShapes, Zenon DEF LimiterShapes
<1>. QED BY <1>2, <1>4, <1>5, ZenonT(30) DEF LimiterInv, Slots

(* ensure_current and consume in memory.                                       *)
LEMMA CheckInMemoryStep ==
    ASSUME LimiterInv, NEW r \in Requests, CheckInMemory(r)
    PROVE  LimiterInv'
<1> DEFINE rep == req[r].rep
           s == req[r].spec
           b == EnsureCurrent(rep, s)
<1>0. /\ ~shared /\ req[r].pc = "check" /\ s # Absent
      /\ spec' = [spec EXCEPT ![rep] = s] /\ bucket' = [bucket EXCEPT ![rep] = Consume(b, s)]
      /\ NoteChecked(rep, s, Allowed(b, s)) /\ Return(r) /\ UNCHANGED clocks
  BY Zenon DEF CheckInMemory
<1>1. LimiterShapes /\ rep \in Replicas /\ req[r] \in RequestT
  BY <1>0, ZenonT(30) DEF LimiterInv, LimiterShapes
<1>2. s \in Specs /\ rep \in Slots
  BY ZenonT(30), <1>0, <1>1 DEF RequestT, Slots
<1>3. ~Unused(rep)
  <2>1. rep # "valkey"
    BY <1>1, RateAssumption
  <2>2. shared \in BOOLEAN
    BY <1>1 DEF LimiterShapes
  <2>. QED BY <1>0, <2>1, <2>2 DEF Unused
<1>4. window[rep].spec = spec[rep] /\ (spec[rep] # Absent => bucket[rep] # Absent)
  BY <1>0, <1>1, <1>2, Zenon DEF LimiterInv, SlotOK
<1>5. bucket[rep] \in Buckets \cup {Absent} /\ Absent \notin Specs
  BY ZenonT(30), <1>1, <1>2, RateAssumption DEF LimiterShapes
<1>6. b \in Buckets /\ Counts(rep, b, s)
  <2>1. CASE spec[rep] = s
    <3>1. b = bucket[rep] /\ bucket[rep] # Absent
      BY <1>2, <1>4, <1>5, <2>1, Zenon DEF EnsureCurrent
    <3>. QED BY <1>1, <1>2, <1>5, <3>1, CountsItsOwn, Zenon
  <2>2. CASE spec[rep] # s
    <3>1. b = Fresh(s)
      BY <2>2, Zenon DEF EnsureCurrent
    <3>. QED BY <1>1, <1>2, <1>4, <2>2, <3>1, CountsItsOwn, Zenon
  <2>. QED BY <2>1, <2>2
<1>7. Allowed(b, s) \in BOOLEAN
  <2> HIDE DEF b, s
  <2>. QED BY DEF Allowed
<1>8. spec' = IF shared THEN spec ELSE [spec EXCEPT ![rep] = s]
  BY <1>0, Zenon
<1> HIDE DEF b, s, rep
<1>. QED BY <1>0, <1>2, <1>3, <1>6, <1>7, <1>8, CheckStep, Zenon

(* The Lua script on the Valkey server.                                        *)
LEMMA EvalStep ==
    ASSUME LimiterInv, NEW r \in Requests, NEW heard \in BOOLEAN, Eval(r, heard)
    PROVE  LimiterInv'
<1> DEFINE s == req[r].spec
           b == IF bucket["valkey"] = Absent THEN Fresh(s) ELSE bucket["valkey"]
<1>0. /\ req[r].pc = "eval" /\ bucket' = [bucket EXCEPT !["valkey"] = Consume(b, s)]
      /\ NoteChecked("valkey", s, heard /\ Allowed(b, s)) /\ Return(r) /\ UNCHANGED <<clocks, spec>>
  BY Zenon DEF Eval
<1>1. LimiterShapes /\ shared /\ s # Absent /\ req[r] \in RequestT
  BY <1>0, Zenon DEF LimiterInv, LimiterShapes
<1>2. s \in Specs /\ "valkey" \in Slots /\ bucket["valkey"] \in Buckets \cup {Absent}
  BY <1>1 DEF RequestT, Slots, LimiterShapes
<1>3. ~Unused("valkey")
  BY <1>1, Zenon DEF Unused
<1>6. b \in Buckets /\ Counts("valkey", b, s)
  BY <1>1, <1>2, CountsItsOwn, Zenon
<1>7. (heard /\ Allowed(b, s)) \in BOOLEAN /\ (heard /\ Allowed(b, s) => Allowed(b, s))
  BY Zenon DEF Allowed
<1>8. spec' = (IF shared THEN spec ELSE [spec EXCEPT !["valkey"] = s]) /\ UNCHANGED clocks
  BY <1>0, <1>1, Zenon
<1> HIDE DEF b, s
<1>. QED BY <1>0, <1>2, <1>3, <1>6, <1>7, <1>8, CheckStep, Zenon

(* The Valkey server drops an expired bucket.                                  *)
LEMMA ExpireStep ==
    ASSUME LimiterInv, Expire
    PROVE  LimiterInv'
<1>0. /\ UNCHANGED <<shared, time, wall, rate_limit, deleting, edits, spec, req, window>>
      /\ bucket' = [bucket EXCEPT !["valkey"] = Absent] /\ LimiterShapes /\ "valkey" \in Slots
      /\ bucket \in [Slots -> Buckets \cup {Absent}] /\ SlotOK("valkey") /\ "valkey" \notin Replicas
  BY RateAssumption DEF Expire, clocks, LimiterInv, LimiterShapes, Slots
<1>1. /\ bucket' \in [Slots -> Buckets \cup {Absent}] /\ bucket'["valkey"] = Absent
      /\ \A t \in Slots \ {"valkey"} : bucket'[t] = bucket[t]
  BY <1>0
<1>2. LimiterShapes'
  BY <1>0, <1>1, Zenon DEF LimiterShapes
<1>3. \A t \in Slots \ {"valkey"} : SlotOK(t)'
  BY <1>0, <1>1, SlotSame, Zenon DEF LimiterInv
<1>4. SlotOK("valkey")'
  <2>1. /\ shared /\ window["valkey"].spec \in Specs /\ bucket["valkey"] \in Buckets
        /\ window["valkey"].spec.cap <= Have("valkey")
    BY ExpiredIsFull
  <2>2. window["valkey"].spec # Absent /\ bucket["valkey"] # Absent /\ window["valkey"].spec.cap \in Int
    BY <2>1, RateAssumption, SpecFacts
  <2>3. window["valkey"] \in WindowT /\ Have("valkey") \in Int /\ time \in Nat
    BY <1>0, <2>2, HaveNumber, ClockFacts, Zenon
  <2>4. Have("valkey")' = window["valkey"].spec.cap
    BY <1>0, <1>1, Zenon DEF Have
  <2>5. Budget(window["valkey"], Have("valkey"), time) /\ Limited(window["valkey"])
    BY <1>0, <2>2, Zenon DEF SlotOK
  <2>6. Budget(window["valkey"], Have("valkey")', time)
    BY <2>1, <2>2, <2>3, <2>4, <2>5, BudgetMoves, Zenon
  <2>7. ~Unused("valkey")'
    BY <1>0, <2>1, Zenon DEF Unused
  <2>. QED BY <1>0, <1>1, <2>2, <2>5, <2>6, <2>7, Zenon DEF SlotOK
<1>. QED BY <1>2, <1>3, <1>4, ZenonT(30) DEF LimiterInv, Slots

(* Every step of the limiter keeps its invariant.                              *)
LEMMA LimiterStepInv == LimiterInv /\ [LimiterNext]_limiterVars => LimiterInv'
<1>. SUFFICES ASSUME LimiterInv, [LimiterNext]_limiterVars PROVE LimiterInv'
  OBVIOUS
<1>1. CASE UNCHANGED limiterVars
  <2>1. UNCHANGED <<shared, time, wall, rate_limit, deleting, edits, spec, bucket, req, window>>
    BY <1>1 DEF limiterVars
  <2>2. LimiterShapes'
    BY <2>1, Zenon DEF LimiterInv, LimiterShapes
  <2>. QED BY <2>1, <2>2, SlotsAlone, Zenon DEF LimiterInv
<1>2. CASE LimiterNext
  BY <1>2, ReadPolicyStep, PassUnlimitedStep, CheckInMemoryStep, RegisterSharedStep, EvalUnavailableStep,
     EvalStep, ExpireStep, TickStep, ForgetBucketStep, PolicySteps, SetClockBackStep, Zenon DEF LimiterNext
<1>. QED BY <1>1, <1>2

(* The invariant is inductive.                                                 *)
LEMMA LimiterInductive == LimiterSpec => []LimiterInv
  BY LimiterInitInv, LimiterStepInv, PTL DEF LimiterSpec

(* The invariant implies the properties.                                       *)
LEMMA LimiterInvImplies ==
    ASSUME LimiterInv
    PROVE  LimiterTypeOK /\ WindowLimit
<1>1. LimiterTypeOK
  <2>1. ASSUME NEW slot \in Slots, bucket[slot] # Absent PROVE BucketOK(bucket[slot])
    <3>1. bucket[slot] \in Buckets /\ window[slot].spec # Absent /\ LimiterShapes
      <4>1. SlotOK(slot) /\ LimiterShapes /\ bucket[slot] \in Buckets \cup {Absent}
        BY DEF LimiterInv, LimiterShapes
      <4>. QED BY <2>1, <4>1, Zenon DEF SlotOK
    <3>2. window[slot].spec \in Specs
      BY <3>1, HaveNumber
    <3>3. bucket[slot].tokens <= window[slot].spec.cap /\ bucket[slot].last <= time
      BY <2>1, Zenon DEF LimiterInv, SlotOK
    <3>4. bucket[slot].tokens \in Nat /\ bucket[slot].last \in 0..time /\ bucket[slot].expires \in Nat
      BY <3>1, <3>3, ClockFacts DEF Buckets
    <3>5. bucket[slot].tokens >= 0
      BY <3>4
    <3>. QED BY <3>2, <3>3, <3>4, <3>5, Zenon DEF BucketOK
  <2>2. \A r \in Requests : req[r].pc \in {"idle", "check", "eval"} /\ req[r].spec \in Specs \cup {Absent}
    BY DEF LimiterInv, LimiterShapes, RequestT
  <2>. QED BY <2>1, <2>2, Zenon DEF LimiterInv, LimiterShapes, LimiterTypeOK
<1>2. WindowLimit
  <2>. SUFFICES ASSUME NEW slot \in Slots PROVE Limited(window[slot])
    BY Zenon DEF WindowLimit, Limited
  <2>1. SlotOK(slot)
    BY DEF LimiterInv
  <2>2. CASE window[slot].spec = Absent
    <3>1. window[slot].admits = <<>>
      BY <2>1, <2>2, Zenon DEF SlotOK
    <3>2. DOMAIN window[slot].admits = {}
      BY <3>1
    <3>. QED BY <3>2, Zenon DEF Limited
  <2>3. CASE window[slot].spec # Absent
    BY <2>1, <2>3, Zenon DEF SlotOK
  <2>. QED BY <2>2, <2>3
<1>. QED BY <1>1, <1>2

(* A bucket is never below empty nor above the cap of a limit, whatever the    *)
(* wall clock does and whichever limit a request brings (TokenBucket.consume,  *)
(* the script of rate_limit_valkey.py), for every set of replicas, requests    *)
(* and limits.                                                                 *)
THEOREM LimiterTypes == LimiterSpec => []LimiterTypeOK
  BY LimiterInductive, LimiterInvImplies, PTL

(* Over every stretch of real time a bucket checked under one limit admits at  *)
(* most a full bucket and the refill of the stretch (consume, in memory and in *)
(* the script), for every limit, however replicas interleave, the clock is set *)
(* back and buckets expire.                                                    *)
THEOREM WindowsAreLimited == LimiterSpec => []WindowLimit
  BY LimiterInductive, LimiterInvImplies, PTL

(* The EXPIRE of the script drops a bucket only once it would be full again.   *)
THEOREM ExpiryIsHarmless == LimiterSpec => ExpiryForgetsNothing
<1>1. LimiterInv /\ [LimiterNext]_limiterVars =>
        [Expire => Refilled(bucket["valkey"], window["valkey"].spec) = window["valkey"].spec.cap]_limiterVars
  BY ExpiredIsFull, Zenon
<1>. QED BY <1>1, LimiterInductive, PTL DEF LimiterSpec, ExpiryForgetsNothing
=============================================================================
