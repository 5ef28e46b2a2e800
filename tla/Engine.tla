------------------------------- MODULE Engine -------------------------------
(* The decision engine of decisions/engine.py and the part of                *)
(* versions/execution.py that calls it. `decide' runs every rule over every  *)
(* instance on a thread pool, joins the answers and combines them, one       *)
(* instance at a time, into a verdict. The sandbox that runs rule code is    *)
(* external: each call answers fires or quiet per instance, fails for an     *)
(* instance, or fails for the whole batch.                                   *)
EXTENDS Integers, FiniteSets

CONSTANTS
    NRules,         \* rules of the snapshot, in snapshot order 1..NRules
    Instances,      \* keys of the dataset
    Types,          \* decision types of the process
    Priority,       \* [Types -> Int]; the highest fired priority wins
    Default,        \* the type when no rule fires
    Escalate,       \* the type that sends the case to a person
    Required,       \* required symbols of the process
    Sources,        \* source names
    AnySource,      \* compiler.ANY_SOURCE: the code reads every source
    RuleWorkers,    \* settings.decision_workers
    RuleShapes,     \* the rules the snapshot may hold
    DocShapes       \* the documents the dataset may hold

Rules == 1..NRules

CodeStates == {"code", "needs_data", "compile_failed", "empty"}

RuleSpace == [decision : Types, code : CodeStates, reads : SUBSET (Sources \union {AnySource})]

\* What the engine reads of a document: required symbols that are absent or
\* blank, whether it is a scan and which ones its readers left unconfirmed, and
\* the ones marked unverified.
DocSpace == {d \in [missing : SUBSET Required, scan : BOOLEAN,
                    unconfirmed : SUBSET Required, unverified : SUBSET Required] :
                d.unconfirmed # {} => d.scan}

ASSUME EngineAssumption ==
    /\ NRules \in Nat
    /\ Priority \in [Types -> Int]
    /\ Default \in Types /\ Escalate \in Types /\ Default # Escalate
    /\ AnySource \notin Sources
    /\ RuleWorkers \in Int
    /\ RuleShapes \subseteq RuleSpace
    /\ DocShapes \subseteq DocSpace

Evaluated == {"fires", "quiet"}
Failures == {"SOURCE_UNAVAILABLE", "RULE_NEEDS_DATA", "RULE_COMPILE_FAILED", "RULE_ERROR"}
RuleResult == Evaluated \union Failures

Reasons == {"UNVERIFIED_DATA", "MISSING_DATA", "RULE_FAILURE", "SOURCE_UNAVAILABLE",
            "DEFAULT", "RULE_CONFLICT", "SCAN_REVIEW", "RULES"}
Verdict == [decision : Types, reason : Reasons]
NoVerdict == [decision |-> Escalate, reason |-> "none"]

VARIABLES
    rules,          \* [Rules -> RuleShapes], the snapshot's rules
    docs,           \* [Instances -> DocShapes], the captured documents
    unavailable,    \* names of the sources that are down for this run
    started,        \* rules 1..started were taken from the pool's queue
    running,        \* rules a pool thread is evaluating
    by_rule,        \* results of the rules that returned, per instance
    verdicts,       \* [Instances -> Verdict] once joined
    done

vars == <<rules, docs, unavailable, started, running, by_rule, verdicts, done>>
inputs == <<rules, docs, unavailable>>

-----------------------------------------------------------------------------
\* The unavailable sources rule r reads; all of them when its code reads `*'.
Down(r) == IF AnySource \in rules[r].reads THEN unavailable
           ELSE rules[r].reads \intersect unavailable

\* Mutant: the sandbox's answer is stored as it came, without `_read'.
RunRuleUnread(r) == [Instances -> Evaluated \union {"exception"}]

\* _run_rule: the results, over every instance, that one rule can come back with.
RunRule(r) ==
    LET all(x) == {[i \in Instances |-> x]}
    IN  IF Down(r) # {} THEN all("SOURCE_UNAVAILABLE")
        ELSE IF rules[r].code = "needs_data" THEN all("RULE_NEEDS_DATA")
        ELSE IF rules[r].code = "compile_failed" THEN all("RULE_COMPILE_FAILED")
        ELSE IF rules[r].code = "empty" THEN all("RULE_ERROR")
        ELSE [Instances -> Evaluated \union {"RULE_ERROR"}]

\* _combine works on rs, the results of one instance, and d, its document.
RuleType(r) == rules[r].decision
RulePriority(r) == Priority[RuleType(r)]
Fired(rs) == {r \in Rules : rs[r] = "fires"}
Unevaluated(rs) == {r \in Rules : rs[r] \notin Evaluated}
Unavailable(rs) == {r \in Rules : rs[r] = "SOURCE_UNAVAILABLE"}
Winners(fired) == {r \in fired : \A q \in fired : RulePriority(q) <= RulePriority(r)}
TopTypes(fired) == {RuleType(r) : r \in Winners(fired)}

\* Mutant: a tie with another type counts as decided.
DecidedIgnoringTies(rs) ==
    /\ Fired(rs) # {}
    /\ \A u \in Unavailable(rs) : \A w \in Winners(Fired(rs)) : RulePriority(u) <= RulePriority(w)

\* Mutant: only a strictly higher outcome counts as decided.
DecidedStrictly(rs) ==
    /\ Fired(rs) # {}
    /\ \A u \in Unavailable(rs) : \A w \in Winners(Fired(rs)) : RulePriority(u) < RulePriority(w)

\* No rule that could not run could outrank the outcome, or tie it with another type.
Decided(rs) ==
    /\ Fired(rs) # {}
    /\ \A u \in Unavailable(rs) : \A w \in Winners(Fired(rs)) :
          \/ RulePriority(u) < RulePriority(w)
          \/ /\ RulePriority(u) = RulePriority(w)
             /\ TopTypes(Fired(rs)) = {RuleType(u)}

\* Mutant: the scan policy is skipped.
ScanReviewSkipped(d, types) == FALSE

\* A scan the rules would settle against the default goes to a person (ADR 0025).
ScanReview(d, types) == d.scan /\ ~(types \subseteq {Default, Escalate})

CombineReason(rs, d) ==
    LET top == TopTypes(Fired(rs))
    IN  IF d.unverified # {} THEN "UNVERIFIED_DATA"
        ELSE IF d.missing # {} THEN "MISSING_DATA"
        ELSE IF d.unconfirmed # {} THEN "UNVERIFIED_DATA"
        ELSE IF Unavailable(rs) # Unevaluated(rs) THEN "RULE_FAILURE"
        ELSE IF Unavailable(rs) # {} /\ ~Decided(rs) THEN "SOURCE_UNAVAILABLE"
        ELSE IF Fired(rs) = {} THEN "DEFAULT"
        ELSE IF \E t, u \in top : t # u THEN "RULE_CONFLICT"
        ELSE IF ScanReview(d, top) THEN "SCAN_REVIEW"
        ELSE "RULES"

Combine(rs, d) ==
    LET reason == CombineReason(rs, d)
    IN  [decision |-> CASE reason = "DEFAULT" -> Default
                        [] reason = "RULES" -> CHOOSE t \in TopTypes(Fired(rs)) : TRUE
                        [] OTHER -> Escalate,
         reason |-> reason]

-----------------------------------------------------------------------------
Init ==
    /\ rules \in [Rules -> RuleShapes]
    /\ docs \in [Instances -> DocShapes]
    /\ unavailable \in SUBSET Sources
    /\ started = 0
    /\ running = {}
    /\ by_rule = [r \in {} |-> {}]
    /\ verdicts = [i \in Instances |-> NoVerdict]
    /\ done = FALSE

\* max(1, min(max(1, rule_workers), len(rules))) threads.
PoolSize == IF RuleWorkers < 1 \/ NRules < 1 THEN 1
            ELSE IF RuleWorkers < NRules THEN RuleWorkers ELSE NRules

\* Mutant: the queue is drained one rule short.
TakeRuleShort ==
    /\ started + 1 < NRules
    /\ started' = started + 1
    /\ running' = running \union {started + 1}
    /\ UNCHANGED <<inputs, by_rule, verdicts, done>>

\* A pool thread takes the next rule of the queue.
TakeRule ==
    /\ started < NRules
    /\ Cardinality(running) < PoolSize
    /\ started' = started + 1
    /\ running' = running \union {started + 1}
    /\ UNCHANGED <<inputs, by_rule, verdicts, done>>

\* The thread evaluating rule r returns its results.
FinishRule(r) ==
    /\ r \in running
    /\ running' = running \ {r}
    /\ \E result \in RunRule(r) :
          by_rule' = [q \in DOMAIN by_rule \union {r} |-> IF q = r THEN result ELSE by_rule[q]]
    /\ UNCHANGED <<inputs, started, verdicts, done>>

\* Every future has returned: the results are transposed and combined.
Join ==
    /\ ~done
    /\ DOMAIN by_rule = Rules
    /\ verdicts' = [i \in Instances |-> Combine([r \in Rules |-> by_rule[r][i]], docs[i])]
    /\ done' = TRUE
    /\ UNCHANGED <<inputs, started, running, by_rule>>

Next == TakeRule \/ (\E r \in Rules : FinishRule(r)) \/ Join

Spec == Init /\ [][Next]_vars /\ WF_vars(Next)

-----------------------------------------------------------------------------
TypeOK ==
    /\ rules \in [Rules -> RuleShapes]
    /\ docs \in [Instances -> DocShapes]
    /\ unavailable \in SUBSET Sources
    /\ started \in 0..NRules
    /\ running \in SUBSET Rules
    /\ DOMAIN by_rule \in SUBSET Rules
    /\ \A r \in DOMAIN by_rule : by_rule[r] \in [Instances -> RuleResult]
    /\ verdicts \in [Instances -> Verdict \union {NoVerdict}]
    /\ done \in BOOLEAN

\* What the rules say once every one of them is evaluated: `fired' are the ones that fire.
FullInformation(fired, d) ==
    LET top == TopTypes(fired)
    IN  IF fired = {} THEN Default
        ELSE IF \E t, u \in top : t # u THEN Escalate
        ELSE IF ScanReview(d, top) THEN Escalate
        ELSE CHOOSE t \in top : TRUE

RowOf(i) == [r \in Rules |-> by_rule[r][i]]

(* A verdict that does not go to a person never depends on a rule that was   *)
(* not evaluated: whichever of the unevaluated rules had fired, the rules    *)
(* would have decided the same (engine.py `_combine', ADR 0028).             *)
RobustVerdict ==
    done => \A i \in Instances :
        verdicts[i].decision # Escalate =>
            \A extra \in SUBSET Unevaluated(RowOf(i)) :
                FullInformation(Fired(RowOf(i)) \union extra, docs[i]) = verdicts[i].decision

(* The engine gives up on a down source only when its answer matters: if no  *)
(* answer of the rules it could not run changes the outcome, that outcome is *)
(* an escalation anyway, or one of those rules concludes the default type.   *)
EscalatesOnlyWhenOpen ==
    done => \A i \in Instances :
        verdicts[i].reason = "SOURCE_UNAVAILABLE" =>
            LET outcome(extra) == FullInformation(Fired(RowOf(i)) \union extra, docs[i])
                open == Unevaluated(RowOf(i))
            IN  \/ \E a, b \in SUBSET open : outcome(a) # outcome(b)
                \/ \A a \in SUBSET open : outcome(a) = Escalate
                \/ \E u \in open : RuleType(u) = Default

(* A required symbol that is missing, unverified or unconfirmed, and a scan  *)
(* the rules would reject, always reach a person (ADR 0016, ADR 0025).       *)
DoubtReachesAPerson ==
    done => \A i \in Instances :
        /\ docs[i].missing \union docs[i].unverified \union docs[i].unconfirmed # {} =>
              verdicts[i].decision = Escalate
        /\ docs[i].scan => verdicts[i].decision \in {Default, Escalate}

(* Every batch is decided once all its rules were taken from the pool's      *)
(* queue, whatever their order of completion.                                *)
EveryInstanceDecided == <>(\A i \in Instances : verdicts[i] # NoVerdict)
=============================================================================
