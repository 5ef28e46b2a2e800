---------------------------- MODULE EngineProofs ----------------------------
(* Proofs about Engine, for every set of rules, types, priorities, documents *)
(* and worker count. The argument rests on one fact about priorities: a      *)
(* non-empty finite set of fired rules has a winner, and rules that are      *)
(* outranked, or agree with the one winning type, cannot change it.          *)
EXTENDS Engine, FiniteSetTheorems, WellFoundedInduction, TLAPS

(* Among finitely many fired rules one has the highest priority, so the      *)
(* winners `_combine' picks are never empty (engine.py, `highest').          *)
LEMMA WinnersExist ==
    ASSUME rules \in [Rules -> RuleShapes],
           NEW fired \in SUBSET Rules, fired # {}
    PROVE  Winners(fired) # {}
<1> DEFINE Bad == {S \in SUBSET Rules : S # {} /\ Winners(S) = {}}
           Smaller == StrictSubsetOrdering(Rules)
<1> SUFFICES ASSUME Bad # {} PROVE FALSE
  OBVIOUS
<1>1. IsFiniteSet(Rules)
  BY FS_Interval, EngineAssumption DEF Rules
<1>2. IsWellFoundedOn(Smaller, SUBSET Rules)
  BY <1>1, FS_StrictSubsetOrderingWellFounded, FS_FiniteSubsetsOfFinite, Zenon
<1>3. PICK S \in Bad : \A T \in Bad : ~(<<T, S>> \in Smaller)
  <2>1. Bad \subseteq SUBSET Rules
    OBVIOUS
  <2> QED
    BY <1>2, <2>1, WFMin, Zenon
<1>4. \A r \in Rules : RulePriority(r) \in Int
  BY EngineAssumption DEF RulePriority, RuleType, RuleSpace
<1>5. PICK x \in S : TRUE
  OBVIOUS
<1>6. CASE S = {x}
  BY <1>3, <1>4, <1>5, <1>6 DEF Winners
<1>7. CASE S # {x}
  <2> DEFINE T == S \ {x}
  <2>1. T \in SUBSET Rules /\ T # {} /\ T # S /\ T \subseteq S
    BY <1>5, <1>7
  <2>2. <<T, S>> \in Smaller
    BY <2>1, <1>3 DEF StrictSubsetOrdering
  <2>3. Winners(T) # {}
    BY <2>1, <2>2, <1>3
  <2>4. PICK w \in T : \A q \in T : RulePriority(q) <= RulePriority(w)
    BY <2>3 DEF Winners
  <2>5. CASE RulePriority(x) <= RulePriority(w)
    <3>1. w \in Winners(S)
      BY <2>4, <2>5, <2>1 DEF Winners
    <3> QED
      BY <3>1, <1>3
  <2>6. CASE ~(RulePriority(x) <= RulePriority(w))
    <3>1. \A q \in S : RulePriority(q) <= RulePriority(x)
      BY <2>4, <2>6, <1>4, <1>5, <2>1
    <3>2. x \in Winners(S)
      BY <3>1, <1>5 DEF Winners
    <3> QED
      BY <3>2, <1>3
  <2> QED
    BY <2>5, <2>6
<1> QED
  BY <1>6, <1>7

(* The winning types of `_combine' are decision types of the process, and    *)
(* there is at least one when a rule fired.                                  *)
LEMMA TopTypesExist ==
    ASSUME rules \in [Rules -> RuleShapes],
           NEW fired \in SUBSET Rules, fired # {}
    PROVE  TopTypes(fired) # {} /\ TopTypes(fired) \subseteq Types
<1>1. Winners(fired) # {} /\ Winners(fired) \subseteq Rules
  BY WinnersExist DEF Winners
<1> QED
  BY <1>1, EngineAssumption DEF TopTypes, RuleType, RuleSpace

(* `_combine' always returns one of the process's decision types.            *)
LEMMA CombineType ==
    ASSUME rules \in [Rules -> RuleShapes],
           NEW rs \in [Rules -> RuleResult], NEW d \in DocShapes
    PROVE  Combine(rs, d) \in Verdict
<1>1. CombineReason(rs, d) \in Reasons
  BY DEF CombineReason, Reasons
<1>2. CombineReason(rs, d) = "RULES" => Fired(rs) # {}
  BY DEF CombineReason
<1>3. Fired(rs) \in SUBSET Rules
  BY DEF Fired
<1>4. CombineReason(rs, d) = "RULES" => (CHOOSE t \in TopTypes(Fired(rs)) : TRUE) \in Types
  BY <1>2, <1>3, TopTypesExist
<1> QED
  BY <1>1, <1>4, EngineAssumption DEF Combine, Verdict

(* Every result `_run_rule' can return is well formed for every instance.    *)
LEMMA RunRuleType ==
    ASSUME NEW r \in Rules, NEW result \in RunRule(r)
    PROVE  result \in [Instances -> RuleResult]
  BY DEF RunRule, RuleResult, Evaluated, Failures

(* Every state of `decide' is well formed: the pool runs only queued rules   *)
(* and each verdict is a decision type with a known reason.                  *)
THEOREM EngineTypeCorrect == Spec => []TypeOK
<1>1. Init => TypeOK
  <2> SUFFICES ASSUME Init PROVE TypeOK
    OBVIOUS
  <2>1. DOMAIN by_rule = {}
    BY DEF Init
  <2>2. verdicts \in [Instances -> Verdict \union {NoVerdict}]
    BY DEF Init
  <2>3. started \in 0..NRules /\ running \in SUBSET Rules
    BY EngineAssumption DEF Init
  <2> QED
    BY <2>1, <2>2, <2>3 DEF Init, TypeOK
<1>2. TypeOK /\ [Next]_vars => TypeOK'
  <2> SUFFICES ASSUME TypeOK, [Next]_vars PROVE TypeOK'
    OBVIOUS
  <2>1. CASE TakeRule
    BY <2>1, EngineAssumption DEF TakeRule, TypeOK, Rules, inputs
  <2>2. ASSUME NEW r \in Rules, FinishRule(r) PROVE TypeOK'
    <3>1. PICK result \in RunRule(r) :
             by_rule' = [q \in DOMAIN by_rule \union {r} |-> IF q = r THEN result ELSE by_rule[q]]
      BY <2>2 DEF FinishRule
    <3>2. result \in [Instances -> RuleResult]
      BY <3>1, RunRuleType
    <3> QED
      BY <2>2, <3>1, <3>2 DEF FinishRule, TypeOK, inputs
  <2>3. CASE Join
    <3>1. \A i \in Instances : [r \in Rules |-> by_rule[r][i]] \in [Rules -> RuleResult]
      BY <2>3 DEF Join, TypeOK
    <3>2. \A i \in Instances : Combine([r \in Rules |-> by_rule[r][i]], docs[i]) \in Verdict
      BY <3>1, CombineType DEF TypeOK
    <3> QED
      BY <2>3, <3>2 DEF Join, TypeOK, inputs
  <2>4. CASE UNCHANGED vars
    BY <2>4 DEF vars, TypeOK
  <2> QED
    BY <2>1, <2>2, <2>3, <2>4 DEF Next
<1> QED
  BY <1>1, <1>2, PTL DEF Spec

-----------------------------------------------------------------------------
(* The rules that could not run leave the winning type as it is, whichever   *)
(* of them would have fired.                                                 *)
LEMMA OutrankedRulesDoNotMatter ==
    ASSUME rules \in [Rules -> RuleShapes],
           NEW rs \in [Rules -> RuleResult], NEW extra \in SUBSET Unavailable(rs),
           Fired(rs) # {},
           Unavailable(rs) # {} => Decided(rs),
           \A t, u \in TopTypes(Fired(rs)) : t = u
    PROVE  TopTypes(Fired(rs) \union extra) = TopTypes(Fired(rs))
<1> DEFINE fired == Fired(rs)
<1>1. fired \in SUBSET Rules /\ Unavailable(rs) \in SUBSET Rules
  BY DEF Fired, Unavailable
<1>2. \A r \in Rules : RulePriority(r) \in Int
  BY EngineAssumption DEF RulePriority, RuleType, RuleSpace
<1>3. PICK w \in fired : \A q \in fired : RulePriority(q) <= RulePriority(w)
  BY <1>1, WinnersExist DEF Winners
<1>4. w \in Winners(fired)
  BY <1>3 DEF Winners
<1>5. TopTypes(fired) = {RuleType(w)}
  BY <1>4 DEF TopTypes
<1>6. \A u \in extra : \/ RulePriority(u) < RulePriority(w)
                       \/ RulePriority(u) = RulePriority(w) /\ RuleType(u) = RuleType(w)
  BY <1>4, <1>5 DEF Decided
<1>7. \A q \in fired \union extra : RulePriority(q) <= RulePriority(w)
  BY <1>1, <1>2, <1>3, <1>6
<1>8. w \in Winners(fired \union extra)
  BY <1>3, <1>7 DEF Winners
<1>9. \A x \in Winners(fired \union extra) : RuleType(x) = RuleType(w)
  <2> SUFFICES ASSUME NEW x \in Winners(fired \union extra) PROVE RuleType(x) = RuleType(w)
    OBVIOUS
  <2>1. x \in fired \union extra /\ RulePriority(w) <= RulePriority(x)
    BY <1>3 DEF Winners
  <2>2. RulePriority(x) = RulePriority(w)
    BY <2>1, <1>1, <1>2, <1>3, <1>7
  <2>3. CASE x \in fired
    <3>1. x \in Winners(fired)
      BY <2>2, <2>3, <1>3 DEF Winners
    <3> QED
      BY <3>1, <1>5 DEF TopTypes
  <2>4. CASE x \in extra
    BY <2>4, <2>2, <1>6, <1>1, <1>2, <1>3
  <2> QED
    BY <2>1, <2>3, <2>4
<1> QED
  BY <1>5, <1>8, <1>9 DEF TopTypes

(* A verdict of `_combine' that is not the escalation type is what the rules *)
(* say however the unevaluated ones would have answered.                     *)
LEMMA CombineRobust ==
    ASSUME rules \in [Rules -> RuleShapes],
           NEW rs \in [Rules -> RuleResult], NEW d,
           Combine(rs, d).decision # Escalate,
           NEW extra \in SUBSET Unevaluated(rs)
    PROVE  FullInformation(Fired(rs) \union extra, d) = Combine(rs, d).decision
<1> DEFINE top == TopTypes(Fired(rs))
<1>1. CombineReason(rs, d) \in {"DEFAULT", "RULES"}
  BY DEF Combine
<1>2. Unavailable(rs) = Unevaluated(rs) /\ (Unavailable(rs) # {} => Decided(rs))
  BY <1>1 DEF CombineReason
<1>3. CASE CombineReason(rs, d) = "DEFAULT"
  <2>1. Fired(rs) = {}
    BY <1>3 DEF CombineReason
  <2>2. extra = {}
    BY <1>2, <2>1 DEF Decided
  <2> QED
    BY <1>3, <2>1, <2>2 DEF FullInformation, Combine
<1>4. CASE CombineReason(rs, d) = "RULES"
  <2>1. Fired(rs) # {} /\ (\A t, u \in top : t = u) /\ ~ScanReview(d, top)
    BY <1>4 DEF CombineReason
  <2>2. TopTypes(Fired(rs) \union extra) = top
    BY <1>2, <2>1, OutrankedRulesDoNotMatter
  <2>3. Fired(rs) \union extra # {}
    BY <2>1
  <2> QED
    BY <1>4, <2>1, <2>2, <2>3 DEF FullInformation, Combine
<1> QED
  BY <1>1, <1>3, <1>4

(* Once joined, every verdict is `_combine' of its own row of results and    *)
(* its own document: the link the safety properties are proved from.         *)
Joined == done => /\ DOMAIN by_rule = Rules
                  /\ running = {}
                  /\ \A i \in Instances : verdicts[i] = Combine(RowOf(i), docs[i])

\* A rule that is running has not returned, and only queued rules are running.
PoolInv == /\ \A r \in running : r <= started /\ r \notin DOMAIN by_rule
           /\ \A r \in DOMAIN by_rule : r <= started

IInv == TypeOK /\ PoolInv /\ Joined

(* The inductive invariant holds in every state of `decide': no thread is    *)
(* left when the verdicts are joined, so no later answer can disagree.       *)
THEOREM EngineInductive == Spec => []IInv
<1>1. Init => PoolInv /\ Joined
  <2> SUFFICES ASSUME Init PROVE PoolInv /\ Joined
    OBVIOUS
  <2>1. DOMAIN by_rule = {}
    BY DEF Init
  <2> QED
    BY <2>1 DEF Init, PoolInv, Joined
<1>2. TypeOK /\ TypeOK' /\ PoolInv /\ [Next]_vars => PoolInv'
  <2> SUFFICES ASSUME TypeOK, PoolInv, [Next]_vars PROVE PoolInv'
    OBVIOUS
  <2>1. CASE TakeRule
    BY <2>1, EngineAssumption DEF TakeRule, PoolInv, TypeOK, Rules
  <2>2. ASSUME NEW r \in Rules, FinishRule(r) PROVE PoolInv'
    <3>1. DOMAIN by_rule' = DOMAIN by_rule \union {r}
      BY <2>2 DEF FinishRule
    <3> QED
      BY <2>2, <3>1 DEF FinishRule, PoolInv
  <2>3. CASE Join
    BY <2>3 DEF Join, PoolInv
  <2>4. CASE UNCHANGED vars
    BY <2>4 DEF vars, PoolInv
  <2> QED
    BY <2>1, <2>2, <2>3, <2>4 DEF Next
<1>3. TypeOK /\ PoolInv /\ Joined /\ [Next]_vars => Joined'
  <2> SUFFICES ASSUME TypeOK, PoolInv, Joined, [Next]_vars PROVE Joined'
    OBVIOUS
  <2>1. CASE TakeRule
    <3>1. NRules \in Rules /\ ~(NRules <= started)
      BY <2>1, EngineAssumption DEF TakeRule, TypeOK, Rules
    <3>2. ~done
      BY <3>1 DEF Joined, PoolInv
    <3> QED
      BY <2>1, <3>2 DEF TakeRule, Joined
  <2>2. ASSUME NEW r \in Rules, FinishRule(r) PROVE Joined'
    BY <2>2 DEF FinishRule, Joined
  <2>3. CASE Join
    <3>1. running = {}
      BY <2>3 DEF Join, PoolInv, TypeOK
    <3>2. rules' = rules /\ docs' = docs /\ by_rule' = by_rule /\ running' = running
      BY <2>3 DEF Join, inputs
    <3>3. \A i \in Instances : verdicts'[i] = Combine(RowOf(i), docs[i])
      BY <2>3 DEF Join, RowOf
    <3>4. \A i \in Instances : Combine(RowOf(i), docs[i])' = Combine(RowOf(i), docs[i])
      BY <3>2 DEF Combine, CombineReason, RowOf, Decided, ScanReview, TopTypes, Winners,
                  Fired, Unavailable, Unevaluated, RulePriority, RuleType
    <3> QED
      BY <2>3, <3>1, <3>2, <3>3, <3>4 DEF Join, Joined
  <2>4. CASE UNCHANGED vars
    <3>1. \A i \in Instances : Combine(RowOf(i), docs[i])' = Combine(RowOf(i), docs[i])
      BY <2>4 DEF vars, Combine, CombineReason, RowOf, Decided, ScanReview, TopTypes, Winners,
                  Fired, Unavailable, Unevaluated, RulePriority, RuleType
    <3> QED
      BY <2>4, <3>1 DEF vars, Joined
  <2> QED
    BY <2>1, <2>2, <2>3, <2>4 DEF Next
<1> QED
  BY <1>1, <1>2, <1>3, EngineTypeCorrect, PTL DEF Spec, IInv

(* A verdict that does not go to a person never depends on a rule that was   *)
(* not evaluated, for every process, rule set, outage and pool size.         *)
THEOREM EngineRobust == Spec => []RobustVerdict
<1>1. IInv => RobustVerdict
  <2> SUFFICES ASSUME IInv, done, NEW i \in Instances, verdicts[i].decision # Escalate,
                      NEW extra \in SUBSET Unevaluated(RowOf(i))
               PROVE  FullInformation(Fired(RowOf(i)) \union extra, docs[i]) = verdicts[i].decision
    BY DEF RobustVerdict
  <2>1. verdicts[i] = Combine(RowOf(i), docs[i]) /\ RowOf(i) \in [Rules -> RuleResult]
    BY DEF IInv, Joined, TypeOK, RowOf
  <2>2. rules \in [Rules -> RuleShapes]
    BY DEF IInv, TypeOK
  <2> QED
    BY <2>1, <2>2, CombineRobust
<1> QED
  BY <1>1, EngineInductive, PTL

(* Missing, unverified or unconfirmed required data, and a scan the rules    *)
(* would reject, reach a person, for every process and document.             *)
THEOREM EngineDoubt == Spec => []DoubtReachesAPerson
<1>1. IInv => DoubtReachesAPerson
  <2> SUFFICES ASSUME IInv, done, NEW i \in Instances
               PROVE  /\ docs[i].missing \union docs[i].unverified \union docs[i].unconfirmed # {} =>
                             verdicts[i].decision = Escalate
                      /\ docs[i].scan => verdicts[i].decision \in {Default, Escalate}
    BY DEF DoubtReachesAPerson
  <2> DEFINE rs == RowOf(i)
             top == TopTypes(Fired(rs))
  <2>1. verdicts[i] = Combine(rs, docs[i]) /\ rs \in [Rules -> RuleResult]
    BY DEF IInv, Joined, TypeOK, RowOf
  <2>2. docs[i].missing \union docs[i].unverified \union docs[i].unconfirmed # {} =>
           CombineReason(rs, docs[i]) \in {"MISSING_DATA", "UNVERIFIED_DATA"}
    BY DEF CombineReason
  <2>3. CombineReason(rs, docs[i]) = "RULES" /\ docs[i].scan =>
           (CHOOSE t \in top : TRUE) \in {Default, Escalate}
    <3> SUFFICES ASSUME CombineReason(rs, docs[i]) = "RULES", docs[i].scan
                 PROVE  (CHOOSE t \in top : TRUE) \in {Default, Escalate}
      OBVIOUS
    <3>1. Fired(rs) # {} /\ top \subseteq {Default, Escalate}
      BY DEF CombineReason, ScanReview
    <3>2. top # {}
      BY <3>1, <2>1, TopTypesExist DEF Fired, IInv, TypeOK
    <3> QED
      BY <3>1, <3>2
  <2> QED
    BY <2>1, <2>2, <2>3 DEF Combine
<1> QED
  BY <1>1, EngineInductive, PTL

(* When a source that is down leaves `_combine' undecided, the rules it keeps *)
(* from running could change the outcome, unless it goes to a person anyway   *)
(* or one of them concludes the default type.                                 *)
LEMMA GivesUpWhenOpen ==
    ASSUME rules \in [Rules -> RuleShapes],
           NEW rs \in [Rules -> RuleResult], NEW d,
           CombineReason(rs, d) = "SOURCE_UNAVAILABLE",
           NEW x, x # Escalate,
           \A a \in SUBSET Unevaluated(rs) : FullInformation(Fired(rs) \union a, d) = x
    PROVE  \E u \in Unevaluated(rs) : RuleType(u) = Default
<1> DEFINE fired == Fired(rs)
           open == Unevaluated(rs)
           top == TopTypes(fired)
<1>1. open = Unavailable(rs) /\ open # {} /\ ~Decided(rs)
  BY DEF CombineReason
<1>2. fired \in SUBSET Rules /\ open \in SUBSET Rules
  BY DEF Fired, Unevaluated
<1>3. \A r \in Rules : RulePriority(r) \in Int
  BY EngineAssumption DEF RulePriority, RuleType, RuleSpace
<1>4. FullInformation(fired, d) = x
  <2>1. {} \in SUBSET open /\ fired \union {} = fired
    OBVIOUS
  <2> QED
    BY <2>1
<1>5. ASSUME NEW u \in open PROVE FullInformation(fired \union {u}, d) = x
  BY <1>5
<1>6. CASE fired = {}
  <2>1. x = Default
    BY <1>4, <1>6 DEF FullInformation
  <2>2. PICK u \in open : TRUE
    BY <1>1
  <2>3. FullInformation({u}, d) = x
    BY <1>5, <1>6
  <2>4. TopTypes({u}) = {RuleType(u)}
    <3>1. u \in Winners({u})
      BY <1>2, <1>3 DEF Winners
    <3>2. Winners({u}) = {u}
      BY <3>1 DEF Winners
    <3> QED
      BY <3>2 DEF TopTypes
  <2>5. RuleType(u) = x
    BY <2>3, <2>4 DEF FullInformation
  <2> QED
    BY <2>1, <2>5
<1>7. CASE fired # {}
  <2>1. PICK u \in open, w \in Winners(fired) :
           ~ \/ RulePriority(u) < RulePriority(w)
             \/ RulePriority(u) = RulePriority(w) /\ top = {RuleType(u)}
    BY <1>1, <1>7 DEF Decided
  <2>2. /\ w \in fired /\ w \in Rules /\ u \in Rules
        /\ RulePriority(u) \in Int /\ RulePriority(w) \in Int
        /\ \A q \in fired : RulePriority(q) <= RulePriority(w) /\ RulePriority(q) \in Int
    BY <1>2, <1>3 DEF Winners
  <2>3. top # {} /\ RuleType(w) \in top
    BY DEF TopTypes
  <2>4. (\A t, v \in top : t = v) /\ x \in top
    BY <1>4, <1>7, <2>3 DEF FullInformation
  <2>5. top = {x} /\ RuleType(w) = x
    BY <2>3, <2>4
  <2>6. FullInformation(fired \union {u}, d) = x
    BY <1>5
  <2>7. u \in Winners(fired \union {u})
    BY <2>1, <2>2 DEF Winners
  <2>8. RuleType(u) \in TopTypes(fired \union {u})
    BY <2>7 DEF TopTypes
  <2>9. (\A t, v \in TopTypes(fired \union {u}) : t = v) /\ x \in TopTypes(fired \union {u})
    BY <2>6, <2>8 DEF FullInformation
  <2>10. RuleType(u) = x
    BY <2>8, <2>9
  <2>11. RulePriority(u) = RulePriority(w)
    BY <2>5, <2>10 DEF RulePriority
  <2> QED
    BY <2>1, <2>5, <2>10, <2>11
<1> QED
  BY <1>6, <1>7

(* A source that is down sends a case to a person only when what it keeps the *)
(* rules from saying matters, for every process, rule set and outage.         *)
THEOREM EngineEscalation == Spec => []EscalatesOnlyWhenOpen
<1>1. IInv => EscalatesOnlyWhenOpen
  <2> SUFFICES ASSUME IInv, done, NEW i \in Instances, verdicts[i].reason = "SOURCE_UNAVAILABLE"
               PROVE  LET outcome(extra) == FullInformation(Fired(RowOf(i)) \union extra, docs[i])
                          open == Unevaluated(RowOf(i))
                      IN  \/ \E a, b \in SUBSET open : outcome(a) # outcome(b)
                          \/ \A a \in SUBSET open : outcome(a) = Escalate
                          \/ \E u \in open : RuleType(u) = Default
    BY DEF EscalatesOnlyWhenOpen
  <2> DEFINE rs == RowOf(i)
             outcome(extra) == FullInformation(Fired(rs) \union extra, docs[i])
             open == Unevaluated(rs)
             x == outcome({})
  <2>1. verdicts[i] = Combine(rs, docs[i]) /\ rs \in [Rules -> RuleResult]
    BY DEF IInv, Joined, TypeOK, RowOf
  <2>2. CombineReason(rs, docs[i]) = "SOURCE_UNAVAILABLE" /\ rules \in [Rules -> RuleShapes]
    BY <2>1 DEF Combine, IInv, TypeOK
  <2>3. CASE \A a \in SUBSET open : outcome(a) = x
    <3>1. CASE x = Escalate
      BY <2>3, <3>1
    <3>2. CASE x # Escalate
      <4>1. \E u \in open : RuleType(u) = Default
        <5> HIDE DEF x, rs
        <5> QED
          BY <2>1, <2>2, <2>3, <3>2, GivesUpWhenOpen
      <4> QED
        BY <4>1
    <3> QED
      BY <3>1, <3>2
  <2>4. CASE ~ \A a \in SUBSET open : outcome(a) = x
    <3>1. {} \in SUBSET open
      OBVIOUS
    <3> QED
      BY <2>4, <3>1
  <2> QED
    BY <2>3, <2>4
<1> QED
  BY <1>1, EngineInductive, PTL
=============================================================================
