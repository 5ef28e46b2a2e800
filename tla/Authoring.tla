----------------------------- MODULE Authoring -----------------------------
(* How the configuration of a process is written: rules and their compilation  *)
(* (rules/service.py), the process draft (versions/service.py), norms learned  *)
(* from past decisions (learning/service.py) and saved conversations           *)
(* (processes/drafts.py). Three paths publish a version; all of them write     *)
(* rule rows that the others read.                                             *)
(*                                                                             *)
(* A compilation, the validation of a norm and the preparation of a            *)
(* conversation ask models for minutes outside any lock: each is two steps.    *)
(* Decided cases, loads and readings are one counter, the past.                *)
EXTENDS Integers, Sequences, FiniteSets, SequencesExt

CONSTANTS
    Configs,        \* what a snapshot says besides its rules and guidance
    Start,          \* the configuration of version 1
    Norms,          \* norms the learner proposed
    Deterministic,  \* those that become rules; the others become guidance
    Ops,            \* what people use in a run: "draft", "create", "compile", "select", "sessions"
    Faults,         \* "crash": the server dies and starts again, "database": before its database
    MaxRules,       \* bounds: rule rows,
    MaxCodes,       \* compiled artifacts,
    MaxVersions,    \* versions,
    MaxRevision,    \* revisions of a draft,
    MaxTurns,       \* revisions of a conversation,
    MaxPast         \* changes of the past

ASSUME AuthoringAssumption ==
    /\ Start \in Configs /\ Deterministic \subseteq Norms
    /\ \A n \in {MaxRules, MaxCodes, MaxVersions, MaxRevision, MaxTurns} : n \in Nat \ {0}
    /\ MaxPast \in Nat

VARIABLES
    rules,          \* Seq(RuleRow), table rules
    codes,          \* Seq(BOOLEAN): whether the report of an artifact is valid
    versions,       \* Seq(Version), the last one active
    draft,          \* the process draft, or NoDraft
    compiling,      \* [1..MaxRules -> Job], background compilations
    request,        \* one compilation a manager waits for
    norms,          \* [Norms -> Norm], tables proposals, validations, adoptions
    session,        \* one saved conversation, or NoSession
    past,           \* how often cases, decisions or loads changed
    removed         \* texts of rules and norms that somebody took out of a candidate

ruleVars == <<rules, codes, compiling, request>>
vars == <<ruleVars, versions, draft, norms, session, past, removed>>

-----------------------------------------------------------------------------
\* Rows

\* An artifact of a rule, as a snapshot keeps it: its code, 0 before the first compilation.
Artifact == [rule : 1..MaxRules, code : 0..MaxCodes]
Snapshot == [config : Configs, rules : SUBSET Artifact, guidance : SUBSET Norms]

\* The text is the id of the row it was written for, or 0 for one a conversation wrote.
RuleRow == [status : {"compiling", "draft", "active", "retired"}, code : 0..MaxCodes,
            text : 0..MaxRules]

NoJob == [rule |-> 0, context |-> "none"]
Job == [rule : 0..MaxRules, context : Configs \union {"none", "no_draft"}]

NoDraft == [revision |-> 0, snapshot |-> [config |-> Start, rules |-> {}, guidance |-> {}],
            base |-> 0, validated |-> -1]
Draft == [revision : 1..MaxRevision, snapshot : Snapshot, base : 1..MaxVersions,
          validated : -1..MaxPast]

Norm == [status : {"open", "accepted", "rejected"}, valid : BOOLEAN, running : BOOLEAN,
         active : 0..MaxVersions, past : 0..MaxPast, code : 0..MaxCodes, text : 0..MaxRules]
NoNorm == [status |-> "open", valid |-> FALSE, running |-> FALSE, active |-> 0, past |-> 0,
           code |-> 0, text |-> 0]

\* A plan names the rules it wants by their text.
Plan == [config : Configs, rules : SUBSET (0..MaxRules), guidance : SUBSET Norms]
NoPreview == [revision |-> 0, plan |-> [config |-> Start, rules |-> {}, guidance |-> {}],
              kept |-> {}, code |-> 0]
Preview == [revision : 1..MaxTurns, plan : Plan, kept : SUBSET Artifact, code : 0..MaxCodes]
NoSession == [revision |-> 0, base |-> [config |-> Start, rules |-> {}, guidance |-> {}],
              from |-> [active |-> 0, past |-> 0],
              plan |-> [config |-> Start, rules |-> {}, guidance |-> {}],
              accepted |-> FALSE, preview |-> NoPreview, preparing |-> NoPreview,
              published |-> FALSE]

Active == versions[Len(versions)]

\* What a candidate starts from: the draft, else the active version.
Candidate == IF draft = NoDraft THEN Active ELSE draft.snapshot

ArtifactOf(r) == [rule |-> r, code |-> rules[r].code]
RulesOf(snapshot) == {a.rule : a \in snapshot.rules}
CodeIn(snapshot, r) == (CHOOSE a \in snapshot.rules : a.rule = r).code
Texts(ids) == {rules[r].text : r \in ids}

\* What a compilation reads of the draft, by its digest.
ContextOf(row) == IF row = NoDraft THEN "no_draft" ELSE row.snapshot.config

\* A rule has code and a report that is valid.
Checked(code) == code # 0 /\ codes[code]

\* Every rule was compiled, whatever its report says.
CompiledAtAll(snapshot) == \A a \in snapshot.rules : a.code # 0

\* check_configuration, as far as the rules go.
WellFormed(snapshot) == \A a \in snapshot.rules : Checked(a.code)

\* execution.capture and evidence.capture: the version and the past.
Fingerprint == [active |-> Len(versions), past |-> past]

-----------------------------------------------------------------------------
\* stage, edit, validate, publish of the process draft

\* A new draft that takes over what an old one was based on loses what was published since.
StagedOnActive(snapshot) ==
    [revision |-> draft.revision + 1, snapshot |-> snapshot, validated |-> -1, base |-> Len(versions)]

Staged(snapshot) ==
    [revision |-> draft.revision + 1, snapshot |-> snapshot, validated |-> -1,
     base |-> IF draft = NoDraft THEN Len(versions) ELSE draft.base]

CanStage == draft.revision < MaxRevision

\* A manager changes the configuration or selects rules. A draft on an older version is
\* first restored from the active one.
EditBase == IF draft # NoDraft /\ draft.base # Len(versions) THEN Active ELSE Candidate

EditConfig(config) ==
    /\ CanStage
    /\ draft' = [Staged([EditBase EXCEPT !.config = config]) EXCEPT !.base = Len(versions)]
    /\ UNCHANGED <<ruleVars, versions, norms, session, past, removed>>

EditRules(ids) ==
    /\ CanStage
    /\ draft' = [Staged([EditBase EXCEPT !.rules = {ArtifactOf(r) : r \in ids}])
                    EXCEPT !.base = Len(versions)]
    /\ removed' = removed \union Texts(RulesOf(EditBase) \ ids)
    /\ UNCHANGED <<ruleVars, versions, norms, session, past>>

Validate ==
    /\ draft # NoDraft /\ draft.base = Len(versions)
    /\ WellFormed(draft.snapshot)
    /\ draft' = [draft EXCEPT !.validated = past]
    /\ UNCHANGED <<ruleVars, versions, norms, session, past, removed>>

Discard ==
    /\ draft # NoDraft
    /\ draft' = NoDraft
    /\ UNCHANGED <<ruleVars, versions, norms, session, past, removed>>

\* publish_snapshot: a version of this exact candidate; the rows of its rules take its code
\* and are active, the other enforced rows retire.
RowsAfter(table, snapshot) ==
    [r \in DOMAIN table |->
        IF r \in RulesOf(snapshot)
        THEN [table[r] EXCEPT !.status = "active", !.code = CodeIn(snapshot, r)]
        ELSE IF table[r].status = "active" THEN [table[r] EXCEPT !.status = "retired"]
        ELSE table[r]]

\* The rows of rules are left as they are.
VersionOnly(table, snapshot) ==
    /\ Len(versions) < MaxVersions
    /\ versions' = Append(versions, snapshot)
    /\ UNCHANGED rules

PublishSnapshot(table, snapshot) ==
    /\ Len(versions) < MaxVersions
    /\ versions' = Append(versions, snapshot)
    /\ rules' = RowsAfter(table, snapshot)

Publish ==
    /\ draft # NoDraft
    /\ draft.validated = past /\ draft.base = Len(versions)
    /\ PublishSnapshot(rules, draft.snapshot)
    /\ draft' = NoDraft
    /\ UNCHANGED <<codes, compiling, request, norms, session, past, removed>>

-----------------------------------------------------------------------------
\* Rules

\* create: the row and the draft that carries it are saved together, the compilation starts
\* behind the answer.
CreateRule ==
    /\ CanStage /\ Len(rules) < MaxRules
    /\ LET r == Len(rules) + 1
       IN  /\ rules' = Append(rules, [status |-> "compiling", code |-> 0, text |-> r])
           /\ draft' = Staged([Candidate EXCEPT !.rules = @ \union {[rule |-> r, code |-> 0]}])
           /\ compiling' = [compiling EXCEPT ![r] = [rule |-> r, context |-> ContextOf(draft')]]
    /\ UNCHANGED <<codes, request, versions, norms, session, past, removed>>

\* compile_rule: a rule that is compiling or enforced is refused.
Compilable(r) == rules[r].status \in {"draft", "retired"}

StartCompile(r) ==
    /\ request = NoJob /\ Compilable(r)
    /\ request' = [rule |-> r, context |-> ContextOf(draft)]
    /\ UNCHANGED <<rules, codes, compiling, versions, draft, norms, session, past, removed>>

\* What the row and the draft get from a compilation.
Land(r, valid) ==
    LET code == Len(codes) + 1
    IN  /\ codes' = Append(codes, valid)
        /\ rules' = [rules EXCEPT ![r].status = "draft", ![r].code = code]
        /\ draft' = IF draft = NoDraft \/ r \notin RulesOf(draft.snapshot) THEN draft
                    ELSE Staged([draft.snapshot EXCEPT !.rules =
                            {IF a.rule = r THEN [rule |-> r, code |-> code] ELSE a : a \in @}])

\* The configuration of the draft is the one it was compiled for.
SameContext(job) == ContextOf(draft) = job.context

\* The end of a compilation a manager waited for: it lands, is refused or fails.
EndRequest ==
    /\ request # NoJob
    /\ \/ /\ SameContext(request) /\ Len(codes) < MaxCodes /\ CanStage
          /\ \E valid \in BOOLEAN : Land(request.rule, valid)
       \/ UNCHANGED <<rules, codes, draft>>
    /\ request' = NoJob
    /\ UNCHANGED <<compiling, versions, norms, session, past, removed>>

\* In the background a failure leaves a rule that was compiling as a draft.
EndCompile(r) ==
    /\ compiling[r] # NoJob
    /\ \/ /\ SameContext(compiling[r]) /\ Len(codes) < MaxCodes /\ CanStage
          /\ \E valid \in BOOLEAN : Land(r, valid)
       \/ /\ rules' = IF rules[r].status = "compiling"
                      THEN [rules EXCEPT ![r].status = "draft"] ELSE rules
          /\ UNCHANGED <<codes, draft>>
    /\ compiling' = [compiling EXCEPT ![r] = NoJob]
    /\ UNCHANGED <<request, versions, norms, session, past, removed>>

\* Nobody takes up the compilations of the server that died.
NothingResumed == [r \in 1..MaxRules |-> NoJob]

\* The server dies and starts again: resume_compilations compiles what was left compiling,
\* unless the database is not there yet.
Resumed == [r \in 1..MaxRules |->
    IF r \in DOMAIN rules /\ rules[r].status = "compiling"
    THEN [rule |-> r, context |-> ContextOf(draft)] ELSE NoJob]

Restart ==
    /\ "crash" \in Faults
    /\ request' = NoJob
    /\ compiling' = Resumed
    /\ norms' = [n \in Norms |-> [norms[n] EXCEPT !.running = FALSE]]
    /\ session' = IF session = NoSession THEN session ELSE [session EXCEPT !.preparing = NoPreview]
    /\ UNCHANGED <<rules, codes, versions, draft, past, removed>>

RestartWithoutDatabase ==
    /\ "database" \in Faults
    /\ request' = NoJob
    /\ compiling' = [r \in 1..MaxRules |-> NoJob]
    /\ UNCHANGED <<rules, codes, versions, draft, norms, session, past, removed>>

\* activate and retire: the rule enters or leaves the draft.
MayActivate(r) == Checked(rules[r].code)

Without(snapshot, r) == {a \in snapshot.rules : a.rule # r}

Activate(r) ==
    /\ CanStage /\ MayActivate(r)
    /\ draft' = Staged([Candidate EXCEPT !.rules = Without(Candidate, r) \union {ArtifactOf(r)}])
    /\ UNCHANGED <<ruleVars, versions, norms, session, past, removed>>

Retire(r) ==
    /\ CanStage
    /\ draft' = Staged([Candidate EXCEPT !.rules = Without(Candidate, r)])
    /\ removed' = removed \union Texts({r})
    /\ UNCHANGED <<ruleVars, versions, norms, session, past>>

-----------------------------------------------------------------------------
\* Norms learned from the past

\* validate captures the evidence, then has the norm compiled and compared on that capture.
StartValidation(n) ==
    /\ norms[n].status = "open" /\ ~norms[n].running
    /\ norms' = [norms EXCEPT ![n] = [NoNorm EXCEPT !.running = TRUE, !.active = Len(versions),
                                                    !.past = past]]
    /\ UNCHANGED <<ruleVars, versions, draft, session, past, removed>>

EndValidation(n) ==
    /\ norms[n].running
    /\ \/ /\ n \notin Deterministic
          /\ norms' = [norms EXCEPT ![n].running = FALSE, ![n].valid = TRUE]
          /\ UNCHANGED codes
       \/ /\ n \in Deterministic /\ Len(codes) < MaxCodes
          /\ codes' = Append(codes, TRUE)
          /\ norms' = [norms EXCEPT ![n].running = FALSE, ![n].valid = TRUE,
                                    ![n].code = Len(codes) + 1]
       \/ /\ norms' = [norms EXCEPT ![n].running = FALSE]
          /\ UNCHANGED codes
    /\ UNCHANGED <<rules, compiling, request, versions, draft, session, past, removed>>

\* approve: only on the evidence it was validated on; the active configuration grows by the
\* norm and the draft stays as it is.
SameEvidence(n) == norms[n].active = Len(versions) /\ norms[n].past = past

AdoptNorm(n) ==
    /\ norms[n].status = "open" /\ ~norms[n].running /\ norms[n].valid
    /\ SameEvidence(n)
    /\ IF n \in Deterministic
       THEN LET r == Len(rules) + 1
            IN  /\ Len(rules) < MaxRules
                /\ PublishSnapshot(Append(rules, [status |-> "active", code |-> norms[n].code, text |-> r]),
                       [Active EXCEPT !.rules = @ \union {[rule |-> r, code |-> norms[n].code]}])
                /\ norms' = [norms EXCEPT ![n].status = "accepted", ![n].text = r]
       ELSE /\ PublishSnapshot(rules, [Active EXCEPT !.guidance = @ \union {n}])
            /\ norms' = [norms EXCEPT ![n].status = "accepted"]
    /\ UNCHANGED <<codes, compiling, request, draft, session, past, removed>>

RejectNorm(n) ==
    /\ norms[n].status = "open" /\ ~norms[n].running
    /\ norms' = [norms EXCEPT ![n].status = "rejected"]
    /\ UNCHANGED <<ruleVars, versions, draft, session, past, removed>>

-----------------------------------------------------------------------------
\* A saved conversation about the process

\* start: the plan says what the active version says.
StartSession ==
    /\ session = NoSession \/ session.published \/ session.from # Fingerprint
    /\ session' = [revision |-> 1, base |-> Active, from |-> Fingerprint,
                   plan |-> [config |-> Active.config, rules |-> Texts(RulesOf(Active)),
                             guidance |-> Active.guidance],
                   accepted |-> FALSE, preview |-> NoPreview, preparing |-> NoPreview,
                   published |-> FALSE]
    /\ UNCHANGED <<ruleVars, versions, draft, norms, past, removed>>

Open == session # NoSession /\ ~session.published
CanSave == Open /\ session.revision < MaxTurns

\* message: the plan changes, and what was reviewed and previewed of it is gone.
Revise(plan) ==
    /\ CanSave /\ plan # session.plan
    /\ session' = [session EXCEPT !.revision = @ + 1, !.plan = plan, !.accepted = FALSE,
                                  !.preview = NoPreview]
    /\ removed' = removed \union (session.plan.rules \ plan.rules)
                          \union (session.plan.guidance \ plan.guidance)
    /\ UNCHANGED <<ruleVars, versions, draft, norms, past>>

\* review: the manager accepts every proposal of the plan.
Review ==
    /\ CanSave /\ ~session.accepted
    /\ session' = [session EXCEPT !.revision = @ + 1, !.accepted = TRUE, !.preview = NoPreview]
    /\ UNCHANGED <<ruleVars, versions, draft, norms, past, removed>>

\* Only an open draft or a compilation stands in the way.
OnAnyBase ==
    /\ draft = NoDraft
    /\ \A r \in DOMAIN rules : rules[r].status # "compiling"

\* check_base: nothing was published or decided since the conversation started, no draft is
\* open and no rule is compiling.
OnBase ==
    /\ session.from = Fingerprint
    /\ draft = NoDraft
    /\ \A r \in DOMAIN rules : rules[r].status # "compiling"

\* compile_plan: a published rule keeps its code while nothing it reads changes.
Kept(plan) ==
    IF plan.config = session.base.config
    THEN {a \in session.base.rules : rules[a.rule].text \in plan.rules} ELSE {}

\* The texts of the plan that are compiled, with one code for what they compile to.
New(preview) == preview.plan.rules \ Texts({a.rule : a \in preview.kept})

StartPrepare ==
    /\ CanSave /\ session.accepted /\ OnBase
    /\ session.preparing = NoPreview
    /\ session' = [session EXCEPT !.preparing =
          [revision |-> session.revision, plan |-> session.plan, kept |-> Kept(session.plan),
           code |-> 0]]
    /\ UNCHANGED <<ruleVars, versions, draft, norms, past, removed>>

\* The preview is saved whatever was saved meanwhile.
SavesOver == TRUE

\* save: the revision is the one that was read.
SavesOn == session.preparing.revision = session.revision

EndPrepare ==
    /\ CanSave /\ session.preparing # NoPreview
    /\ \/ /\ SavesOn /\ OnBase
          /\ IF New(session.preparing) = {}
             THEN /\ session' = [session EXCEPT !.revision = @ + 1, !.preparing = NoPreview,
                                                !.preview = session.preparing]
                  /\ UNCHANGED codes
             ELSE /\ Len(codes) < MaxCodes
                  /\ codes' = Append(codes, TRUE)
                  /\ session' = [session EXCEPT !.revision = @ + 1, !.preparing = NoPreview,
                          !.preview = [session.preparing EXCEPT !.code = Len(codes) + 1]]
       \/ /\ session' = [session EXCEPT !.preparing = NoPreview]
          /\ UNCHANGED codes
    /\ UNCHANGED <<rules, compiling, request, versions, draft, norms, past, removed>>

\* publish: new rules get rows with the code of the preview; kept ones are read from their
\* rows. The candidate is inspected again.
PublishSession ==
    /\ Open /\ session.accepted /\ session.preview # NoPreview /\ OnBase
    /\ LET kept == {ArtifactOf(a.rule) : a \in session.preview.kept}
           new == SetToSeq(New(session.preview))
           added == [k \in DOMAIN new |->
                       [status |-> "draft", code |-> session.preview.code,
                        text |-> IF new[k] = 0 THEN Len(rules) + k ELSE new[k]]]
       IN  /\ Len(rules) + Len(new) <= MaxRules
           /\ \A a \in kept : Checked(a.code)
           /\ PublishSnapshot(rules \o added,
                 [config |-> session.plan.config, guidance |-> session.plan.guidance,
                  rules |-> kept \union {[rule |-> Len(rules) + k, code |-> session.preview.code] :
                                          k \in DOMAIN new}])
    /\ session' = [session EXCEPT !.revision = @ + 1, !.published = TRUE]
    /\ UNCHANGED <<codes, compiling, request, draft, norms, past, removed>>

-----------------------------------------------------------------------------
\* A case is decided, read or uploaded, or a source is loaded.
PastMoves ==
    /\ past < MaxPast
    /\ past' = past + 1
    /\ UNCHANGED <<ruleVars, versions, draft, norms, session, removed>>

Init ==
    /\ rules = <<[status |-> "active", code |-> 1, text |-> 1]>>
    /\ codes = <<TRUE>>
    /\ versions = <<[config |-> Start, rules |-> {[rule |-> 1, code |-> 1]}, guidance |-> {}]>>
    /\ draft = NoDraft
    /\ compiling = [r \in 1..MaxRules |-> NoJob]
    /\ request = NoJob
    /\ norms = [n \in Norms |-> NoNorm]
    /\ session = NoSession
    /\ past = 0
    /\ removed = {}

\* The plans a message may ask for: another configuration, a rule or a norm more or less.
Plans ==
    IF ~Open THEN {}
    ELSE {[session.plan EXCEPT !.config = config] : config \in Configs}
         \union {[session.plan EXCEPT !.rules = @ \union {0}]}
         \union {[session.plan EXCEPT !.rules = @ \ {t}] : t \in session.plan.rules}
         \union {[session.plan EXCEPT !.guidance = @ \ {n}] : n \in session.plan.guidance}

DraftNext ==
    \/ "draft" \in Ops /\ \E config \in Configs : EditConfig(config)
    \/ "draft" \in Ops /\ \E ids \in SUBSET DOMAIN rules : EditRules(ids)
    \/ Validate \/ Discard \/ Publish
RulesNext ==
    \/ "create" \in Ops /\ CreateRule
    \/ "compile" \in Ops /\ \E r \in DOMAIN rules : StartCompile(r)
    \/ "select" \in Ops /\ \E r \in DOMAIN rules : Activate(r) \/ Retire(r)
    \/ EndRequest
    \/ \E r \in DOMAIN rules : EndCompile(r)
NormsNext ==
    \E n \in Norms : StartValidation(n) \/ EndValidation(n) \/ AdoptNorm(n) \/ RejectNorm(n)
SessionNext ==
    \/ "sessions" \in Ops /\ StartSession
    \/ Review \/ StartPrepare \/ EndPrepare \/ PublishSession
    \/ \E plan \in Plans : Revise(plan)

Next == DraftNext \/ RulesNext \/ NormsNext \/ SessionNext
        \/ Restart \/ RestartWithoutDatabase \/ PastMoves

\* A server lives long enough to end a compilation it started.
Fairness == \A r \in 1..MaxRules : WF_vars(r \in DOMAIN rules /\ EndCompile(r))

Spec == Init /\ [][Next]_vars /\ Fairness

-----------------------------------------------------------------------------
\* The tables hold rows of their kind, and an artifact names a rule and a code that exist.
TypeOK ==
    /\ rules \in Seq(RuleRow) /\ Len(rules) <= MaxRules
    /\ codes \in Seq(BOOLEAN) /\ Len(codes) <= MaxCodes
    /\ versions \in Seq(Snapshot) /\ versions # <<>> /\ Len(versions) <= MaxVersions
    /\ \A v \in DOMAIN versions : \A a \in versions[v].rules :
          a.rule \in DOMAIN rules /\ a.code \in DOMAIN codes
    /\ draft = NoDraft \/ (draft \in Draft /\ draft.base <= Len(versions))
    /\ compiling \in [1..MaxRules -> Job] /\ request \in Job
    /\ norms \in [Norms -> Norm]
    /\ session = NoSession \/ session.preview \in Preview \union {NoPreview}
    /\ past \in 0..MaxPast

\* Whatever path published it, a version runs only code whose report is valid: no compilation
\* that failed, or that lands late, reaches the engine.
PublishedRulesAreChecked ==
    \A v \in DOMAIN versions : \A a \in versions[v].rules : a.code # 0 /\ codes[a.code]

\* A norm a manager adopted stays in force until somebody takes it out: no draft or
\* conversation that started before the adoption drops it when it is published.
NormsSurvive ==
    \A n \in Norms : norms[n].status = "accepted" =>
        IF n \in Deterministic
        THEN norms[n].text \in Texts(RulesOf(Active)) \union removed
        ELSE n \in Active.guidance \/ n \in removed

\* A preview is of the plan the manager sees: nothing that was said or reviewed while models
\* compiled is previewed under an older plan.
PreviewIsOfThePlan ==
    session # NoSession /\ session.preview # NoPreview =>
        session.preview.plan = session.plan /\ session.accepted

\* What a conversation publishes is what its preview showed: the same artifacts.
PublishesItsPreview ==
    [][session # NoSession /\ ~session.published /\ session'.published
       => session.preview.kept \subseteq versions'[Len(versions')].rules]_vars

Compiling(r) == r \in DOMAIN rules /\ rules[r].status = "compiling"

\* Every rule leaves `compiling', also when the server dies in the middle.
CompilingEnds == \A r \in 1..MaxRules : Compiling(r) ~> ~Compiling(r)
=============================================================================
