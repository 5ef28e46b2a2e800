------------------------------ MODULE Versions ------------------------------
(* The one publication path (versions/service.py, versions/router.py): a draft *)
(* is edited under an expected revision, validated against the captured past,  *)
(* and published only as the exact candidate that was approved, on the exact   *)
(* evidence it was validated on.                                               *)
EXTENDS Sources

-----------------------------------------------------------------------------
\* inspect: the past under a candidate

Published(s) == IF active = 0 THEN {} ELSE Declared[ActiveSnapshot]
NewlyRequired(s) == Required[s] \ Published(s)

\* execution.capture. Rows and loads only accumulate: a length or an id names its content.
Capture ==
    [readings |-> [i \in {j \in Instances : Exists(j)} |-> cases[i].reading],
     decisions |-> [i \in Instances |-> Len(history[i])],
     source_ids |-> CurrentLoads]

\* The candidate sees every current load; nothing is down in a capture.
VerdictUnder(s, i) ==
    Evaluate(s, [readings |-> ReadingsNow, source_ids |-> CurrentLoads, down |-> {}], i)

\* R01: the engine's last word, or the person's when the engine never decided.
Compared(i) ==
    IF EngineRows(i) = {} THEN Len(history[i]) ELSE LastOf(EngineRows(i))

\* Symbols that were already published, are required, and are not there: an error, unless
\* a past escalation named them all.
OldGap(s, i) == Gap(s, cases[i].reading) \ NewlyRequired(s)
AlreadyEscalated(s, i) ==
    LET row == history[i][Compared(i)]
    IN  OldGap(s, i) # {} /\ row.decision = Escalation[s] /\ OldGap(s, i) \subseteq row.names

Class(s, i) ==
    LET previous == history[i][Compared(i)]
        verdict == VerdictUnder(s, i)
        covered == AlreadyEscalated(s, i)
    IN  CASE verdict.failed                                      -> "error"
          [] ~verdict.failed /\ covered                          -> "already_escalated"
          [] ~verdict.failed /\ ~covered /\ OldGap(s, i) # {}    -> "error"
          [] ~verdict.failed /\ OldGap(s, i) = {}
             /\ Gap(s, cases[i].reading) # {}                    -> "not_evaluable"
          [] ~verdict.failed /\ Gap(s, cases[i].reading) = {} ->
                IF previous.decision = verdict.decision THEN "unchanged"
                ELSE IF Latest(i).author # Engine THEN "resolved_by_person"
                ELSE IF previous.pending THEN "conflict"
                ELSE "change"

Past == {i \in Instances : HasDecision(i) /\ cases[i].reading # NoReading}

Inspect(s) ==
    LET classes == [i \in Past |-> Class(s, i)]
    IN  [valid |-> /\ WellFormed[s]
                   /\ \A i \in Past : classes[i] \notin {"error", "conflict"}
                   /\ active # 0 /\ NewlyRequired(s) # {} => ExamplesHold[s],
         changes |-> {<<i, Compared(i)>> : i \in {j \in Past : classes[j] = "change"}}]

-----------------------------------------------------------------------------
\* The draft

\* What a response tells the manager who asked: the draft as it is now.
Told(c, row) == seen' = [seen EXCEPT ![c] = row]

\* stage: the next revision, validation cleared; a new draft starts on the active version.
Staged(s) ==
    [revision |-> draft.revision + 1, snapshot |-> s, validation |-> NoValidation,
     base |-> IF draft = NoDraft THEN active ELSE draft.base]

ReadDraft(c) ==
    /\ "draft" \in Ops
    /\ Told(c, draft)
    /\ UNCHANGED <<caseVars, runVars, versions, active, draft, findings, sourceVars, calls,
                   alerts, proposals>>

\* edit: expected_revision must be the revision of the draft, or absent when there is none.
\* A draft left on an older version is first restored from the active one.
EditDraft(c, s) ==
    /\ "draft" \in Ops
    /\ draft.revision < MaxRevision
    /\ seen[c].revision = draft.revision
    /\ draft' = [Staged(s) EXCEPT !.base = active]
    /\ Told(c, draft')
    /\ UNCHANGED <<caseVars, runVars, versions, active, findings, sourceVars, calls, alerts,
                   proposals>>

\* A rule that is created, compiled, activated or retired stages the draft unasked.
Stage(s) ==
    /\ "stage" \in Ops
    /\ draft.revision < MaxRevision
    /\ draft' = Staged(s)
    /\ UNCHANGED <<caseVars, runVars, versions, active, findings, seen, sourceVars, calls,
                   alerts, proposals>>

Validate(c) ==
    /\ "publish" \in Ops
    /\ draft # NoDraft
    /\ draft.base = active
    /\ LET report == Inspect(draft.snapshot)
       IN  draft' = [draft EXCEPT !.validation =
              [valid |-> report.valid, changes |-> report.changes, inputs |-> Capture,
               snapshot |-> draft.snapshot, revision |-> draft.revision]]
    /\ Told(c, draft')
    /\ UNCHANGED <<caseVars, runVars, versions, active, findings, sourceVars, calls, alerts,
                   proposals>>

Discard(c) ==
    /\ "discard" \in Ops
    /\ draft # NoDraft
    /\ seen[c].revision = draft.revision
    /\ draft' = NoDraft
    /\ UNCHANGED <<caseVars, runVars, versions, active, findings, seen, sourceVars, calls,
                   alerts, proposals>>

-----------------------------------------------------------------------------
\* Publication

\* The revision stands for the validation that was read with it.
ApprovedByRevision(c) ==
    /\ seen[c].revision = draft.revision
    /\ draft.validation.valid

\* The manager approves the validation and the revision of the last response.
Approved(c) ==
    /\ seen[c].revision = draft.revision
    /\ draft.validation.valid
    /\ seen[c].validation = draft.validation

\* The past it was validated on may have moved.
StillOnBase ==
    /\ draft.base = active
    /\ draft.validation.snapshot = draft.snapshot

\* Nothing it was validated on has moved.
StillCurrent ==
    /\ draft.base = active
    /\ draft.validation.snapshot = draft.snapshot
    /\ draft.validation.inputs = Capture

\* Every change blames the earlier decision.
BlamedAll(changes) == changes

\* A change blames the earlier decision, unless that one had asked for a person.
Blamed(changes) ==
    {d \in changes :
        LET row == history[d[1]][d[2]]
        IN  row.decision \notin Human[versions[row.version].snapshot]}

Publish(c) ==
    /\ "publish" \in Ops
    /\ Idle(c)
    /\ draft # NoDraft
    /\ Len(versions) < MaxVersions
    /\ Approved(c)
    /\ StillCurrent
    /\ versions' = Append(versions, [snapshot |-> draft.snapshot, parent |-> active,
                                     author |-> c, changes |-> draft.validation.changes])
    /\ active' = Len(versions) + 1
    /\ findings' = findings \union {<<d[1], d[2], Len(versions) + 1>> :
                                     d \in Blamed(draft.validation.changes)}
    /\ draft' = NoDraft
    /\ proposals' = [p \in DOMAIN proposals |->
          IF proposals[p].status = "open" /\ proposals[p].kind = "rule"
          THEN [proposals[p] EXCEPT !.status = "superseded"] ELSE proposals[p]]
    /\ calls' = IF active = 0 THEN calls       \* after_publish: nothing decided before
                ELSE [calls EXCEPT ![c] = [@ EXCEPT !.op = "publish", !.pc = "dryrun"]]
    /\ UNCHANGED <<caseVars, runVars, seen, sourceVars, alerts>>

VersionsNext ==
    \/ \E c \in Clients :
          \/ ReadDraft(c) \/ Validate(c) \/ Discard(c) \/ Publish(c)
          \/ \E s \in Snapshots : EditDraft(c, s)
    \/ \E s \in Snapshots : Stage(s)
=============================================================================
