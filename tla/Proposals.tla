----------------------------- MODULE Proposals -----------------------------
(* The escalation channel of proposals/service.py: a manager asks the assistant *)
(* about a case, the model answers, and the answer is stored as an open proposal *)
(* unless the case got another decision meanwhile. No process lock is held.     *)
EXTENDS Sources

\* A case nobody decided yet.
AskableUndecided(i, kind) == kind = "decision"

\* propose_decision asks about a case whose latest decision is an escalation,
\* propose_rule about a resolution: a person's final word on a case the engine had escalated.
Escalated(row) == row.decision \in Human[versions[row.version].snapshot]
Askable(i, kind) ==
    /\ HasDecision(i)
    /\ kind = "decision" => Escalated(Latest(i))
    /\ kind = "rule" =>
          /\ Latest(i).author # Engine
          /\ EngineRows(i) # {}
          /\ LET engine == history[i][LastOf(EngineRows(i))]
             IN  /\ Escalated(engine)
                 /\ Latest(i).decision \notin Human[versions[engine.version].snapshot]

Ask(c, i, kind) ==
    /\ "propose" \in Ops
    /\ Idle(c)
    /\ Askable(i, kind)
    /\ Len(proposals) < MaxProposals
    /\ calls' = [calls EXCEPT ![c] = [NoCall EXCEPT !.op = kind, !.pc = "asked",
                                      !.selection = {i}, !.about = Len(history[i])]]
    /\ UNCHANGED <<caseVars, runVars, versionVars, sourceVars, alerts, proposals>>

\* _unchanged, and the open proposals of the same kind that the new one closes: read
\* here, written when the transaction commits.
Unchanged(c, i) == calls[c].about = Len(history[i])

Open(i, kind) ==
    {p \in DOMAIN proposals : /\ proposals[p].instance = i /\ proposals[p].kind = kind
                              /\ proposals[p].status = "open"}

Answer(c) ==
    /\ calls[c].pc = "asked"
    /\ \E i \in calls[c].selection :
          calls' = [calls EXCEPT ![c] =
             IF Unchanged(c, i) THEN [@ EXCEPT !.pc = "answered", !.closing = Open(i, calls[c].op)]
             ELSE NoCall]
    /\ UNCHANGED <<caseVars, runVars, versionVars, sourceVars, alerts, proposals>>

\* The flush writes each row that was read as open by its primary key, whatever it is now.
Store(c) ==
    /\ calls[c].pc = "answered"
    /\ Len(proposals) < MaxProposals
    /\ \E i \in calls[c].selection, proposed \in Types :
          proposals' = Append(
             [p \in DOMAIN proposals |->
                IF p \in calls[c].closing THEN [proposals[p] EXCEPT !.status = "superseded"]
                ELSE proposals[p]],
             [instance |-> i, kind |-> calls[c].op, about |-> calls[c].about,
              proposed |-> proposed, status |-> "open"])
    /\ calls' = [calls EXCEPT ![c] = NoCall]
    /\ UNCHANGED <<caseVars, runVars, versionVars, sourceVars, alerts>>

\* The model is down, or its answer is refused: nothing is stored.
AgentFails(c) ==
    /\ calls[c].pc = "asked"
    /\ calls' = [calls EXCEPT ![c] = NoCall]
    /\ UNCHANGED <<caseVars, runVars, versionVars, sourceVars, alerts, proposals>>

Reject(p) ==
    /\ "propose" \in Ops
    /\ proposals[p].status = "open"
    /\ proposals' = [proposals EXCEPT ![p].status = "rejected"]
    /\ UNCHANGED <<caseVars, runVars, versionVars, sourceVars, calls, alerts>>

ProposalsNext ==
    \/ \E c \in Clients :
          \/ \E i \in Instances, kind \in Kinds : Ask(c, i, kind)
          \/ Answer(c) \/ Store(c) \/ AgentFails(c)
    \/ \E p \in DOMAIN proposals : Reject(p)
=============================================================================
