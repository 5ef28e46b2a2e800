------------------------------- MODULE Alerts -------------------------------
(* Stale decision alerts (alerts/service.py): after a load or a publication    *)
(* has committed, the request reads the loads again, decides the past in a dry *)
(* run under the process lock, rolls back, and then writes the alerts without  *)
(* any lock. A failure is swallowed: the change it follows stays committed.    *)
EXTENDS Sources

\* The last load compared with the one before the one before it.
ChangedAppended(name) == Cardinality(Named(name)) >= 3

\* after_source_load: the names whose last two loads differ, as they are now.
Changed(name) ==
    LET last == LastOf(Named(name))
    IN  /\ Cardinality(Named(name)) >= 2
        /\ loads[last].rows # loads[LastOf(Named(name) \ {last})].rows

Recheck(c) ==
    /\ calls[c].pc = "recheck"
    /\ calls' = [calls EXCEPT ![c] =
          IF \E name \in @.names : Changed(name) THEN [@ EXCEPT !.pc = "dryrun"] ELSE Resume(@)]
    /\ UNCHANGED <<caseVars, runVars, versionVars, sourceVars, alerts, proposals>>

\* Outside the guard of detect: the error reaches sync, so a run takes the source as down
\* although its load is committed.
RecheckFails(c) ==
    /\ calls[c].pc = "recheck"
    /\ calls' = [calls EXCEPT ![c] = Failed(@, @.names)]
    /\ UNCHANGED <<caseVars, runVars, versionVars, sourceVars, alerts, proposals>>

\* reprocess(dry_run=True): no sync, so nothing is down but what was never loaded.
Decidable == {i \in Instances : cases[i].status = "DECIDED" /\ cases[i].reading # NoReading}
VerdictNow(i) == Evaluate(ActiveSnapshot, CapturedInputs(ActiveSnapshot, {}), i).decision

Flips ==
    {[instance |-> i, before |-> Latest(i).decision, after |-> VerdictNow(i)] :
        i \in {j \in Decidable : VerdictNow(j) # Latest(j).decision}}

DryRun(c) ==
    /\ calls[c].pc = "dryrun"
    /\ calls' = [calls EXCEPT ![c] =
          IF active # 0 /\ Flips # {} THEN [@ EXCEPT !.pc = "insert", !.flips = Flips]
          ELSE Resume(@)]
    /\ UNCHANGED <<caseVars, runVars, versionVars, sourceVars, alerts, proposals>>

\* The decision an alert names is read again here, after the dry run's rollback.
AlertOf(flip, trigger) ==
    [instance |-> flip.instance, decision |-> Len(history[flip.instance]),
     before |-> flip.before, after |-> flip.after, trigger |-> trigger, status |-> "open"]

Trigger(c) == IF calls[c].op = "publish" THEN "rule_change" ELSE "source_sync"

\* UniqueConstraint(decision_id, after): an alert already there is not written again.
SameAlert(a, b) == a.instance = b.instance /\ a.decision = b.decision /\ a.after = b.after

InsertAlerts(c) ==
    /\ calls[c].pc = "insert"
    /\ LET found == {AlertOf(flip, Trigger(c)) : flip \in calls[c].flips}
       IN  alerts' = alerts \union {a \in found : ~\E b \in alerts : SameAlert(a, b)}
    /\ calls' = [calls EXCEPT ![c] = Resume(@)]
    /\ UNCHANGED <<caseVars, runVars, versionVars, sourceVars, proposals>>

DetectFails(c) ==
    /\ calls[c].pc \in {"dryrun", "insert"}
    /\ calls' = [calls EXCEPT ![c] = Resume(@)]
    /\ UNCHANGED <<caseVars, runVars, versionVars, sourceVars, alerts, proposals>>

Ack(a) ==
    /\ "ack" \in Ops
    /\ a.status = "open"
    /\ alerts' = (alerts \ {a}) \union {[a EXCEPT !.status = "acknowledged"]}
    /\ UNCHANGED <<caseVars, runVars, versionVars, sourceVars, calls, proposals>>

AlertsNext ==
    \/ \E c \in Clients : Recheck(c) \/ DryRun(c) \/ InsertAlerts(c)
    \/ "failures" \in Ops /\ \E c \in Clients : RecheckFails(c) \/ DetectFails(c)
    \/ \E a \in alerts : Ack(a)
=============================================================================
