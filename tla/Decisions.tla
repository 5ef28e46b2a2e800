----------------------------- MODULE Decisions -----------------------------
(* decisions/service.py: run decides PENDING cases once, reprocess decides     *)
(* DECIDED ones again, resolve writes a person's word. Each appends rows, no   *)
(* row is ever edited. run and reprocess sync the live sources first, outside  *)
(* the process lock, and read everything else under it.                        *)
EXTENDS Sources

-----------------------------------------------------------------------------
\* run and reprocess, before the lock

\* A saved operation answers at once: the same selection gets the saved result, another
\* one a conflict. Neither starts a request.
Answered(key) == key # NoKey /\ operations[key] # NoOperation

StartRun(c, all, selection, key) ==
    /\ "run" \in Ops
    /\ Idle(c)
    /\ IF all THEN selection = {} /\ key = NoKey
       ELSE "selection" \in Ops /\ selection # {} /\ \A i \in selection : Exists(i)
    /\ ~Answered(key)
    /\ calls' = [calls EXCEPT ![c] =
          [NoCall EXCEPT !.op = "run", !.pc = IF Live = {} THEN "execute" ELSE "sync",
                         !.all = all, !.selection = selection, !.key = key, !.todo = Live]]
    /\ UNCHANGED <<caseVars, runVars, versionVars, sourceVars, alerts, proposals>>

StartReprocess(c, all, selection) ==
    /\ "reprocess" \in Ops
    /\ Idle(c)
    /\ IF all THEN selection = {} ELSE "selection" \in Ops
    /\ calls' = [calls EXCEPT ![c] =
          [NoCall EXCEPT !.op = "reprocess", !.pc = IF Live = {} THEN "execute" ELSE "sync",
                         !.all = all, !.selection = selection, !.todo = Live]]
    /\ UNCHANGED <<caseVars, runVars, versionVars, sourceVars, alerts, proposals>>

-----------------------------------------------------------------------------
\* run and reprocess, under the lock

Chosen(c, status) ==
    {i \in Instances : /\ cases[i].status = status
                       /\ cases[i].reading # NoReading
                       /\ calls[c].all \/ i \in calls[c].selection}

\* A row decided on the current loads, whatever sources the captured inputs call down.
EngineRowOnEveryLoad(inp, i, execution, pending) ==
    LET verdict == Evaluate(ActiveSnapshot,
                            [inp EXCEPT !.source_ids = CurrentLoads, !.down = {}], i)
    IN  [decision |-> verdict.decision, author |-> Engine, version |-> active,
         execution |-> execution, names |-> verdict.names, pending |-> pending]

\* _append and the optional review, which may ask for a person.
EngineRow(inp, i, execution, pending) ==
    LET verdict == Evaluate(ActiveSnapshot, inp, i)
    IN  [decision |-> verdict.decision, author |-> Engine, version |-> active,
         execution |-> execution, names |-> verdict.names, pending |-> pending]

\* Rows that name an execution nobody stored.
DecideUncaptured(c, who, inp) ==
    /\ history' = [i \in Instances |->
          IF i \in who THEN Append(history[i], EngineRow(inp, i, Len(executions) + 1, FALSE))
          ELSE history[i]]
    /\ cases' = [i \in Instances |->
          IF i \in who THEN [cases[i] EXCEPT !.status = "DECIDED"] ELSE cases[i]]
    /\ UNCHANGED executions

\* The engine decides `who' under a new execution.
Decide(c, who, inp) ==
    \E asked \in SUBSET (IF Reviewed[ActiveSnapshot] THEN who ELSE {}) :
        /\ history' = [i \in Instances |->
              IF i \in who
              THEN Append(history[i], EngineRow(inp, i, Len(executions) + 1, i \in asked))
              ELSE history[i]]
        /\ cases' = [i \in Instances |->
              IF i \in who THEN [cases[i] EXCEPT !.status = "DECIDED"] ELSE cases[i]]
        /\ executions' = Append(executions,
              [version |-> active, inputs |-> inp, key |-> calls[c].key])

\* The key is not looked up again once the lock is held.
NeverRan(c) == FALSE

\* previous() again, now that the lock is held.
AlreadyRan(c) == Answered(calls[c].key)

\* The operation was saved meanwhile, or there is no version to run.
Turned(c) ==
    /\ calls[c].pc = "execute"
    /\ AlreadyRan(c) \/ active = 0
    /\ calls' = [calls EXCEPT ![c] = NoCall]
    /\ UNCHANGED <<caseVars, runVars, versionVars, sourceVars, alerts, proposals>>

ExecuteRun(c) ==
    /\ calls[c].pc = "execute" /\ calls[c].op = "run"
    /\ ~AlreadyRan(c) /\ active # 0
    /\ Len(executions) < MaxExecutions
    /\ Decide(c, Chosen(c, "PENDING"), CapturedInputs(ActiveSnapshot, calls[c].down))
    /\ operations' =
          IF calls[c].key = NoKey THEN operations
          ELSE [operations EXCEPT ![calls[c].key] =
                  [selection |-> calls[c].selection, execution |-> Len(executions) + 1]]
    /\ calls' = [calls EXCEPT ![c] = NoCall]
    /\ UNCHANGED <<versionVars, sourceVars, alerts, proposals>>

\* The author alone tells a conflict: a review that waits for a person is forgotten.
ReplaceableUnreviewed(i, inp) ==
    /\ Evaluate(ActiveSnapshot, inp, i).decision # Latest(i).decision
    /\ Latest(i).author = Engine

\* Only a decision that changes is written; a person's, or one whose review waits for a
\* person, is reported as a conflict and left alone.
Replaceable(i, inp) ==
    /\ Evaluate(ActiveSnapshot, inp, i).decision # Latest(i).decision
    /\ ~HeldByPerson(Latest(i))

ExecuteReprocess(c) ==
    /\ calls[c].pc = "execute" /\ calls[c].op = "reprocess"
    /\ active # 0
    /\ Len(executions) < MaxExecutions
    /\ LET inp == CapturedInputs(ActiveSnapshot, calls[c].down)
           who == {i \in Chosen(c, "DECIDED") : Replaceable(i, inp)}
       IN  /\ \A i \in who : Len(history[i]) < MaxHistory
           /\ Decide(c, who, inp)
    /\ calls' = [calls EXCEPT ![c] = NoCall]
    /\ UNCHANGED <<operations, versionVars, sourceVars, alerts, proposals>>

-----------------------------------------------------------------------------
\* resolve

\* The types a person may choose: those of the version that decided the case last.
TypesFor(i) == IF HasDecision(i) THEN TypesOf[versions[Latest(i).version].snapshot]
               ELSE IF active # 0 THEN TypesOf[ActiveSnapshot] ELSE {}

PersonRow(i, person, type) ==
    [decision |-> type, author |-> person,
     version |-> IF HasDecision(i) THEN Latest(i).version ELSE active,
     execution |-> IF HasDecision(i) THEN Latest(i).execution ELSE 0,
     names |-> {}, pending |-> FALSE]

\* Any open proposal of the case.
AcceptableIfOpen(p, i) ==
    /\ proposals[p].instance = i /\ proposals[p].kind = "decision"
    /\ proposals[p].status = "open"

\* A proposal the resolution may name: open, of this case, about its latest decision.
Acceptable(p, i) ==
    /\ proposals[p].instance = i /\ proposals[p].kind = "decision"
    /\ proposals[p].status = "open"
    /\ proposals[p].about = Len(history[i])

\* settle, then supersede: the named proposal by its outcome, every other open one of the
\* case, and every open rule suggestion of the other cases.
SettledBy(q, named, i, type) ==
    LET row == proposals[q]
    IN  IF q \in named
        THEN [row EXCEPT !.status = IF type = row.proposed THEN "accepted" ELSE "rejected"]
        ELSE IF row.status = "open" /\ (row.instance = i \/ row.kind = "rule")
        THEN [row EXCEPT !.status = "superseded"]
        ELSE row

Resolve(person, i, type, named) ==
    /\ "resolve" \in Ops
    /\ Exists(i)
    /\ Len(history[i]) < MaxHistory
    /\ type \in TypesFor(i)
    /\ \A p \in named : Acceptable(p, i)
    /\ history' = [history EXCEPT ![i] = Append(@, PersonRow(i, person, type))]
    /\ cases' = [cases EXCEPT ![i].status = "DECIDED"]
    /\ proposals' = [q \in DOMAIN proposals |-> SettledBy(q, named, i, type)]
    /\ UNCHANGED <<runVars, versionVars, sourceVars, calls, alerts>>

DecisionsNext ==
    \/ \E c \in Clients, all \in BOOLEAN, selection \in SUBSET Instances :
          \/ \E key \in Keys \union {NoKey} : StartRun(c, all, selection, key)
          \/ StartReprocess(c, all, selection)
    \/ \E c \in Clients : Turned(c) \/ ExecuteRun(c) \/ ExecuteReprocess(c)
    \/ \E person \in People, i \in Instances, type \in Types :
          \E named \in {{}} \union {{p} : p \in DOMAIN proposals} : Resolve(person, i, type, named)
=============================================================================
