------------------------------ MODULE Process ------------------------------
(* One process with every request that touches it: Cases, Sources, Alerts,     *)
(* Decisions, Versions and Proposals over the shared rows of ProcessState.     *)
EXTENDS Cases, Alerts, Decisions, Versions, Proposals

\* A process starts published (migration 0011 gives it version 1) or as a workspace.
Init ==
    /\ cases = [i \in Instances |-> [status |-> "ABSENT", reading |-> NoReading]]
    /\ history = [i \in Instances |-> <<>>]
    /\ executions = <<>>
    /\ operations = [key \in Keys |-> NoOperation]
    /\ versions = IF First = NoSnapshot THEN <<>>
                  ELSE <<[snapshot |-> First, parent |-> 0, author |-> Engine, changes |-> {}]>>
    /\ active = Len(versions)
    /\ draft = NoDraft
    /\ findings = {}
    /\ loads = <<>>
    /\ world \in [Sources -> [rows : Contents, at : {0}]]
    /\ calls = [c \in Clients |-> NoCall]
    /\ alerts = {}
    /\ proposals = <<>>
    /\ seen = [c \in Clients |-> NoDraft]

\* The worker that serves a request dies: what it had not committed is gone.
Crash(c) ==
    /\ "crash" \in Ops
    /\ ~Idle(c)
    /\ calls' = [calls EXCEPT ![c] = NoCall]
    /\ UNCHANGED <<caseVars, runVars, versionVars, sourceVars, alerts, proposals>>

Next ==
    \/ CasesNext
    \/ SourcesNext
    \/ AlertsNext
    \/ DecisionsNext
    \/ VersionsNext
    \/ ProposalsNext
    \/ \E c \in Clients : Crash(c)

Spec == Init /\ [][Next]_vars

-----------------------------------------------------------------------------
\* Every table holds rows of its kind, and every number in them is an id that exists: the
\* references of decisions, executions, drafts, loads, proposals and alerts. A request in
\* flight remembers values of the right kind too.
CasesOK == cases \in [Instances -> Case] /\ history \in [Instances -> Seq(Row)]
RowsOK ==
    \A i \in Instances : \A n \in DOMAIN history[i] :
        /\ history[i][n].version \in DOMAIN versions
        /\ history[i][n].execution \in 0..Len(executions)
ExecutionsOK ==
    /\ executions \in Seq(Execution)
    /\ operations \in [Keys -> [selection : SUBSET Instances, execution : Nat]]
    /\ \A e \in DOMAIN executions :
          /\ executions[e].version \in DOMAIN versions
          /\ executions[e].inputs.source_ids \subseteq DOMAIN loads
VersionsOK ==
    /\ versions \in Seq(Version) /\ active = Len(versions)
    /\ \A v \in DOMAIN versions : versions[v].parent = v - 1
    /\ draft \in Drafts /\ draft.base <= active
    /\ draft = NoDraft \/ draft.snapshot \in Snapshots
    /\ seen \in [Clients -> Drafts]
LoadsOK ==
    /\ loads \in Seq(Load)
    /\ world \in [Sources -> [rows : Contents, at : Nat]]
Remembers(call) ==
    /\ call.pc = "commit" => call.fetched.rows \in Contents
    /\ call.pc = "insert" => \A flip \in call.flips : HasDecision(flip.instance)
    /\ call.pc \in {"asked", "answered"} =>
          call.op \in Kinds /\ \A i \in call.selection : call.about \in DOMAIN history[i]
CallsOK == calls \in [Clients -> Call] /\ \A c \in Clients : Remembers(calls[c])
ProposalsOK ==
    /\ proposals \in Seq(Proposal)
    /\ \A p \in DOMAIN proposals : proposals[p].about \in DOMAIN history[proposals[p].instance]
AlertsOK ==
    /\ alerts \subseteq Alert
    /\ \A a \in alerts : a.decision \in DOMAIN history[a.instance]
TypeOK ==
    /\ CasesOK /\ RowsOK /\ ExecutionsOK /\ VersionsOK
    /\ LoadsOK /\ ProposalsOK /\ AlertsOK /\ CallsOK

-----------------------------------------------------------------------------
\* What the decision history promises

\* A case is DECIDED exactly when it has a decision: no upload, reading, run, reprocess or
\* resolution leaves one without the other, so no case is decided twice by a run nor lost.
DecidedHasHistory ==
    \A i \in Instances : cases[i].status = "DECIDED" <=> HasDecision(i)

\* Any engine decision replays from its captured execution to the same decision and the
\* same missing symbols, however many loads, readings and versions came after it.
ReplayMatches ==
    \A i \in Instances : \A n \in EngineRows(i) :
        LET row == history[i][n]
            run == executions[row.execution]
            verdict == Evaluate(versions[run.version].snapshot, run.inputs, i)
        IN  /\ run.version = row.version
            /\ verdict.decision = row.decision
            /\ verdict.names = row.names

\* The engine never writes over a person's decision, nor over its own while a review of it
\* waits for a person.
HumanWordStands ==
    [][\A i \in Instances :
          HasDecision(i) /\ HeldByPerson(Latest(i)) /\ Len(history'[i]) > Len(history[i])
          => history'[i][Len(history'[i])].author # Engine]_vars

\* An execution reads every live source at the load its own request committed or a later
\* one, or takes the source as down: never at a load from before the request.
LiveSourcesFresh ==
    [][Len(executions') > Len(executions) =>
          LET inp == executions'[Len(executions')].inputs
          IN  \E c \in Clients :
                 /\ calls[c].pc = "execute" /\ calls'[c].pc = "idle"
                 /\ \A name \in Live :
                       \/ name \in inp.down
                       \/ \E n \in inp.source_ids :
                             loads[n].name = name /\ calls[c].got[name] \in 1..n]_vars

\* However many requests carry it, one idempotency key runs at most once, and its saved
\* operation names that execution.
OneExecutionPerKey ==
    \A key \in Keys :
        LET runs == {e \in DOMAIN executions : executions[e].key = key}
        IN  runs = IF operations[key] = NoOperation THEN {} ELSE {operations[key].execution}

-----------------------------------------------------------------------------
\* What a publication promises

\* When a version is published its validation report is still what an inspection would say
\* of that snapshot at that moment: nothing it was judged on has moved.
PublishedOnCurrentEvidence ==
    [][Len(versions') > Len(versions) =>
          LET version == versions'[Len(versions')]
              report == Inspect(version.snapshot)
          IN  report.valid /\ report.changes = version.changes]_vars

\* The manager who published had got exactly that snapshot, validated, in a response: a
\* draft somebody replaced under the same revision number is not published in its place.
PublishWhatWasApproved ==
    [][Len(versions') > Len(versions) =>
          LET version == versions'[Len(versions')]
          IN  /\ seen[version.author].snapshot = version.snapshot
              /\ seen[version.author].validation.valid
              /\ seen[version.author].validation.changes = version.changes]_vars

\* A finding says an automatic decision of an earlier version was wrong: never a person's,
\* one that waits for a person, or one that had asked for a person.
FindingsBlameTheEngine ==
    \A f \in findings :
        LET row == history[f[1]][f[2]]
        IN  /\ ~HeldByPerson(row)
            /\ row.decision \notin Human[versions[row.version].snapshot]
            /\ row.version < f[3]

\* An edit replaces the draft its editor last saw.
NoEditLost ==
    [][\A c \in Clients, s \in Snapshots :
          EditDraft(c, s) => seen[c].snapshot = draft.snapshot]_vars

-----------------------------------------------------------------------------
\* What alerts and proposals promise

\* With no request in flight, every past decision the engine would now decide otherwise has
\* its alert: after each change, a dry run; every decision that would change is flagged.
NoMissedAlert ==
    (active # 0 /\ \A c \in Clients : Idle(c)) =>
        \A flip \in Flips : \E a \in alerts :
            /\ a.instance = flip.instance /\ a.after = flip.after
            /\ a.decision = Len(history[flip.instance])

\* An alert tells the decision it flags.
AlertTellsItsDecision ==
    \A a \in alerts : history[a.instance][a.decision].decision = a.before

\* An accepted proposal is the very next decision of its case after the one it answers,
\* written by a person with the outcome it proposed.
AcceptedIsTheNextDecision ==
    \A p \in DOMAIN proposals :
        LET row == proposals[p]
            next == history[row.instance][row.about + 1]
        IN  row.status = "accepted" =>
              /\ row.about + 1 \in DOMAIN history[row.instance]
              /\ next.author # Engine
              /\ next.decision = row.proposed

\* A proposal is settled one time.
SettledOnce ==
    [][\A p \in DOMAIN proposals :
          proposals[p].status # "open" => proposals'[p].status = proposals[p].status]_vars

\* An execution reads no live source older than what its own request downloaded.
NeverOlderThanItsSync ==
    [][Len(executions') > Len(executions) =>
          \A c \in Clients, n \in executions'[Len(executions')].inputs.source_ids :
              (calls[c].pc = "execute" /\ calls'[c].pc = "idle"
               /\ calls[c].got[loads[n].name] # 0)
              => loads[n].at >= loads[calls[c].got[loads[n].name]].at]_vars
=============================================================================
