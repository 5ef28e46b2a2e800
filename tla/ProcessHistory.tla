--------------------------- MODULE ProcessHistory ---------------------------
(* Theorems about Process that rest on what is only ever appended: a decision,  *)
(* an execution, a version and a load are never edited, so what was true of them *)
(* when they were written is true of them for good. The last theorem says when   *)
(* every change of what a decision rests on is followed by its alerts.           *)
EXTENDS ProcessProofs

-----------------------------------------------------------------------------
\* What a step may write

(* Decisions and executions are written by a run, a reprocess or a resolution.  *)
LEMMA StepKinds ==
    ASSUME [Next]_vars
    PROVE  \/ UNCHANGED <<history, executions, operations>>
           \/ \E c \in Clients : ExecuteRun(c) \/ ExecuteReprocess(c)
           \/ \E person \in People, i \in Instances, type \in Types,
                 named \in {{}} \union {{p} : p \in DOMAIN proposals} :
                    Resolve(person, i, type, named)
<1>1. CASE UNCHANGED vars
  BY <1>1 DEF vars, caseVars, runVars
<1>2. CASE CasesNext
  BY <1>2 DEF CasesNext, Upload, Reextract, runVars
<1>3. CASE SourcesNext
  BY <1>3 DEF SourcesNext, ChangeWorld, StartSync, Download, DownloadFails, CommitLoad,
              LoadWorkbook, caseVars, runVars
<1>4. CASE AlertsNext
  BY <1>4 DEF AlertsNext, Recheck, DryRun, InsertAlerts, RecheckFails, DetectFails, Ack,
              caseVars, runVars
<1>5. CASE VersionsNext
  BY <1>5 DEF VersionsNext, ReadDraft, Validate, Discard, Publish, EditDraft, Stage, caseVars,
              runVars
<1>6. CASE ProposalsNext
  BY <1>6 DEF ProposalsNext, Ask, Answer, Store, AgentFails, Reject, caseVars, runVars
<1>7. CASE \E c \in Clients : Crash(c)
  BY <1>7 DEF Crash, caseVars, runVars
<1>8. CASE DecisionsNext
  <2>1. ASSUME NEW c \in Clients, NEW all \in BOOLEAN, NEW selection \in SUBSET Instances,
               NEW key \in Keys \union {NoKey}, StartRun(c, all, selection, key)
        PROVE  UNCHANGED <<history, executions, operations>>
    BY <2>1 DEF StartRun, caseVars, runVars
  <2>2. ASSUME NEW c \in Clients, NEW all \in BOOLEAN, NEW selection \in SUBSET Instances,
               StartReprocess(c, all, selection)
        PROVE  UNCHANGED <<history, executions, operations>>
    BY <2>2 DEF StartReprocess, caseVars, runVars
  <2>3. ASSUME NEW c \in Clients, Turned(c)
        PROVE  UNCHANGED <<history, executions, operations>>
    BY <2>3 DEF Turned, caseVars, runVars
  <2> QED
    BY <1>8, <2>1, <2>2, <2>3 DEF DecisionsNext
<1> QED
  BY <1>1, <1>2, <1>3, <1>4, <1>5, <1>6, <1>7, <1>8 DEF Next

(* Sequences are appended to: what is in them keeps its place and its value.    *)
LEMMA AppendKeeps ==
    ASSUME NEW S, NEW s \in Seq(S), NEW x
    PROVE  /\ Len(Append(s, x)) = Len(s) + 1 /\ Len(s) \in Nat
           /\ Append(s, x)[Len(s) + 1] = x
           /\ DOMAIN s = 1..Len(s) /\ DOMAIN Append(s, x) = 1..Len(s) + 1
           /\ \A n \in DOMAIN s : n \in DOMAIN Append(s, x) /\ Append(s, x)[n] = s[n]
  OBVIOUS

(* A load is never edited: commits and workbooks append.                        *)
LEMMA LoadsStay ==
    ASSUME IInv, [Next]_vars, NEW n \in DOMAIN loads
    PROVE  n \in DOMAIN loads' /\ loads'[n] = loads[n]
<1>1. loads \in Seq(Load)
  BY DEF IInv, TypeOK, LoadsOK
<1>2. CASE UNCHANGED loads
  BY <1>2
<1>3. CASE \E c \in Clients : CommitLoad(c)
  BY <1>1, <1>3, AppendKeeps DEF CommitLoad
<1>4. ASSUME NEW c \in Clients, NEW names \in SUBSET (Sources \ Connected) \ {{}},
             LoadWorkbook(c, names)
      PROVE  n \in DOMAIN loads' /\ loads'[n] = loads[n]
  <2>1. PICK order \in [1..Cardinality(names) -> names], rows \in [names -> Contents] :
           loads' = loads \o [k \in DOMAIN order |->
                          [name |-> order[k], rows |-> rows[order[k]], at |-> 0]]
    BY <1>4 DEF LoadWorkbook
  <2>2. Cardinality(names) \in Nat /\ DOMAIN order = 1..Cardinality(names)
    BY ProcessAssumption, FS_Subset, FS_CardinalityType
  <2> DEFINE new == [k \in DOMAIN order |->
                        [name |-> order[k], rows |-> rows[order[k]], at |-> 0]]
  <2>3. new \in Seq(Load)
    <3>1. ASSUME NEW k \in DOMAIN order PROVE new[k] \in Load
      <4>1. order[k] \in names /\ names \subseteq Sources /\ rows[order[k]] \in Contents
        BY <2>2
      <4> QED
        BY <4>1 DEF Load
    <3>2. new = [k \in 1..Cardinality(names) |-> new[k]]
      BY <2>2
    <3> HIDE DEF new
    <3> QED
      BY <2>2, <3>1, <3>2, SMTT(30)
  <2>4. loads' = loads \o new
    BY <2>1
  <2> HIDE DEF new
  <2> QED
    BY <1>1, <2>3, <2>4
<1>5. CASE CasesNext \/ AlertsNext \/ DecisionsNext
  <2>1. UNCHANGED loads
    BY <1>5 DEF CasesNext, Upload, Reextract, sourceVars, AlertsNext, Recheck, DryRun,
                InsertAlerts, RecheckFails, DetectFails, Ack, DecisionsNext, StartRun,
                StartReprocess, Turned, ExecuteRun, ExecuteReprocess, Resolve
  <2> QED
    BY <1>2, <2>1
<1>6. CASE VersionsNext \/ ProposalsNext \/ \E c \in Clients : Crash(c)
  <2>1. UNCHANGED loads
    BY <1>6 DEF VersionsNext, ReadDraft, Validate, Discard, Publish, EditDraft, Stage, sourceVars,
                ProposalsNext, Ask, Answer, Store, AgentFails, Reject, Crash
  <2> QED
    BY <1>2, <2>1
<1>7. CASE SourcesNext
  BY <1>2, <1>3, <1>4, <1>7 DEF SourcesNext, ChangeWorld, StartSync, Download, DownloadFails, sourceVars
<1>8. CASE UNCHANGED vars
  BY <1>2, <1>8 DEF vars, sourceVars
<1> QED
  BY <1>5, <1>6, <1>7, <1>8 DEF Next

(* A version is never edited: a publication appends one.                        *)
LEMMA VersionsStay ==
    ASSUME IInv, [Next]_vars, NEW n \in DOMAIN versions
    PROVE  n \in DOMAIN versions' /\ versions'[n] = versions[n]
<1>1. versions \in Seq(Version)
  BY DEF IInv, TypeOK, VersionsOK
<1>2. CASE UNCHANGED versions
  BY <1>2
<1>3. CASE \E c \in Clients : Publish(c)
  BY <1>1, <1>3, AppendKeeps DEF Publish
<1>4. CASE CasesNext \/ AlertsNext \/ DecisionsNext \/ SourcesNext
  <2>1. UNCHANGED versions
    BY <1>4 DEF CasesNext, Upload, Reextract, versionVars, AlertsNext, Recheck, DryRun,
                InsertAlerts, RecheckFails, DetectFails, Ack, DecisionsNext, StartRun,
                StartReprocess, Turned, ExecuteRun, ExecuteReprocess, Resolve, SourcesNext,
                ChangeWorld, StartSync, Download, DownloadFails, CommitLoad, LoadWorkbook
  <2> QED
    BY <1>2, <2>1
<1>5. CASE ProposalsNext \/ \E c \in Clients : Crash(c)
  <2>1. UNCHANGED versions
    BY <1>5 DEF versionVars, ProposalsNext, Ask, Answer, Store, AgentFails, Reject, Crash
  <2> QED
    BY <1>2, <2>1
<1>6. CASE VersionsNext
  BY <1>2, <1>3, <1>6 DEF VersionsNext, ReadDraft, Validate, Discard, EditDraft, Stage
<1>7. CASE UNCHANGED vars
  BY <1>2, <1>7 DEF vars, versionVars
<1> QED
  BY <1>4, <1>5, <1>6, <1>7 DEF Next

(* A decision and an execution are never edited.                                *)
LEMMA DecideAppends ==
    ASSUME IInv, NEW c, NEW who \in SUBSET Instances, NEW inp, Decide(c, who, inp)
    PROVE  /\ executions' = Append(executions, [version |-> active, inputs |-> inp,
                                                key |-> calls[c].key])
           /\ \A i \in Instances :
                \/ history'[i] = history[i]
                \/ \E pending \in BOOLEAN :
                     history'[i] = Append(history[i], EngineRow(inp, i, Len(executions) + 1, pending))
<1>1. PICK asked \in SUBSET (IF Reviewed[ActiveSnapshot] THEN who ELSE {}) :
         /\ history' = [i \in Instances |->
               IF i \in who
               THEN Append(history[i], EngineRow(inp, i, Len(executions) + 1, i \in asked))
               ELSE history[i]]
         /\ executions' = Append(executions, [version |-> active, inputs |-> inp, key |-> calls[c].key])
  BY DEF Decide
<1>2. ASSUME NEW i \in Instances
      PROVE  \/ history'[i] = history[i]
             \/ history'[i] = Append(history[i], EngineRow(inp, i, Len(executions) + 1, i \in asked))
  BY <1>1, Zenon
<1>3. \A i \in Instances : (i \in asked) \in BOOLEAN
  OBVIOUS
<1> QED
  BY <1>1, <1>2, <1>3, Zenon

LEMMA DecisionKinds ==
    ASSUME NEW c \in Clients, ExecuteRun(c) \/ ExecuteReprocess(c)
    PROVE  \E who \in SUBSET Instances : Decide(c, who, CapturedInputs(ActiveSnapshot, calls[c].down))
<1>1. CASE ExecuteRun(c)
  <2>1. Chosen(c, "PENDING") \in SUBSET Instances
    BY DEF Chosen
  <2> QED
    BY <1>1, <2>1 DEF ExecuteRun
<1>2. CASE ExecuteReprocess(c)
  <2> DEFINE inp == CapturedInputs(ActiveSnapshot, calls[c].down)
             who == {i \in Chosen(c, "DECIDED") : Replaceable(i, inp)}
  <2>1. who \in SUBSET Instances
    BY DEF Chosen
  <2>2. Decide(c, who, inp)
    BY <1>2 DEF ExecuteReprocess
  <2> HIDE DEF who
  <2> QED
    BY <2>1, <2>2
<1> QED
  BY <1>1, <1>2

LEMMA RowsStay ==
    ASSUME IInv, [Next]_vars, NEW i \in Instances, NEW n \in DOMAIN history[i]
    PROVE  n \in DOMAIN history'[i] /\ history'[i][n] = history[i][n]
<1>1. history \in [Instances -> Seq(Row)] /\ history[i] \in Seq(Row)
  BY DEF IInv, TypeOK, CasesOK
<1>2. CASE UNCHANGED history
  BY <1>2
<1>3. ASSUME NEW c \in Clients, ExecuteRun(c) \/ ExecuteReprocess(c)
      PROVE  n \in DOMAIN history'[i] /\ history'[i][n] = history[i][n]
  <2>1. \/ history'[i] = history[i] \/ \E row : history'[i] = Append(history[i], row)
    BY <1>3, DecisionKinds, DecideAppends
  <2> QED
    BY <1>1, <2>1, AppendKeeps
<1>4. ASSUME NEW person \in People, NEW j \in Instances, NEW type \in Types, NEW named,
             Resolve(person, j, type, named)
      PROVE  n \in DOMAIN history'[i] /\ history'[i][n] = history[i][n]
  <2>1. history' = [history EXCEPT ![j] = Append(@, PersonRow(j, person, type))]
    BY <1>4 DEF Resolve
  <2>2. \/ history'[i] = history[i] \/ \E row : history'[i] = Append(history[i], row)
    BY <1>1, <2>1
  <2> QED
    BY <1>1, <2>2, AppendKeeps
<1> QED
  BY <1>2, <1>3, <1>4, StepKinds

LEMMA ExecutionsStay ==
    ASSUME IInv, [Next]_vars, NEW e \in DOMAIN executions
    PROVE  e \in DOMAIN executions' /\ executions'[e] = executions[e]
<1>1. executions \in Seq(Execution)
  BY DEF IInv, TypeOK, ExecutionsOK
<1>2. CASE UNCHANGED executions
  BY <1>2
<1>3. ASSUME NEW c \in Clients, ExecuteRun(c) \/ ExecuteReprocess(c)
      PROVE  e \in DOMAIN executions' /\ executions'[e] = executions[e]
  <2>1. \E x : executions' = Append(executions, x)
    BY <1>3, DecisionKinds, DecideAppends
  <2> QED
    BY <1>1, <2>1, AppendKeeps
<1>4. ASSUME NEW person \in People, NEW j \in Instances, NEW type \in Types, NEW named,
             Resolve(person, j, type, named)
      PROVE  e \in DOMAIN executions' /\ executions'[e] = executions[e]
  BY <1>4 DEF Resolve, runVars
<1> QED
  BY <1>2, <1>3, <1>4, StepKinds

-----------------------------------------------------------------------------
\* One execution per key

\* Only a run in flight carries a key.
Keyed(call) == (call.op = "run" /\ call.pc # "idle") \/ call.key = NoKey
KeysInv == OneExecutionPerKey /\ \A c \in Clients : Keyed(calls[c])

LEMMA KeyedResume ==
    ASSUME NEW call \in Call, Keyed(call), call.pc # "idle"
    PROVE  /\ Keyed(Resume(call))
           /\ \A names \in SUBSET Sources : Keyed(Failed(call, names))
<1>1. Keyed(NoCall)
  BY DEF Keyed, NoCall
<1>2. ASSUME NEW other \in Call, Keyed(other), other.pc # "idle" PROVE Keyed(Resume(other))
  <2> DEFINE next == [other EXCEPT !.pc = IF other.todo = {} THEN "execute" ELSE "sync",
                                   !.names = {}, !.fetched = NoCall.fetched, !.flips = {}]
  <2>1. next.op = other.op /\ next.key = other.key /\ next.pc # "idle"
    BY DEF Call
  <2>2. Resume(other) = IF other.op \in {"run", "reprocess"} THEN next ELSE NoCall
    BY DEF Resume
  <2> HIDE DEF next
  <2> QED
    BY <1>1, <1>2, <2>1, <2>2 DEF Keyed
<1>3. ASSUME NEW names \in SUBSET Sources PROVE Keyed(Failed(call, names))
  <2> DEFINE other == [call EXCEPT !.down = @ \union names]
  <2>1. other \in Call /\ other.op = call.op /\ other.key = call.key /\ other.pc = call.pc
    BY DEF Call
  <2>2. Keyed(other)
    BY <2>1 DEF Keyed
  <2>3. Failed(call, names) = Resume(other)
    BY DEF Failed
  <2> HIDE DEF other
  <2> QED
    BY <1>2, <2>1, <2>2, <2>3
<1> QED
  BY <1>2, <1>3

LEMMA KeyedCall ==
    ASSUME calls \in [Clients -> Call], \A d \in Clients : Keyed(calls[d]),
           NEW c \in Clients, NEW call, calls' = [calls EXCEPT ![c] = call], Keyed(call)
    PROVE  \A d \in Clients : Keyed(calls'[d])
<1> SUFFICES ASSUME NEW d \in Clients PROVE Keyed(calls'[d])
  OBVIOUS
<1>1. calls'[d] = IF d = c THEN call ELSE calls[d]
  OBVIOUS
<1> QED
  BY <1>1

LEMMA KeyedSteps ==
    ASSUME IInv, [Next]_vars, \A d \in Clients : Keyed(calls[d])
    PROVE  \A d \in Clients : Keyed(calls'[d])
<1>1. calls \in [Clients -> Call]
  BY DEF IInv, TypeOK, CallsOK
<1>2. Keyed(NoCall)
  BY DEF Keyed, NoCall
<1>3. CASE UNCHANGED calls
  BY <1>3
<1>4. ASSUME NEW c \in Clients, calls' = [calls EXCEPT ![c] = NoCall]
      PROVE  \A d \in Clients : Keyed(calls'[d])
  BY <1>1, <1>2, <1>4, KeyedCall
<1>5. ASSUME NEW c \in Clients, NEW name \in Sources, StartSync(c, name)
      PROVE  \A d \in Clients : Keyed(calls'[d])
  <2> DEFINE call == [calls[c] EXCEPT !.op = "sync", !.pc = "sync", !.todo = {name}]
  <2>1. calls' = [calls EXCEPT ![c] = call]
    BY <1>5 DEF StartSync
  <2>2. call.key = calls[c].key /\ calls[c].key = NoKey
    BY <1>1, <1>5 DEF StartSync, Idle, Keyed, Call
  <2>3. Keyed(call)
    BY <2>2 DEF Keyed
  <2> HIDE DEF call
  <2> QED
    BY <1>1, <2>1, <2>3, KeyedCall
<1>6. ASSUME NEW c \in Clients, Download(c)
      PROVE  \A d \in Clients : Keyed(calls'[d])
  <2>1. PICK name \in calls[c].todo : calls' = [calls EXCEPT ![c] =
              [calls[c] EXCEPT !.pc = "commit", !.todo = @ \ {name}, !.names = {name},
                               !.fetched = world[name]]]
    BY <1>6 DEF Download
  <2> DEFINE call == [calls[c] EXCEPT !.pc = "commit", !.todo = @ \ {name}, !.names = {name},
                                      !.fetched = world[name]]
  <2>2. call.key = calls[c].key /\ call.op = calls[c].op /\ call.pc = "commit"
    BY <1>1 DEF Call
  <2>3. Keyed(call)
    BY <2>2 DEF Keyed
  <2>4. calls' = [calls EXCEPT ![c] = call]
    BY <2>1
  <2> HIDE DEF call
  <2> QED
    BY <1>1, <2>3, <2>4, KeyedCall
<1>7. ASSUME NEW c \in Clients, DownloadFails(c)
      PROVE  \A d \in Clients : Keyed(calls'[d])
  <2>1. PICK name \in calls[c].todo :
           calls' = [calls EXCEPT ![c] = Failed([calls[c] EXCEPT !.todo = @ \ {name}], {name})]
    BY <1>7 DEF DownloadFails
  <2> DEFINE call == [calls[c] EXCEPT !.todo = @ \ {name}]
  <2>2. call \in Call /\ call.key = calls[c].key /\ call.op = calls[c].op /\ call.pc = "sync"
    <3>1. calls[c] \in Call /\ calls[c].pc = "sync"
      BY <1>1, <1>7 DEF DownloadFails
    <3>2. call \in Call
      BY <3>1, ZenonT(60) DEF Call
    <3>3. call.key = calls[c].key /\ call.op = calls[c].op /\ call.pc = calls[c].pc
      BY <3>1 DEF Call
    <3> QED
      BY <3>1, <3>2, <3>3
  <2>3. Keyed(call) /\ {name} \in SUBSET Sources
    BY <1>1, <2>2 DEF Keyed, Call
  <2>4. calls' = [calls EXCEPT ![c] = Failed(call, {name})]
    BY <2>1
  <2> HIDE DEF call
  <2>5. Keyed(Failed(call, {name}))
    BY <2>2, <2>3, KeyedResume
  <2> QED
    BY <1>1, <2>4, <2>5, KeyedCall
<1>8. ASSUME NEW c \in Clients, CommitLoad(c)
      PROVE  \A d \in Clients : Keyed(calls'[d])
  <2>1. PICK name \in calls[c].names :
           calls' = [calls EXCEPT ![c] =
              IF Differs(name, calls[c].fetched.rows)
              THEN [[calls[c] EXCEPT !.got[name] = Len(loads) + 1] EXCEPT !.pc = "recheck"]
              ELSE Resume([calls[c] EXCEPT !.got[name] = Len(loads) + 1])]
    BY <1>8 DEF CommitLoad
  <2> DEFINE done == [calls[c] EXCEPT !.got[name] = Len(loads) + 1]
             next == [done EXCEPT !.pc = "recheck"]
  <2>2. done \in Call /\ done.key = calls[c].key /\ done.op = calls[c].op /\ done.pc = "commit"
    <3>1. loads \in Seq(Load) /\ calls[c] \in Call /\ calls[c].pc = "commit" /\ name \in Sources
      BY <1>1, <1>8, <2>1 DEF IInv, TypeOK, LoadsOK, CommitLoad, Call
    <3> DEFINE got == [calls[c].got EXCEPT ![name] = Len(loads) + 1]
    <3>2. got \in [Sources -> Nat]
      <4>1. calls[c].got \in [Sources -> Nat] /\ Len(loads) + 1 \in Nat
        BY <3>1 DEF Call
      <4> QED
        BY <3>1, <4>1
    <3>3. done = [calls[c] EXCEPT !.got = got]
      BY <3>1 DEF Call
    <3> HIDE DEF got
    <3> QED
      BY <3>1, <3>2, <3>3 DEF Call
  <2>3. next.key = done.key /\ next.op = done.op /\ next.pc = "recheck"
    BY <2>2 DEF Call
  <2>4. calls' = [calls EXCEPT ![c] = IF Differs(name, calls[c].fetched.rows) THEN next
                                      ELSE Resume(done)]
    BY <2>1
  <2> HIDE DEF next, done
  <2>5. Keyed(done) /\ Keyed(next)
    BY <2>2, <2>3 DEF Keyed
  <2>6. Keyed(Resume(done))
    BY <2>2, <2>5, KeyedResume
  <2> QED
    BY <1>1, <2>4, <2>5, <2>6, KeyedCall
<1>9. ASSUME NEW c \in Clients, NEW names \in SUBSET Sources, LoadWorkbook(c, names)
      PROVE  \A d \in Clients : Keyed(calls'[d])
  <2> DEFINE call == [calls[c] EXCEPT !.op = "workbook", !.pc = "recheck", !.names = names]
  <2>1. calls' = [calls EXCEPT ![c] = call]
    BY <1>9 DEF LoadWorkbook
  <2>2. call.key = calls[c].key /\ calls[c].key = NoKey
    BY <1>1, <1>9 DEF LoadWorkbook, Idle, Keyed, Call
  <2>3. Keyed(call)
    BY <2>2 DEF Keyed
  <2> HIDE DEF call
  <2> QED
    BY <1>1, <2>1, <2>3, KeyedCall
<1>10. ASSUME NEW c \in Clients, Recheck(c) \/ DryRun(c) \/ InsertAlerts(c) \/ RecheckFails(c)
                                  \/ DetectFails(c)
       PROVE  \A d \in Clients : Keyed(calls'[d])
  <2>1. calls[c] \in Call /\ Keyed(calls[c]) /\ calls[c].pc \in {"recheck", "dryrun", "insert"}
        /\ calls[c].names \in SUBSET Sources
    BY <1>1, <1>10 DEF Recheck, DryRun, InsertAlerts, RecheckFails, DetectFails, Call
  <2>2. Keyed(Resume(calls[c])) /\ Keyed(Failed(calls[c], calls[c].names))
    BY <2>1, KeyedResume
  <2> DEFINE dry == [calls[c] EXCEPT !.pc = "dryrun"]
             ins == [calls[c] EXCEPT !.pc = "insert", !.flips = Flips]
  <2>3. /\ dry.key = calls[c].key /\ dry.op = calls[c].op /\ dry.pc = "dryrun"
        /\ ins.key = calls[c].key /\ ins.op = calls[c].op /\ ins.pc = "insert"
    BY <2>1 DEF Call
  <2>4. \/ calls' = [calls EXCEPT ![c] = dry] \/ calls' = [calls EXCEPT ![c] = ins]
        \/ calls' = [calls EXCEPT ![c] = Resume(calls[c])]
        \/ calls' = [calls EXCEPT ![c] = Failed(calls[c], calls[c].names)]
    BY <1>10 DEF Recheck, DryRun, InsertAlerts, RecheckFails, DetectFails
  <2> HIDE DEF dry, ins
  <2>5. Keyed(dry) /\ Keyed(ins)
    BY <2>1, <2>3 DEF Keyed
  <2> QED
    BY <1>1, <2>2, <2>4, <2>5, KeyedCall
<1>11. ASSUME NEW c \in Clients, NEW all \in BOOLEAN, NEW selection \in SUBSET Instances,
              NEW key \in Keys \union {NoKey},
              StartRun(c, all, selection, key) \/ StartReprocess(c, all, selection)
       PROVE  \A d \in Clients : Keyed(calls'[d])
  <2> DEFINE run == [NoCall EXCEPT !.op = "run", !.pc = IF Live = {} THEN "execute" ELSE "sync",
                         !.all = all, !.selection = selection, !.key = key, !.todo = Live]
             again == [NoCall EXCEPT !.op = "reprocess",
                         !.pc = IF Live = {} THEN "execute" ELSE "sync",
                         !.all = all, !.selection = selection, !.todo = Live]
  <2>1. Keyed(run) /\ Keyed(again)
    BY DEF NoCall, Keyed
  <2>2. calls' = [calls EXCEPT ![c] = run] \/ calls' = [calls EXCEPT ![c] = again]
    BY <1>11 DEF StartRun, StartReprocess
  <2> HIDE DEF run, again
  <2> QED
    BY <1>1, <2>1, <2>2, KeyedCall
<1>12. ASSUME NEW c \in Clients, NEW i \in Instances, NEW kind \in Kinds, Ask(c, i, kind)
       PROVE  \A d \in Clients : Keyed(calls'[d])
  <2> DEFINE call == [NoCall EXCEPT !.op = kind, !.pc = "asked", !.selection = {i},
                                    !.about = Len(history[i])]
  <2>1. Keyed(call)
    BY DEF NoCall, Keyed
  <2>2. calls' = [calls EXCEPT ![c] = call]
    BY <1>12 DEF Ask
  <2> HIDE DEF call
  <2> QED
    BY <1>1, <2>1, <2>2, KeyedCall
<1>13. ASSUME NEW c \in Clients, Answer(c)
       PROVE  \A d \in Clients : Keyed(calls'[d])
  <2>1. PICK i \in calls[c].selection : calls' = [calls EXCEPT ![c] =
             IF Unchanged(c, i) THEN [@ EXCEPT !.pc = "answered", !.closing = Open(i, calls[c].op)]
             ELSE NoCall]
    BY <1>13 DEF Answer
  <2> DEFINE call == [calls[c] EXCEPT !.pc = "answered", !.closing = Open(i, calls[c].op)]
  <2>2. call.key = calls[c].key /\ call.op = calls[c].op /\ call.pc = "answered"
    BY <1>1 DEF Call
  <2>3. calls' = [calls EXCEPT ![c] = IF Unchanged(c, i) THEN call ELSE NoCall]
    BY <2>1
  <2> HIDE DEF call
  <2>4. Keyed(call)
    BY <2>2 DEF Keyed
  <2> QED
    BY <1>1, <1>2, <2>3, <2>4, KeyedCall
<1>14. ASSUME NEW c \in Clients, Publish(c)
       PROVE  \A d \in Clients : Keyed(calls'[d])
  <2> DEFINE call == [calls[c] EXCEPT !.op = "publish", !.pc = "dryrun"]
  <2>1. calls' = calls \/ calls' = [calls EXCEPT ![c] = call]
    BY <1>14 DEF Publish
  <2>2. call.key = calls[c].key /\ calls[c].key = NoKey
    BY <1>1, <1>14 DEF Publish, Idle, Keyed, Call
  <2>3. Keyed(call)
    BY <2>2 DEF Keyed
  <2> HIDE DEF call
  <2> QED
    BY <1>1, <1>3, <2>1, <2>3, KeyedCall
<1>20. CASE CasesNext
  BY <1>3, <1>20 DEF CasesNext, Upload, Reextract
<1>21. CASE SourcesNext
  BY <1>3, <1>5, <1>6, <1>7, <1>8, <1>9, <1>21, ProcessAssumption DEF SourcesNext, ChangeWorld
<1>22. CASE AlertsNext
  BY <1>3, <1>10, <1>22 DEF AlertsNext, Ack
<1>23. CASE DecisionsNext
  <2>1. ASSUME NEW c \in Clients, Turned(c) \/ ExecuteRun(c) \/ ExecuteReprocess(c)
        PROVE  \A d \in Clients : Keyed(calls'[d])
    BY <1>4, <2>1 DEF Turned, ExecuteRun, ExecuteReprocess
  <2>2. ASSUME NEW person \in People, NEW i \in Instances, NEW type \in Types, NEW named,
               Resolve(person, i, type, named)
        PROVE  \A d \in Clients : Keyed(calls'[d])
    BY <1>3, <2>2 DEF Resolve
  <2> QED
    BY <1>11, <1>23, <2>1, <2>2 DEF DecisionsNext
<1>24. CASE VersionsNext
  BY <1>3, <1>14, <1>24 DEF VersionsNext, ReadDraft, Validate, Discard, EditDraft, Stage
<1>25. CASE ProposalsNext
  <2>1. ASSUME NEW c \in Clients, Store(c) \/ AgentFails(c)
        PROVE  \A d \in Clients : Keyed(calls'[d])
    BY <1>4, <2>1 DEF Store, AgentFails
  <2> QED
    BY <1>3, <1>12, <1>13, <1>25, <2>1 DEF ProposalsNext, Reject
<1>26. CASE \E c \in Clients : Crash(c)
  BY <1>4, <1>26 DEF Crash
<1>27. CASE UNCHANGED vars
  BY <1>3, <1>27 DEF vars
<1> QED
  BY <1>20, <1>21, <1>22, <1>23, <1>24, <1>25, <1>26, <1>27 DEF Next

LEMMA KeysInit == Init => KeysInv
<1> SUFFICES ASSUME Init PROVE KeysInv
  OBVIOUS
<1>1. \A c \in Clients : Keyed(calls[c])
  BY DEF Init, Keyed, NoCall
<1>2. executions = <<>> /\ \A key \in Keys : operations[key] = NoOperation
  BY DEF Init
<1> QED
  BY <1>1, <1>2 DEF KeysInv, OneExecutionPerKey

(* A run looks its key up again under the lock, so it runs only when the key    *)
(* has no execution, and saves the operation in the same transaction.           *)
LEMMA KeysStep ==
    ASSUME IInv, KeysInv, [Next]_vars
    PROVE  KeysInv'
<1> DEFINE Runs(key) == {e \in DOMAIN executions : executions[e].key = key}
<1>1. /\ executions \in Seq(Execution) /\ calls \in [Clients -> Call]
      /\ operations \in [Keys -> [selection : SUBSET Instances, execution : Nat]]
  BY DEF IInv, TypeOK, ExecutionsOK, CallsOK
<1>2. \A c \in Clients : Keyed(calls'[c])
  BY KeyedSteps DEF KeysInv
<1>3. ASSUME NEW key \in Keys
      PROVE  Runs(key) = IF operations[key] = NoOperation THEN {} ELSE {operations[key].execution}
  BY DEF KeysInv, OneExecutionPerKey
<1>4. CASE UNCHANGED <<executions, operations>>
  BY <1>2, <1>4 DEF KeysInv, OneExecutionPerKey
<1>5. ASSUME NEW c \in Clients, NEW x, executions' = Append(executions, x), NEW key \in Keys
      PROVE  {e \in DOMAIN executions' : executions'[e].key = key}
             = Runs(key) \union IF x.key = key THEN {Len(executions) + 1} ELSE {}
  <2>1. /\ DOMAIN executions = 1..Len(executions) /\ Len(executions) \in Nat
        /\ DOMAIN executions' = (1..Len(executions)) \union {Len(executions) + 1}
        /\ executions'[Len(executions) + 1] = x
        /\ \A e \in 1..Len(executions) : executions'[e] = executions[e]
    BY <1>1, <1>5, AppendKeeps
  <2> QED
    BY <2>1
<1>6. ASSUME NEW c \in Clients, ExecuteRun(c) PROVE OneExecutionPerKey'
  <2> DEFINE mine == calls[c].key
             x == [version |-> active, inputs |-> CapturedInputs(ActiveSnapshot, calls[c].down),
                   key |-> mine]
             saved == [selection |-> calls[c].selection, execution |-> Len(executions) + 1]
  <2>1. executions' = Append(executions, x) /\ x.key = mine
    BY <1>6 DEF ExecuteRun, Decide
  <2>2. /\ ~AlreadyRan(c)
        /\ operations' = IF mine = NoKey THEN operations ELSE [operations EXCEPT ![mine] = saved]
    BY <1>6 DEF ExecuteRun
  <2>3. saved.execution = Len(executions) + 1 /\ saved # NoOperation
    <3>1. Len(executions) + 1 # 0
      BY <1>1
    <3> QED
      BY <3>1 DEF NoOperation
  <2> HIDE DEF x, saved
  <2> SUFFICES ASSUME NEW key \in Keys
               PROVE  {e \in DOMAIN executions' : executions'[e].key = key}
                      = IF operations'[key] = NoOperation THEN {} ELSE {operations'[key].execution}
    BY DEF OneExecutionPerKey
  <2>4. {e \in DOMAIN executions' : executions'[e].key = key}
        = Runs(key) \union IF mine = key THEN {Len(executions) + 1} ELSE {}
    BY <1>5, <2>1
  <2>5. NoKey \notin Keys
    BY ProcessAssumption
  <2>6. CASE mine = key
    <3>1. operations[key] = NoOperation
      BY <2>2, <2>5, <2>6 DEF AlreadyRan, Answered
    <3>2. operations'[key] = saved
      BY <1>1, <2>2, <2>5, <2>6
    <3>3. Runs(key) = {}
      BY <1>3, <3>1
    <3> HIDE DEF Runs
    <3> QED
      BY <2>3, <2>4, <2>6, <3>2, <3>3
  <2>7. CASE mine # key
    <3>1. operations'[key] = operations[key]
      BY <1>1, <2>2, <2>7
    <3>2. Runs(key) = IF operations[key] = NoOperation THEN {} ELSE {operations[key].execution}
      BY <1>3
    <3> HIDE DEF Runs
    <3> QED
      BY <2>4, <2>7, <3>1, <3>2
  <2> QED
    BY <2>6, <2>7
<1>7. ASSUME NEW c \in Clients, ExecuteReprocess(c) PROVE OneExecutionPerKey'
  <2>1. UNCHANGED operations /\ calls[c].pc = "execute" /\ calls[c].op = "reprocess"
    BY <1>7 DEF ExecuteReprocess
  <2>2. calls[c].key = NoKey
    BY <2>1 DEF KeysInv, Keyed
  <2> DEFINE x == [version |-> active, inputs |-> CapturedInputs(ActiveSnapshot, calls[c].down),
                   key |-> calls[c].key]
  <2>3. executions' = Append(executions, x) /\ x.key = NoKey
    BY <1>7, <2>2, DecisionKinds, DecideAppends
  <2> HIDE DEF x
  <2> SUFFICES ASSUME NEW key \in Keys
               PROVE  {e \in DOMAIN executions' : executions'[e].key = key}
                      = IF operations'[key] = NoOperation THEN {} ELSE {operations'[key].execution}
    BY DEF OneExecutionPerKey
  <2>4. NoKey # key
    BY ProcessAssumption
  <2>5. {e \in DOMAIN executions' : executions'[e].key = key} = Runs(key)
    BY <1>5, <2>3, <2>4
  <2>6. Runs(key) = IF operations[key] = NoOperation THEN {} ELSE {operations[key].execution}
    BY <1>3
  <2> HIDE DEF Runs
  <2> QED
    BY <2>1, <2>5, <2>6
<1>8. ASSUME NEW person \in People, NEW i \in Instances, NEW type \in Types, NEW named,
             Resolve(person, i, type, named)
      PROVE  UNCHANGED <<executions, operations>>
  BY <1>8 DEF Resolve, runVars
<1> QED
  BY <1>2, <1>4, <1>6, <1>7, <1>8, StepKinds DEF KeysInv

(* However many requests carry one idempotency key, however they interleave and *)
(* wherever they die, the key runs at most once and its saved operation names   *)
(* that execution (decisions/service.run).                                      *)
THEOREM ProcessOneExecutionPerKey == Spec => []OneExecutionPerKey
<1>1. KeysInv => OneExecutionPerKey
  BY DEF KeysInv
<1>2. IInv /\ KeysInv /\ [Next]_vars => (IInv /\ KeysInv)'
  BY StepInv, KeysStep
<1>3. Init => IInv /\ KeysInv
  BY InitInv, KeysInit
<1> QED
  BY <1>1, <1>2, <1>3, PTL DEF Spec

-----------------------------------------------------------------------------
\* Replay

\* The engine's decisions name an execution that was stored.
EngineExecuted ==
    \A i \in Instances : \A n \in EngineRows(i) : history[i][n].execution \in DOMAIN executions
ReplayInv == ReplayMatches /\ EngineExecuted

\* What replaying an execution gives.
Replayed(e, i) == Evaluate(versions[executions[e].version].snapshot, executions[e].inputs, i)

(* The tables of a set of loads are the same for as long as the loads stay.     *)
LEMMA TablesStay ==
    ASSUME NEW ids, \A n \in ids : loads'[n] = loads[n]
    PROVE  Tables(ids)' = Tables(ids)
<1>1. ASSUME NEW name \in Sources
      PROVE  /\ (\E n \in ids : loads'[n].name = name) <=> (\E n \in ids : loads[n].name = name)
             /\ (CHOOSE n \in ids : loads'[n].name = name) = (CHOOSE n \in ids : loads[n].name = name)
  <2>1. \A n : (n \in ids /\ loads'[n].name = name) <=> (n \in ids /\ loads[n].name = name)
    OBVIOUS
  <2> QED
    BY <2>1, Zenon
<1>2. ASSUME NEW name \in Sources, \E n \in ids : loads[n].name = name
      PROVE  loads'[CHOOSE n \in ids : loads[n].name = name]
             = loads[CHOOSE n \in ids : loads[n].name = name]
  BY <1>2
<1> DEFINE Now(name) == IF \E n \in ids : loads[n].name = name
                        THEN loads[CHOOSE n \in ids : loads[n].name = name].rows ELSE NoRows
           Then(name) == IF \E n \in ids : loads'[n].name = name
                         THEN loads'[CHOOSE n \in ids : loads'[n].name = name].rows ELSE NoRows
<1>3. ASSUME NEW name \in Sources PROVE Now(name) = Then(name)
  <2>1. CASE \E n \in ids : loads[n].name = name
    BY <1>1, <1>2, <2>1, Zenon
  <2>2. CASE ~\E n \in ids : loads[n].name = name
    BY <1>1, <2>2, Zenon
  <2> QED
    BY <2>1, <2>2
<1>4. Tables(ids) = [name \in Sources |-> Now(name)]
  BY DEF Tables
<1>5. Tables(ids)' = [name \in Sources |-> Then(name)]
  BY DEF Tables
<1> HIDE DEF Now, Then
<1> QED
  BY <1>3, <1>4, <1>5

(* So does the verdict of a stored execution, for good.                         *)
LEMMA EvaluateStays ==
    ASSUME NEW s, NEW inp, NEW i, \A n \in inp.source_ids : loads'[n] = loads[n]
    PROVE  Evaluate(s, inp, i)' = Evaluate(s, inp, i)
<1>1. Tables(inp.source_ids)' = Tables(inp.source_ids)
  BY TablesStay
<1> QED
  BY <1>1 DEF Evaluate, Gap

LEMMA ReplayedStays ==
    ASSUME IInv, [Next]_vars, NEW e \in DOMAIN executions, NEW i \in Instances
    PROVE  Replayed(e, i)' = Replayed(e, i)
<1>1. PICK s, inp : s = versions[executions[e].version].snapshot /\ inp = executions[e].inputs
  OBVIOUS
<1>2. executions'[e] = executions[e] /\ executions[e].version \in DOMAIN versions
      /\ inp.source_ids \subseteq DOMAIN loads
  BY <1>1, ExecutionsStay DEF IInv, TypeOK, ExecutionsOK
<1>3. s = versions'[executions'[e].version].snapshot /\ inp = executions'[e].inputs
  BY <1>1, <1>2, VersionsStay
<1>4. \A n \in inp.source_ids : loads'[n] = loads[n]
  BY <1>2, LoadsStay
<1>5. Evaluate(s, inp, i)' = Evaluate(s, inp, i)
  BY <1>4, EvaluateStays
<1>6. Replayed(e, i) = Evaluate(s, inp, i)
  BY <1>1 DEF Replayed
<1>7. Replayed(e, i)' = Evaluate(s, inp, i)'
  BY <1>3 DEF Replayed, Evaluate, Tables, Gap
<1> QED
  BY <1>5, <1>6, <1>7

LEMMA ReplayStep ==
    ASSUME IInv, ReplayInv, [Next]_vars
    PROVE  ReplayInv'
<1> DEFINE Good(row, e, i) == /\ executions[e].version = row.version
                              /\ Replayed(e, i).decision = row.decision
                              /\ Replayed(e, i).names = row.names
<1>1. \A i \in Instances : \A n \in EngineRows(i) :
         /\ history[i][n].execution \in DOMAIN executions
         /\ Good(history[i][n], history[i][n].execution, i)
  BY DEF ReplayInv, ReplayMatches, EngineExecuted, Replayed
<1> SUFFICES ASSUME NEW i \in Instances, NEW n \in EngineRows(i)'
             PROVE  /\ history'[i][n].execution \in DOMAIN executions'
                    /\ Good(history[i][n], history[i][n].execution, i)'
  BY DEF ReplayInv, ReplayMatches, EngineExecuted, Replayed
<1>2. /\ executions \in Seq(Execution) /\ history \in [Instances -> Seq(Row)]
      /\ \A e \in DOMAIN executions : executions[e].inputs.source_ids \subseteq DOMAIN loads
  BY DEF IInv, TypeOK, ExecutionsOK, CasesOK
<1>3. n \in DOMAIN history'[i] /\ history'[i][n].author = Engine
  BY DEF EngineRows
<1>4. CASE n \in DOMAIN history[i]
  <2>1. PICK row : row = history[i][n] /\ row = history'[i][n]
    BY <1>4, RowsStay
  <2>2. n \in EngineRows(i)
    BY <1>3, <1>4, <2>1 DEF EngineRows
  <2>3. PICK e : e = row.execution
    OBVIOUS
  <2>4. e \in DOMAIN executions /\ Good(row, e, i)
    BY <1>1, <2>1, <2>2, <2>3
  <2>5. e \in DOMAIN executions' /\ executions'[e] = executions[e] /\ Replayed(e, i)' = Replayed(e, i)
    BY <2>4, ExecutionsStay, ReplayedStays
  <2>6. Good(row, e, i)'
    BY <2>4, <2>5
  <2> QED
    BY <2>1, <2>3, <2>5, <2>6
<1>5. CASE n \notin DOMAIN history[i]
  <2>1. history'[i] # history[i]
    BY <1>3, <1>5
  <2>2. ASSUME NEW person \in People, NEW j \in Instances, NEW type \in Types, NEW named,
               Resolve(person, j, type, named)
        PROVE  FALSE
    <3>1. PICK row : row = PersonRow(j, person, type)
      OBVIOUS
    <3>2. history' = [history EXCEPT ![j] = Append(history[j], row)] /\ row.author = person
      BY <2>2, <3>1 DEF Resolve, PersonRow
    <3>3. history'[i] = Append(history[i], row)
      BY <1>2, <2>1, <3>2
    <3>4. history'[i][n] = row
      BY <1>2, <1>3, <1>5, <3>3, AppendKeeps
    <3> QED
      BY <1>3, <3>2, <3>4, ProcessAssumption
  <2>3. PICK c \in Clients : ExecuteRun(c) \/ ExecuteReprocess(c)
    BY <2>1, <2>2, StepKinds
  <2>4. PICK s, inp : s = ActiveSnapshot /\ inp = CapturedInputs(ActiveSnapshot, calls[c].down)
    OBVIOUS
  <2>5. PICK who \in SUBSET Instances : Decide(c, who, inp)
    BY <2>3, <2>4, DecisionKinds
  <2>6. PICK pending \in BOOLEAN :
           history'[i] = Append(history[i], EngineRow(inp, i, Len(executions) + 1, pending))
    BY <2>1, <2>5, DecideAppends
  <2>7. PICK row : row = EngineRow(inp, i, Len(executions) + 1, pending)
    OBVIOUS
  <2>8. history'[i][n] = row
    BY <1>2, <1>3, <1>5, <2>6, <2>7, AppendKeeps
  <2>9. PICK e : e = Len(executions) + 1
    OBVIOUS
  <2>10. row.version = active /\ row.execution = e /\ row.decision = Evaluate(s, inp, i).decision
         /\ row.names = Evaluate(s, inp, i).names
    BY <2>4, <2>7, <2>9 DEF EngineRow
  <2>11. e \in DOMAIN executions' /\ executions'[e] = [version |-> active, inputs |-> inp,
                                                       key |-> calls[c].key]
    <3>1. PICK x : x = [version |-> active, inputs |-> inp, key |-> calls[c].key]
      OBVIOUS
    <3>2. executions' = Append(executions, x)
      BY <2>5, <3>1, DecideAppends
    <3> QED
      BY <1>2, <2>9, <3>1, <3>2, AppendKeeps
  <2>12. UNCHANGED <<loads, versions, active>>
    BY <2>3 DEF ExecuteRun, ExecuteReprocess, versionVars, sourceVars
  <2>13. s = versions'[executions'[e].version].snapshot /\ inp = executions'[e].inputs
    BY <2>4, <2>11, <2>12 DEF ActiveSnapshot
  <2>14. Replayed(e, i)' = Evaluate(s, inp, i)'
    BY <2>13 DEF Replayed, Evaluate, Tables, Gap
  <2>15. Evaluate(s, inp, i)' = Evaluate(s, inp, i)
    BY <2>12, EvaluateStays
  <2>16. Replayed(e, i)' = Evaluate(s, inp, i)
    BY <2>14, <2>15
  <2>17. executions'[e].version = active
    BY <2>11
  <2> QED
    BY <2>8, <2>10, <2>11, <2>16, <2>17
<1> QED
  BY <1>4, <1>5

(* Any engine decision replays from its captured execution to the decision and  *)
(* the missing symbols it wrote, whatever loads, readings and versions came     *)
(* after it: the execution keeps the readings, and the loads and versions it    *)
(* names are never edited (decisions/execution.py).                             *)
THEOREM ProcessReplays == Spec => []ReplayMatches
<1>1. ReplayInv => ReplayMatches
  BY DEF ReplayInv
<1>2. IInv /\ ReplayInv /\ [Next]_vars => (IInv /\ ReplayInv)'
  BY StepInv, ReplayStep
<1>3. Init => IInv /\ ReplayInv
  <2>1. Init => ReplayInv
    BY DEF Init, ReplayInv, ReplayMatches, EngineExecuted, EngineRows
  <2> QED
    BY <2>1, InitInv
<1> QED
  BY <1>1, <1>2, <1>3, PTL DEF Spec

-----------------------------------------------------------------------------
\* Findings

\* A decision a report may blame: a stored one, the engine's, that waits for nobody.
Blamable(d) ==
    /\ d[1] \in Instances /\ d[2] \in DOMAIN history[d[1]]
    /\ ~HeldByPerson(history[d[1]][d[2]])
FindingsInv ==
    /\ FindingsBlameTheEngine
    /\ \A f \in findings : Blamable(f)
    /\ draft.validation.valid => \A d \in draft.validation.changes : Blamable(d)

LEMMA BlamableStays ==
    ASSUME IInv, [Next]_vars, NEW d, Blamable(d)
    PROVE  Blamable(d)' /\ history'[d[1]][d[2]] = history[d[1]][d[2]]
  BY RowsStay DEF Blamable, HeldByPerson

(* A case in class "change" has a decision of the engine as its last word.      *)
LEMMA ChangeIsBlamable ==
    ASSUME IInv, NEW s \in Snapshots, NEW i \in Past, Class(s, i) = "change"
    PROVE  Blamable(<<i, Compared(i)>>)
<1> DEFINE previous == history[i][Compared(i)]
           verdict == VerdictUnder(s, i)
           covered == AlreadyEscalated(s, i)
<1>1. /\ i \in Instances /\ HasDecision(i) /\ history[i] \in Seq(Row) /\ Len(history[i]) \in Nat
      /\ DOMAIN history[i] = 1..Len(history[i])
  BY DEF Past, IInv, TypeOK, CasesOK
<1>2. /\ CurrentLoads \subseteq DOMAIN loads /\ DOMAIN loads \subseteq Nat
      /\ [readings |-> ReadingsNow, source_ids |-> CurrentLoads, down |-> {}] \in Inputs
  BY DEF CurrentLoads, IInv, TypeOK, LoadsOK, CasesOK, ReadingsNow, Case, Inputs
<1>3. verdict.failed \in BOOLEAN
  BY <1>1, <1>2, EvaluateType DEF VerdictUnder, IInv, TypeOK
<1>4. covered => OldGap(s, i) # {}
  BY DEF AlreadyEscalated
<1>5. Gap(s, cases[i].reading) = {} => OldGap(s, i) = {}
  BY DEF OldGap
<1>6. /\ previous.decision # verdict.decision
      /\ Latest(i).author = Engine
      /\ ~previous.pending
  <2>1. Class(s, i) =
           CASE verdict.failed                                   -> "error"
          [] ~verdict.failed /\ covered                          -> "already_escalated"
          [] ~verdict.failed /\ ~covered /\ OldGap(s, i) # {}    -> "error"
          [] ~verdict.failed /\ OldGap(s, i) = {}
             /\ Gap(s, cases[i].reading) # {}                    -> "not_evaluable"
          [] ~verdict.failed /\ Gap(s, cases[i].reading) = {} ->
                IF previous.decision = verdict.decision THEN "unchanged"
                ELSE IF Latest(i).author # Engine THEN "resolved_by_person"
                ELSE IF previous.pending THEN "conflict"
                ELSE "change"
    BY DEF Class
  <2> HIDE DEF previous, verdict, covered
  <2> QED
    BY <1>3, <1>4, <1>5, <2>1
<1>7. Compared(i) \in EngineRows(i)
  <2>1. Len(history[i]) \in EngineRows(i)
    BY <1>1, <1>6 DEF EngineRows, Latest, HasDecision
  <2>2. EngineRows(i) \in SUBSET (1..Len(history[i]))
    BY <1>1 DEF EngineRows
  <2>3. LastOf(EngineRows(i)) \in EngineRows(i)
    BY <1>1, <2>1, <2>2, LastExists
  <2> QED
    BY <2>1, <2>3 DEF Compared
<1>8. previous.author = Engine /\ Compared(i) \in DOMAIN history[i]
  BY <1>7 DEF EngineRows
<1> QED
  BY <1>1, <1>6, <1>8 DEF Blamable, HeldByPerson

(* A publication blames only what its report blames, and leaves out what had    *)
(* asked for a person; every version a decision names is older than the new one.*)
LEMMA FindingsStep ==
    ASSUME IInv, FindingsInv, [Next]_vars
    PROVE  FindingsInv'
<1>1. \A f \in findings : Blamable(f)' /\ history'[f[1]][f[2]] = history[f[1]][f[2]]
  BY BlamableStays DEF FindingsInv
<1>2. ASSUME NEW f \in findings
      PROVE  LET row == history'[f[1]][f[2]]
             IN  /\ (~HeldByPerson(history[f[1]][f[2]]))'
                 /\ row.decision \notin Human[versions'[row.version].snapshot]
                 /\ row.version < f[3]
  <2>1. PICK row : row = history[f[1]][f[2]] /\ row = history'[f[1]][f[2]]
    BY <1>1
  <2>2. /\ ~HeldByPerson(row) /\ row.decision \notin Human[versions[row.version].snapshot]
        /\ row.version < f[3] /\ row.version \in DOMAIN versions
    BY <2>1 DEF FindingsInv, FindingsBlameTheEngine, Blamable, IInv, TypeOK, RowsOK
  <2>3. versions'[row.version] = versions[row.version]
    BY <2>2, VersionsStay
  <2> QED
    BY <2>1, <2>2, <2>3 DEF HeldByPerson
<1>3. CASE UNCHANGED findings /\ (draft'.validation.valid => UNCHANGED draft)
  <2>1. ASSUME draft'.validation.valid PROVE \A d \in draft'.validation.changes : Blamable(d)'
    BY <1>3, <2>1, BlamableStays DEF FindingsInv
  <2>2. \A f \in findings' : Blamable(f)'
    BY <1>1, <1>3
  <2>3. FindingsBlameTheEngine'
    BY <1>2, <1>3 DEF FindingsBlameTheEngine
  <2> QED
    BY <2>1, <2>2, <2>3 DEF FindingsInv
<1>4. ASSUME NEW c \in Clients, Validate(c) PROVE FindingsInv'
  <2>1. UNCHANGED <<findings, history>> /\ draft'.validation.changes = Inspect(draft.snapshot).changes
    BY <1>4 DEF Validate, caseVars
  <2>2. draft.snapshot \in Snapshots
    BY <1>4 DEF Validate, IInv, TypeOK, VersionsOK
  <2>3. \A d \in Inspect(draft.snapshot).changes : Blamable(d)
    BY <2>2, ChangeIsBlamable DEF Inspect
  <2>4. \A d : Blamable(d)' <=> Blamable(d)
    BY <2>1 DEF Blamable, HeldByPerson
  <2>5. FindingsBlameTheEngine'
    BY <1>2, <2>1 DEF FindingsBlameTheEngine
  <2> QED
    BY <1>1, <2>1, <2>3, <2>4, <2>5 DEF FindingsInv
<1>5. ASSUME NEW c \in Clients, Publish(c) PROVE FindingsInv'
  <2>1. /\ findings' = findings \union {<<d[1], d[2], Len(versions) + 1>> :
                                          d \in Blamed(draft.validation.changes)}
        /\ draft' = NoDraft /\ UNCHANGED history /\ draft.validation.valid
    BY <1>5 DEF Publish, caseVars, Approved
  <2>2. ~draft'.validation.valid
    BY <2>1 DEF NoDraft, NoValidation
  <2>3. ASSUME NEW d \in Blamed(draft.validation.changes), NEW f,
               f = <<d[1], d[2], Len(versions) + 1>>
        PROVE  /\ Blamable(f)'
               /\ LET row == history'[f[1]][f[2]]
                  IN  /\ (~HeldByPerson(history[f[1]][f[2]]))'
                      /\ row.decision \notin Human[versions'[row.version].snapshot]
                      /\ row.version < f[3]
    <3>1. Blamable(d) /\ f[1] = d[1] /\ f[2] = d[2] /\ f[3] = Len(versions) + 1
      BY <2>1, <2>3 DEF Blamed, FindingsInv
    <3>2. PICK row : row = history[d[1]][d[2]]
      OBVIOUS
    <3>3. /\ ~HeldByPerson(row) /\ row.decision \notin Human[versions[row.version].snapshot]
          /\ row.version \in DOMAIN versions
      BY <3>1, <3>2 DEF Blamed, Blamable, IInv, TypeOK, RowsOK
    <3>4. versions'[row.version] = versions[row.version] /\ row.version < Len(versions) + 1
      BY <3>3, VersionsStay DEF IInv, TypeOK, VersionsOK
    <3>5. Blamable(f)'
      BY <2>1, <3>1 DEF Blamable, HeldByPerson
    <3> QED
      BY <2>1, <3>1, <3>2, <3>3, <3>4, <3>5 DEF HeldByPerson
  <2>4. \A f \in findings' :
           f \in findings \/ \E d \in Blamed(draft.validation.changes) :
                                f = <<d[1], d[2], Len(versions) + 1>>
    BY <2>1
  <2>5. \A f \in findings' : Blamable(f)'
    BY <1>1, <2>3, <2>4
  <2>6. FindingsBlameTheEngine'
    BY <1>2, <2>3, <2>4 DEF FindingsBlameTheEngine
  <2> QED
    BY <2>2, <2>5, <2>6 DEF FindingsInv
<1>6. CASE VersionsNext
  <2>1. ASSUME NEW c \in Clients, NEW s \in Snapshots, EditDraft(c, s) PROVE FindingsInv'
    <3>1. UNCHANGED findings /\ ~draft'.validation.valid
      BY <2>1 DEF EditDraft, Staged, NoValidation
    <3> QED
      BY <1>3, <3>1
  <2>2. ASSUME NEW s \in Snapshots, Stage(s) PROVE FindingsInv'
    <3>1. UNCHANGED findings /\ ~draft'.validation.valid
      BY <2>2 DEF Stage, Staged, NoValidation
    <3> QED
      BY <1>3, <3>1
  <2>3. ASSUME NEW c \in Clients, ReadDraft(c) \/ Discard(c) PROVE FindingsInv'
    <3>1. UNCHANGED findings /\ (draft'.validation.valid => UNCHANGED draft)
      BY <2>3 DEF ReadDraft, Discard, NoDraft, NoValidation
    <3> QED
      BY <1>3, <3>1
  <2> QED
    BY <1>4, <1>5, <1>6, <2>1, <2>2, <2>3 DEF VersionsNext
<1>7. CASE CasesNext \/ AlertsNext \/ DecisionsNext \/ SourcesNext
  <2>1. UNCHANGED versionVars
    BY <1>7 DEF CasesNext, Upload, Reextract, AlertsNext, Recheck, DryRun,
                InsertAlerts, RecheckFails, DetectFails, Ack, DecisionsNext, StartRun,
                StartReprocess, Turned, ExecuteRun, ExecuteReprocess, Resolve, SourcesNext,
                ChangeWorld, StartSync, Download, DownloadFails, CommitLoad, LoadWorkbook
  <2> QED
    BY <1>3, <2>1 DEF versionVars
<1>8. CASE ProposalsNext \/ \E c \in Clients : Crash(c)
  <2>1. UNCHANGED versionVars
    BY <1>8 DEF ProposalsNext, Ask, Answer, Store, AgentFails, Reject, Crash
  <2> QED
    BY <1>3, <2>1 DEF versionVars
<1>9. CASE UNCHANGED vars
  BY <1>3, <1>9 DEF vars, versionVars
<1> QED
  BY <1>6, <1>7, <1>8, <1>9 DEF Next

(* A finding of a published version blames an automatic decision of an earlier  *)
(* version: never a person's, one that waits for a person, or one that had asked *)
(* for a person (versions/service.publish).                                     *)
THEOREM ProcessFindings == Spec => []FindingsBlameTheEngine
<1>1. FindingsInv => FindingsBlameTheEngine
  BY DEF FindingsInv
<1>2. IInv /\ FindingsInv /\ [Next]_vars => (IInv /\ FindingsInv)'
  BY StepInv, FindingsStep
<1>3. Init => IInv /\ FindingsInv
  <2>1. Init => FindingsInv
    BY DEF Init, FindingsInv, FindingsBlameTheEngine, NoDraft, NoValidation
  <2> QED
    BY <2>1, InitInv
<1> QED
  BY <1>1, <1>2, <1>3, PTL DEF Spec

-----------------------------------------------------------------------------
\* Proposals

\* What a proposal becomes, when it becomes accepted, is written by a resolution.
KeptOrClosed(row, before) ==
    /\ row.instance = before.instance /\ row.about = before.about
    /\ row.proposed = before.proposed
    /\ row.status = "accepted" => before.status = "accepted"

(* Outside a resolution proposals are closed, rejected or added as open ones:   *)
(* none of them becomes accepted.                                               *)
LEMMA ProposalSteps ==
    ASSUME IInv, [Next]_vars, NEW p \in DOMAIN proposals',
           \A person \in People, i \in Instances, type \in Types,
              named \in {{}} \union {{q} : q \in DOMAIN proposals} : ~Resolve(person, i, type, named)
    PROVE  \/ p \in DOMAIN proposals /\ KeptOrClosed(proposals'[p], proposals[p])
           \/ proposals'[p].status = "open"
<1>1. proposals \in Seq(Proposal)
  BY DEF IInv, TypeOK, ProposalsOK
<1>2. \A q \in DOMAIN proposals : KeptOrClosed(proposals[q], proposals[q])
  BY DEF KeptOrClosed
<1>3. ASSUME NEW q \in DOMAIN proposals, NEW status \in {"superseded", "rejected"}
      PROVE  KeptOrClosed([proposals[q] EXCEPT !.status = status], proposals[q])
  <2>1. proposals[q] \in Proposal
    BY <1>1
  <2> QED
    BY <2>1 DEF KeptOrClosed, Proposal
<1>4. CASE UNCHANGED proposals
  BY <1>2, <1>4
<1>5. ASSUME NEW c \in Clients, Publish(c)
      PROVE  p \in DOMAIN proposals /\ KeptOrClosed(proposals'[p], proposals[p])
  <2>1. proposals' = [q \in DOMAIN proposals |->
            IF proposals[q].status = "open" /\ proposals[q].kind = "rule"
            THEN [proposals[q] EXCEPT !.status = "superseded"] ELSE proposals[q]]
    BY <1>5 DEF Publish
  <2> QED
    BY <1>2, <1>3, <2>1
<1>6. ASSUME NEW c \in Clients, Store(c)
      PROVE  \/ p \in DOMAIN proposals /\ KeptOrClosed(proposals'[p], proposals[p])
             \/ proposals'[p].status = "open"
  <2> DEFINE kept == [q \in DOMAIN proposals |->
                IF q \in calls[c].closing THEN [proposals[q] EXCEPT !.status = "superseded"]
                ELSE proposals[q]]
  <2>1. PICK i \in calls[c].selection, proposed \in Types :
          proposals' = Append(kept, [instance |-> i, kind |-> calls[c].op,
                             about |-> calls[c].about, proposed |-> proposed, status |-> "open"])
    BY <1>6 DEF Store
  <2>2. PICK new : new = [instance |-> i, kind |-> calls[c].op,
                          about |-> calls[c].about, proposed |-> proposed, status |-> "open"]
    OBVIOUS
  <2>3. DOMAIN kept = 1..Len(proposals) /\ Len(proposals) \in Nat
        /\ DOMAIN proposals = 1..Len(proposals)
    BY <1>1
  <2>4. \A q \in DOMAIN proposals : KeptOrClosed(kept[q], proposals[q])
    BY <1>2, <1>3
  <2>5. \A q \in DOMAIN proposals : kept[q] = kept[q]
    OBVIOUS
  <2>6. kept \in Seq({kept[q] : q \in DOMAIN proposals})
    BY <2>3
  <2>7. Len(kept) = Len(proposals)
    BY <2>3
  <2>8. proposals' = Append(kept, new) /\ new.status = "open"
    BY <2>1, <2>2
  <2> HIDE DEF kept
  <2> QED
    BY <2>3, <2>4, <2>6, <2>7, <2>8, AppendKeeps
<1>7. ASSUME NEW q \in DOMAIN proposals, Reject(q)
      PROVE  p \in DOMAIN proposals /\ KeptOrClosed(proposals'[p], proposals[p])
  <2>1. proposals' = [proposals EXCEPT ![q] = [proposals[q] EXCEPT !.status = "rejected"]]
    BY <1>7 DEF Reject
  <2>2. PICK new : new = [proposals[q] EXCEPT !.status = "rejected"]
    OBVIOUS
  <2>3. DOMAIN proposals' = DOMAIN proposals
        /\ proposals'[p] = IF p = q THEN new ELSE proposals[p]
    BY <1>1, <2>1, <2>2
  <2>4. KeptOrClosed(new, proposals[q])
    BY <1>3, <2>2
  <2> QED
    BY <1>2, <2>3, <2>4
<1>8. CASE CasesNext \/ AlertsNext \/ SourcesNext
  <2>1. UNCHANGED proposals
    BY <1>8 DEF CasesNext, Upload, Reextract, AlertsNext, Recheck, DryRun,
                InsertAlerts, RecheckFails, DetectFails, Ack, SourcesNext, ChangeWorld, StartSync,
                Download, DownloadFails, CommitLoad, LoadWorkbook
  <2> QED
    BY <1>4, <2>1
<1>9. CASE DecisionsNext
  <2>1. UNCHANGED proposals
    BY <1>9 DEF DecisionsNext, StartRun, StartReprocess, Turned, ExecuteRun, ExecuteReprocess
  <2> QED
    BY <1>4, <2>1
<1>10. CASE VersionsNext
  BY <1>4, <1>5, <1>10 DEF VersionsNext, ReadDraft, Validate, Discard, EditDraft, Stage
<1>11. CASE ProposalsNext
  BY <1>4, <1>6, <1>7, <1>11 DEF ProposalsNext, Ask, Answer, AgentFails
<1>12. CASE \E c \in Clients : Crash(c)
  BY <1>4, <1>12 DEF Crash
<1>13. CASE UNCHANGED vars
  BY <1>4, <1>13 DEF vars
<1> QED
  BY <1>8, <1>9, <1>10, <1>11, <1>12, <1>13 DEF Next

\* The decision that follows the one row is about answers it.
AnsweredBy(row, h) ==
    /\ row.about + 1 \in DOMAIN h
    /\ h[row.about + 1].author # Engine
    /\ h[row.about + 1].decision = row.proposed

(* A resolution accepts only a proposal about the latest decision, in the same  *)
(* transaction that appends the next one; a proposal accepted before keeps the  *)
(* decision that followed, which nobody edits.                                  *)
LEMMA AcceptedStep ==
    ASSUME IInv, AcceptedIsTheNextDecision, [Next]_vars
    PROVE  AcceptedIsTheNextDecision'
<1>1. proposals \in Seq(Proposal) /\ history \in [Instances -> Seq(Row)]
  BY DEF IInv, TypeOK, ProposalsOK, CasesOK
<1> SUFFICES ASSUME NEW p \in DOMAIN proposals', proposals'[p].status = "accepted"
             PROVE  AnsweredBy(proposals[p], history[proposals[p].instance])'
  BY DEF AcceptedIsTheNextDecision, AnsweredBy
<1>2. ASSUME NEW row, row \in Proposal, AnsweredBy(row, history[row.instance])
      PROVE  AnsweredBy(row, history[row.instance])'
  <2>1. row.instance \in Instances
    BY <1>2 DEF Proposal
  <2> QED
    BY <1>2, <2>1, RowsStay DEF AnsweredBy
<1>3. ASSUME p \in DOMAIN proposals, KeptOrClosed(proposals'[p], proposals[p])
      PROVE  AnsweredBy(proposals[p], history[proposals[p].instance])'
  <2>1. PICK row : row = proposals[p]
    OBVIOUS
  <2>2. row \in Proposal /\ AnsweredBy(row, history[row.instance])
    BY <1>1, <1>3, <2>1 DEF KeptOrClosed, AcceptedIsTheNextDecision, AnsweredBy
  <2>3. AnsweredBy(row, history[row.instance])'
    BY <1>2, <2>2
  <2> QED
    BY <1>3, <2>1, <2>3 DEF KeptOrClosed, AnsweredBy
<1>4. ASSUME NEW person \in People, NEW i \in Instances, NEW type \in Types,
             NEW named \in {{}} \union {{q} : q \in DOMAIN proposals},
             Resolve(person, i, type, named)
      PROVE  AnsweredBy(proposals[p], history[proposals[p].instance])'
  <2>1. /\ proposals' = [q \in DOMAIN proposals |-> SettledBy(q, named, i, type)]
        /\ \A q \in named : Acceptable(q, i)
        /\ history' = [history EXCEPT ![i] = Append(@, PersonRow(i, person, type))]
    BY <1>4 DEF Resolve
  <2>2. p \in DOMAIN proposals /\ proposals'[p] = SettledBy(p, named, i, type)
    BY <2>1
  <2>3. PICK row : row = proposals[p] /\ row \in Proposal
    BY <1>1, <2>2
  <2>4. CASE p \in named
    <3>0. PICK x : x = PersonRow(i, person, type)
      OBVIOUS
    <3>1. x = PersonRow(i, person, type) /\ x.author = person /\ x.decision = type
      BY <3>0 DEF PersonRow
    <3>2. proposals'[p] = [row EXCEPT !.status = IF type = row.proposed THEN "accepted"
                                                 ELSE "rejected"]
      BY <2>2, <2>3, <2>4 DEF SettledBy
    <3>3. /\ proposals'[p].instance = row.instance /\ proposals'[p].about = row.about
          /\ proposals'[p].proposed = row.proposed /\ type = row.proposed
      BY <2>3, <3>2 DEF Proposal
    <3>4. row.instance = i /\ row.about = Len(history[i])
      BY <2>1, <2>3, <2>4 DEF Acceptable
    <3>5. history'[i] = Append(history[i], x) /\ history[i] \in Seq(Row)
      BY <1>1, <2>1, <3>1
    <3>6. Len(history[i]) + 1 \in DOMAIN history'[i] /\ history'[i][Len(history[i]) + 1] = x
      BY <3>5, AppendKeeps
    <3> QED
      BY <3>1, <3>3, <3>4, <3>6, ProcessAssumption DEF AnsweredBy
  <2>5. CASE p \notin named
    <3>1. \/ proposals'[p] = row \/ proposals'[p] = [row EXCEPT !.status = "superseded"]
      BY <2>2, <2>3, <2>5 DEF SettledBy
    <3>2. KeptOrClosed(proposals'[p], proposals[p])
      BY <2>3, <3>1 DEF KeptOrClosed, Proposal
    <3> QED
      BY <1>3, <2>2, <3>2
  <2> QED
    BY <2>4, <2>5
<1> QED
  BY <1>3, <1>4, ProposalSteps

(* An accepted proposal is the very next decision of its case after the one it  *)
(* answers, written by a person with the outcome it proposed: between the two   *)
(* nothing was decided (proposals/service.py, decisions/service.resolve).       *)
THEOREM ProcessAccepted == Spec => []AcceptedIsTheNextDecision
<1>1. IInv /\ AcceptedIsTheNextDecision /\ [Next]_vars => (IInv /\ AcceptedIsTheNextDecision)'
  BY StepInv, AcceptedStep
<1>2. Init => IInv /\ AcceptedIsTheNextDecision
  <2>1. Init => AcceptedIsTheNextDecision
    BY DEF Init, AcceptedIsTheNextDecision
  <2> QED
    BY <2>1, InitInv
<1> QED
  BY <1>1, <1>2, PTL DEF Spec

-----------------------------------------------------------------------------
\* Approval

\* A validation that was sent to a manager, or stored, is of the snapshot next to it.
Fits(row) == row.validation.valid => row.validation.snapshot = row.snapshot
SeenInv == \A c \in Clients : Fits(seen[c])

LEMMA SeenStep ==
    ASSUME IInv, SeenInv, Fits(draft), [Next]_vars
    PROVE  SeenInv' /\ Fits(draft)'
<1>1. seen \in [Clients -> Drafts]
  BY DEF IInv, TypeOK, VersionsOK
<1>2. CASE UNCHANGED versionVars
  BY <1>2 DEF versionVars, SeenInv, Fits
<1>3. ASSUME NEW row, NEW c \in Clients, seen' = [seen EXCEPT ![c] = row], Fits(row), draft' = row
      PROVE  SeenInv' /\ Fits(draft)'
  BY <1>1, <1>3 DEF SeenInv, Fits
<1>4. ASSUME NEW c \in Clients, NEW s \in Snapshots, EditDraft(c, s)
      PROVE  SeenInv' /\ Fits(draft)'
  <2>1. PICK row : row = [Staged(s) EXCEPT !.base = active]
    OBVIOUS
  <2>2. ~row.validation.valid /\ draft' = row /\ seen' = [seen EXCEPT ![c] = row]
    BY <1>4, <2>1 DEF EditDraft, Told, Staged, NoValidation
  <2> QED
    BY <1>3, <2>2 DEF Fits
<1>5. ASSUME NEW s \in Snapshots, Stage(s) PROVE SeenInv' /\ Fits(draft)'
  BY <1>5 DEF Stage, Staged, NoValidation, SeenInv, Fits
<1>6. ASSUME NEW c \in Clients, Discard(c) \/ Publish(c) PROVE SeenInv' /\ Fits(draft)'
  BY <1>6 DEF Discard, Publish, NoDraft, NoValidation, SeenInv, Fits
<1>7. ASSUME NEW c \in Clients, ReadDraft(c) PROVE SeenInv' /\ Fits(draft)'
  BY <1>3, <1>7 DEF ReadDraft, Told
<1>8. ASSUME NEW c \in Clients, Validate(c) PROVE SeenInv' /\ Fits(draft)'
  <2>1. PICK row : row = [draft EXCEPT !.validation =
              [valid |-> Inspect(draft.snapshot).valid, changes |-> Inspect(draft.snapshot).changes,
               inputs |-> Capture, snapshot |-> draft.snapshot, revision |-> draft.revision]]
    OBVIOUS
  <2>2. draft' = row /\ seen' = [seen EXCEPT ![c] = row]
    BY <1>8, <2>1 DEF Validate, Told
  <2>3. Fits(row)
    BY <2>1 DEF Fits, IInv, TypeOK, VersionsOK, Drafts
  <2> QED
    BY <1>3, <2>2, <2>3
<1>9. CASE VersionsNext
  BY <1>4, <1>5, <1>6, <1>7, <1>8, <1>9 DEF VersionsNext
<1>10. CASE CasesNext \/ AlertsNext \/ DecisionsNext \/ SourcesNext
  <2>1. UNCHANGED versionVars
    BY <1>10 DEF CasesNext, Upload, Reextract, AlertsNext, Recheck, DryRun,
                InsertAlerts, RecheckFails, DetectFails, Ack, DecisionsNext, StartRun,
                StartReprocess, Turned, ExecuteRun, ExecuteReprocess, Resolve, SourcesNext,
                ChangeWorld, StartSync, Download, DownloadFails, CommitLoad, LoadWorkbook
  <2> QED
    BY <1>2, <2>1
<1>11. CASE ProposalsNext \/ \E c \in Clients : Crash(c)
  <2>1. UNCHANGED versionVars
    BY <1>11 DEF ProposalsNext, Ask, Answer, Store, AgentFails, Reject, Crash
  <2> QED
    BY <1>2, <2>1
<1>12. CASE UNCHANGED vars
  BY <1>2, <1>12 DEF vars
<1> QED
  BY <1>9, <1>10, <1>11, <1>12 DEF Next

(* Only a publication adds a version.                                           *)
LEMMA OnlyPublish ==
    ASSUME IInv, [Next]_vars, Len(versions') > Len(versions)
    PROVE  \E c \in Clients : Publish(c)
<1>1. versions \in Seq(Version)
  BY DEF IInv, TypeOK, VersionsOK
<1>2. versions' # versions
  BY <1>1
<1>3. ~UNCHANGED versionVars
  BY <1>2 DEF versionVars
<1>4. ~(CasesNext \/ AlertsNext \/ DecisionsNext \/ SourcesNext)
  BY <1>3 DEF CasesNext, Upload, Reextract, AlertsNext, Recheck, DryRun,
              InsertAlerts, RecheckFails, DetectFails, Ack, DecisionsNext, StartRun,
              StartReprocess, Turned, ExecuteRun, ExecuteReprocess, Resolve, SourcesNext,
              ChangeWorld, StartSync, Download, DownloadFails, CommitLoad, LoadWorkbook
<1>5. ~(ProposalsNext \/ (\E c \in Clients : Crash(c)) \/ UNCHANGED vars)
  BY <1>3 DEF ProposalsNext, Ask, Answer, Store, AgentFails, Reject, Crash, vars
<1>6. VersionsNext
  BY <1>4, <1>5 DEF Next
<1> QED
  BY <1>2, <1>6 DEF VersionsNext, ReadDraft, Validate, Discard, EditDraft, Stage

LEMMA ApprovedStep ==
    ASSUME IInv, SeenInv, [Next]_vars, Len(versions') > Len(versions)
    PROVE  LET version == versions'[Len(versions')]
           IN  /\ seen[version.author].snapshot = version.snapshot
               /\ seen[version.author].validation.valid
               /\ seen[version.author].validation.changes = version.changes
<1>1. PICK c \in Clients : Publish(c)
  BY OnlyPublish
<1>2. PICK row : row = [snapshot |-> draft.snapshot, parent |-> active, author |-> c,
                        changes |-> draft.validation.changes]
  OBVIOUS
<1>3. versions' = Append(versions, row) /\ Approved(c) /\ StillCurrent
  BY <1>1, <1>2 DEF Publish
<1>4. versions'[Len(versions')] = row
  BY <1>3, AppendKeeps DEF IInv, TypeOK, VersionsOK
<1>5. Fits(seen[c])
  BY DEF SeenInv
<1> QED
  BY <1>2, <1>3, <1>4, <1>5 DEF Approved, StillCurrent, Fits

(* The manager who published had got exactly that snapshot, validated, with     *)
(* that report, in a response: no draft is published in place of another under  *)
(* the same revision number (versions/router.publish).                          *)
THEOREM ProcessApproved == Spec => PublishWhatWasApproved
<1>1. IInv /\ SeenInv /\ Fits(draft) /\ [Next]_vars => (IInv /\ SeenInv /\ Fits(draft))'
  BY StepInv, SeenStep
<1>2. Init => IInv /\ SeenInv /\ Fits(draft)
  <2>1. Init => SeenInv /\ Fits(draft)
    BY DEF Init, SeenInv, Fits, NoDraft, NoValidation
  <2> QED
    BY <2>1, InitInv
<1>3. IInv /\ SeenInv /\ [Next]_vars =>
        [Len(versions') > Len(versions) =>
            LET version == versions'[Len(versions')]
            IN  /\ seen[version.author].snapshot = version.snapshot
                /\ seen[version.author].validation.valid
                /\ seen[version.author].validation.changes = version.changes]_vars
  BY ApprovedStep
<1> QED
  BY <1>1, <1>2, <1>3, PTL DEF Spec, PublishWhatWasApproved

-----------------------------------------------------------------------------
\* Live sources

\* This request has committed a load of the source.
Synced(call, name) == call.got[name] \in DOMAIN loads /\ loads[call.got[name]].name = name

\* A run or a reprocess in flight has, for every live source, still to sync it, given it
\* up, committed a load of it, or its rows in hand.
Deciding(call) == call.op \in {"run", "reprocess"} /\ call.pc # "idle"
Tracks(call) ==
    Deciding(call) =>
        /\ call.pc = "execute" => call.todo = {}
        /\ \A name \in Live : \/ name \in call.todo \union call.down
                              \/ Synced(call, name)
                              \/ call.pc = "commit" /\ call.names = {name}
LiveInv == \A c \in Clients : Tracks(calls[c])

LEMMA TracksStays ==
    ASSUME IInv, [Next]_vars, NEW call, Tracks(call)
    PROVE  Tracks(call)'
<1>1. ASSUME NEW name, Synced(call, name) PROVE Synced(call, name)'
  BY <1>1, LoadsStay DEF Synced
<1> QED
  BY <1>1 DEF Tracks, Deciding

LEMMA TracksOthers ==
    ASSUME IInv, LiveInv, [Next]_vars, NEW c \in Clients, NEW call,
           calls' = [calls EXCEPT ![c] = call], Tracks(call)'
    PROVE  LiveInv'
<1> SUFFICES ASSUME NEW d \in Clients PROVE Tracks(calls[d])'
  BY DEF LiveInv
<1>1. calls' = [e \in Clients |-> IF e = c THEN call ELSE calls[e]]
  BY DEF IInv, TypeOK, CallsOK
<1>2. PICK old : old = calls[d]
  OBVIOUS
<1>3. Tracks(old)'
  BY <1>2, TracksStays DEF LiveInv
<1>4. CASE d = c
  <2>1. calls'[d] = call
    BY <1>1, <1>4
  <2> QED
    BY <2>1 DEF Tracks, Deciding, Synced
<1>5. CASE d # c
  <2>1. calls'[d] = old
    BY <1>1, <1>2, <1>5
  <2> QED
    BY <1>3, <2>1 DEF Tracks, Deciding, Synced
<1> QED
  BY <1>4, <1>5

\* A request that resumes has no rows in hand, so it had every source tracked.
Settled(call) ==
    Deciding(call) => \A name \in Live : name \in call.todo \union call.down \/ Synced(call, name)

LEMMA ResumeFields ==
    ASSUME NEW call \in Call, call.pc # "idle"
    PROVE  \/ Resume(call) = NoCall
           \/ /\ Deciding(call)
              /\ Resume(call).op = call.op /\ Resume(call).todo = call.todo
              /\ Resume(call).down = call.down /\ Resume(call).got = call.got
              /\ Resume(call).pc = IF call.todo = {} THEN "execute" ELSE "sync"
<1> DEFINE next == [call EXCEPT !.pc = IF call.todo = {} THEN "execute" ELSE "sync",
                                !.names = {}, !.fetched = NoCall.fetched, !.flips = {}]
<1>1. /\ next.op = call.op /\ next.todo = call.todo /\ next.down = call.down
      /\ next.got = call.got /\ next.pc = IF call.todo = {} THEN "execute" ELSE "sync"
  BY DEF Call
<1>2. Resume(call) = IF call.op \in {"run", "reprocess"} THEN next ELSE NoCall
  BY DEF Resume
<1> HIDE DEF next
<1> QED
  BY <1>1, <1>2 DEF Deciding

LEMMA TracksNothing == Tracks(NoCall) /\ \A call : call.op \notin {"run", "reprocess"} => Tracks(call)
  BY DEF Tracks, Deciding, NoCall

LEMMA TracksResume ==
    ASSUME NEW call \in Call, call.pc # "idle", Settled(call)
    PROVE  Tracks(Resume(call))
<1>1. CASE Resume(call) = NoCall
  BY <1>1, TracksNothing
<1>2. CASE Resume(call) # NoCall
  BY <1>2, ResumeFields DEF Tracks, Settled, Deciding, Synced
<1> QED
  BY <1>1, <1>2

LEMMA TracksFailed ==
    ASSUME NEW call \in Call, call.pc # "idle", NEW names \in SUBSET Sources,
           Deciding(call) => \A name \in Live :
              name \in call.todo \union call.down \union names \/ Synced(call, name)
    PROVE  Tracks(Failed(call, names))
<1> DEFINE other == [call EXCEPT !.down = @ \union names]
<1>1. other \in Call /\ other.op = call.op /\ other.pc = call.pc /\ other.todo = call.todo
      /\ other.down = call.down \union names /\ other.got = call.got
  BY DEF Call
<1>2. Failed(call, names) = Resume(other)
  BY DEF Failed
<1> HIDE DEF other
<1>3. Settled(other)
  BY <1>1 DEF Settled, Deciding, Synced
<1> QED
  BY <1>1, <1>2, <1>3, TracksResume

LEMMA LiveStep ==
    ASSUME IInv, LiveInv, [Next]_vars
    PROVE  LiveInv'
<1>1. calls \in [Clients -> Call] /\ loads \in Seq(Load)
  BY DEF IInv, TypeOK, CallsOK, LoadsOK
<1>2. CASE UNCHANGED calls
  <2> SUFFICES ASSUME NEW c \in Clients PROVE Tracks(calls[c])'
    BY DEF LiveInv
  <2>1. PICK call : call = calls[c] /\ call = calls'[c]
    BY <1>2
  <2>2. Tracks(call)'
    BY <2>1, TracksStays DEF LiveInv
  <2> QED
    BY <2>1, <2>2 DEF Tracks, Deciding, Synced
<1>3. ASSUME NEW c \in Clients, NEW call, calls' = [calls EXCEPT ![c] = call], Tracks(call)
      PROVE  LiveInv'
  BY <1>3, TracksStays, TracksOthers
<1>4. ASSUME NEW c \in Clients, calls' = [calls EXCEPT ![c] = NoCall] PROVE LiveInv'
  BY <1>3, <1>4, TracksNothing
<1>5. ASSUME NEW c \in Clients, NEW name \in Sources, StartSync(c, name) PROVE LiveInv'
  <2>1. PICK call : call = [calls[c] EXCEPT !.op = "sync", !.pc = "sync", !.todo = {name}]
    OBVIOUS
  <2>2. calls' = [calls EXCEPT ![c] = call] /\ call.op = "sync"
    BY <1>1, <1>5, <2>1 DEF StartSync, Call
  <2> QED
    BY <1>3, <2>2, TracksNothing
<1>6. ASSUME NEW c \in Clients, Download(c) PROVE LiveInv'
  <2>1. PICK name \in calls[c].todo : calls' = [calls EXCEPT ![c] =
              [calls[c] EXCEPT !.pc = "commit", !.todo = @ \ {name}, !.names = {name},
                               !.fetched = world[name]]]
    BY <1>6 DEF Download
  <2>2. PICK call : call = [calls[c] EXCEPT !.pc = "commit", !.todo = @ \ {name},
                                            !.names = {name}, !.fetched = world[name]]
    OBVIOUS
  <2>3. /\ call.op = calls[c].op /\ call.pc = "commit" /\ call.todo = calls[c].todo \ {name}
        /\ call.names = {name} /\ call.down = calls[c].down /\ call.got = calls[c].got
    BY <1>1, <2>2 DEF Call
  <2>4. Tracks(calls[c]) /\ calls[c].pc = "sync"
    BY <1>6 DEF LiveInv, Download
  <2>5. Tracks(call)
    BY <2>3, <2>4 DEF Tracks, Deciding, Synced
  <2> QED
    BY <1>3, <2>1, <2>2, <2>5
<1>7. ASSUME NEW c \in Clients, DownloadFails(c) PROVE LiveInv'
  <2>1. PICK name \in calls[c].todo :
           calls' = [calls EXCEPT ![c] = Failed([calls[c] EXCEPT !.todo = @ \ {name}], {name})]
    BY <1>7 DEF DownloadFails
  <2>2. PICK call : call = [calls[c] EXCEPT !.todo = @ \ {name}]
    OBVIOUS
  <2>3. calls[c] \in Call /\ calls[c].pc = "sync" /\ Tracks(calls[c])
    BY <1>1, <1>7 DEF DownloadFails, LiveInv
  <2>4. call \in Call
    BY <2>2, <2>3, ZenonT(60) DEF Call
  <2>5. /\ call.op = calls[c].op /\ call.pc = "sync" /\ call.todo = calls[c].todo \ {name}
        /\ call.down = calls[c].down /\ call.got = calls[c].got
    BY <2>2, <2>3 DEF Call
  <2>6. {name} \in SUBSET Sources
    BY <2>3 DEF Call
  <2>7. Tracks(Failed(call, {name}))
    <3>1. Deciding(call) => \A other \in Live :
             other \in call.todo \union call.down \union {name} \/ Synced(call, other)
      BY <2>3, <2>5 DEF Tracks, Deciding, Synced
    <3> QED
      BY <2>4, <2>5, <2>6, <3>1, TracksFailed
  <2> QED
    BY <1>3, <2>1, <2>2, <2>7
<1>8. ASSUME NEW c \in Clients, CommitLoad(c) PROVE LiveInv'
  <2>1. PICK name \in calls[c].names :
           /\ loads' = Append(loads, NewLoad(c, name))
           /\ calls' = [calls EXCEPT ![c] =
                 IF Differs(name, calls[c].fetched.rows)
                 THEN [[calls[c] EXCEPT !.got[name] = Len(loads) + 1] EXCEPT !.pc = "recheck"]
                 ELSE Resume([calls[c] EXCEPT !.got[name] = Len(loads) + 1])]
    BY <1>8 DEF CommitLoad
  <2>2. PICK done : done = [calls[c] EXCEPT !.got[name] = Len(loads) + 1]
    OBVIOUS
  <2>3. /\ calls[c] \in Call /\ calls[c].pc = "commit" /\ Tracks(calls[c]) /\ name \in Sources
        /\ calls[c].got \in [Sources -> Nat] /\ Len(loads) + 1 \in Nat
    BY <1>1, <1>8, <2>1 DEF CommitLoad, LiveInv, Call
  <2>4. PICK got : got = [calls[c].got EXCEPT ![name] = Len(loads) + 1]
    OBVIOUS
  <2>5. got \in [Sources -> Nat] /\ got[name] = Len(loads) + 1
        /\ \A other \in Sources \ {name} : got[other] = calls[c].got[other]
    BY <2>3, <2>4
  <2>6. done = [calls[c] EXCEPT !.got = got]
    BY <2>2, <2>3, <2>4 DEF Call
  <2>7. done \in Call /\ done.op = calls[c].op /\ done.pc = "commit" /\ done.got = got
        /\ done.todo = calls[c].todo /\ done.down = calls[c].down
    BY <2>3, <2>5, <2>6 DEF Call
  <2>8. Len(loads) + 1 \in DOMAIN loads' /\ loads'[Len(loads) + 1].name = name
        /\ \A n \in DOMAIN loads : n \in DOMAIN loads' /\ loads'[n] = loads[n]
    BY <1>1, <2>1, AppendKeeps DEF NewLoad
  <2>9. Live \subseteq Sources
    BY ProcessAssumption
  <2>10. ASSUME NEW other \in Live, Deciding(done)
         PROVE  other \in done.todo \union done.down \/ Synced(done, other)'
    <3>1. CASE other = name
      BY <2>5, <2>7, <2>8, <3>1 DEF Synced
    <3>2. CASE other # name
      <4>1. \/ other \in calls[c].todo \union calls[c].down \/ Synced(calls[c], other)
            \/ calls[c].names = {other}
        BY <2>3, <2>7, <2>10 DEF Tracks, Deciding
      <4>2. calls[c].names # {other}
        BY <2>1, <3>2
      <4>3. got[other] = calls[c].got[other]
        BY <2>5, <2>9, <3>2
      <4> QED
        BY <2>7, <2>8, <4>1, <4>2, <4>3 DEF Synced
    <3> QED
      BY <3>1, <3>2
  <2>11. PICK again : again = [done EXCEPT !.pc = "recheck"]
    OBVIOUS
  <2>12. /\ again.op = done.op /\ again.pc = "recheck" /\ again.todo = done.todo
         /\ again.down = done.down /\ again.got = done.got
    BY <2>7, <2>11 DEF Call
  <2>13. Tracks(again)'
    <3>1. Deciding(again) => Deciding(done)
      BY <2>7, <2>12 DEF Deciding
    <3> QED
      BY <2>7, <2>10, <2>12, <3>1 DEF Tracks, Deciding, Synced
  <2>14. PICK next : next = Resume(done)
    OBVIOUS
  <2>15. Tracks(next)'
    <3>1. \/ next = NoCall
          \/ /\ Deciding(done)
             /\ next.op = done.op /\ next.todo = done.todo
             /\ next.down = done.down /\ next.got = done.got
             /\ next.pc = IF done.todo = {} THEN "execute" ELSE "sync"
      BY <2>7, <2>14, ResumeFields
    <3>2. CASE next = NoCall
      BY <3>2 DEF NoCall, Tracks, Deciding
    <3>3. CASE next # NoCall
      BY <2>10, <3>1, <3>3 DEF Tracks, Synced
    <3> QED
      BY <3>2, <3>3
  <2>16. calls' = [calls EXCEPT ![c] = again] \/ calls' = [calls EXCEPT ![c] = next]
    BY <2>1, <2>2, <2>11, <2>14
  <2> QED
    BY <2>13, <2>15, <2>16, TracksOthers
<1>9. ASSUME NEW c \in Clients, NEW names \in SUBSET Sources, LoadWorkbook(c, names) PROVE LiveInv'
  <2>1. PICK call : call = [calls[c] EXCEPT !.op = "workbook", !.pc = "recheck", !.names = names]
    OBVIOUS
  <2>2. calls' = [calls EXCEPT ![c] = call] /\ call.op = "workbook"
    BY <1>1, <1>9, <2>1 DEF LoadWorkbook, Call
  <2> QED
    BY <1>3, <2>2, TracksNothing
<1>10. ASSUME NEW c \in Clients, Recheck(c) \/ DryRun(c) \/ InsertAlerts(c) \/ RecheckFails(c)
                                  \/ DetectFails(c)
       PROVE  LiveInv'
  <2>1. calls[c] \in Call /\ Tracks(calls[c]) /\ calls[c].pc \in {"recheck", "dryrun", "insert"}
        /\ calls[c].names \in SUBSET Sources
    BY <1>1, <1>10 DEF Recheck, DryRun, InsertAlerts, RecheckFails, DetectFails, Call, LiveInv
  <2>2. Settled(calls[c])
    BY <2>1 DEF Tracks, Settled
  <2>3. Tracks(Resume(calls[c])) /\ Tracks(Failed(calls[c], calls[c].names))
    <3>1. Deciding(calls[c]) => \A name \in Live :
             name \in calls[c].todo \union calls[c].down \union calls[c].names
             \/ Synced(calls[c], name)
      BY <2>2 DEF Settled
    <3> QED
      BY <2>1, <2>2, <3>1, TracksResume, TracksFailed
  <2>4. PICK dry, ins : dry = [calls[c] EXCEPT !.pc = "dryrun"]
                        /\ ins = [calls[c] EXCEPT !.pc = "insert", !.flips = Flips]
    OBVIOUS
  <2>5. /\ dry.op = calls[c].op /\ dry.pc = "dryrun" /\ dry.todo = calls[c].todo
        /\ dry.down = calls[c].down /\ dry.got = calls[c].got
        /\ ins.op = calls[c].op /\ ins.pc = "insert" /\ ins.todo = calls[c].todo
        /\ ins.down = calls[c].down /\ ins.got = calls[c].got
    BY <2>1, <2>4 DEF Call
  <2>6. Tracks(dry) /\ Tracks(ins)
    BY <2>1, <2>5 DEF Tracks, Deciding, Synced
  <2>7. \/ calls' = [calls EXCEPT ![c] = dry] \/ calls' = [calls EXCEPT ![c] = ins]
        \/ calls' = [calls EXCEPT ![c] = Resume(calls[c])]
        \/ calls' = [calls EXCEPT ![c] = Failed(calls[c], calls[c].names)]
    BY <1>10, <2>4 DEF Recheck, DryRun, InsertAlerts, RecheckFails, DetectFails
  <2> QED
    BY <1>3, <2>3, <2>6, <2>7
<1>11. ASSUME NEW c \in Clients, NEW all \in BOOLEAN, NEW selection \in SUBSET Instances,
              NEW key \in Keys \union {NoKey},
              StartRun(c, all, selection, key) \/ StartReprocess(c, all, selection)
       PROVE  LiveInv'
  <2> DEFINE run == [NoCall EXCEPT !.op = "run", !.pc = IF Live = {} THEN "execute" ELSE "sync",
                         !.all = all, !.selection = selection, !.key = key, !.todo = Live]
             again == [NoCall EXCEPT !.op = "reprocess",
                         !.pc = IF Live = {} THEN "execute" ELSE "sync",
                         !.all = all, !.selection = selection, !.todo = Live]
  <2>1. /\ run.todo = Live /\ run.pc = IF Live = {} THEN "execute" ELSE "sync"
        /\ again.todo = Live /\ again.pc = IF Live = {} THEN "execute" ELSE "sync"
    BY DEF NoCall
  <2>2. calls' = [calls EXCEPT ![c] = run] \/ calls' = [calls EXCEPT ![c] = again]
    BY <1>11 DEF StartRun, StartReprocess
  <2> HIDE DEF run, again
  <2>3. Tracks(run) /\ Tracks(again)
    BY <2>1 DEF Tracks
  <2> QED
    BY <1>3, <2>2, <2>3
<1>12. ASSUME NEW c \in Clients, NEW i \in Instances, NEW kind \in Kinds, Ask(c, i, kind)
       PROVE  LiveInv'
  <2>1. PICK call : call = [NoCall EXCEPT !.op = kind, !.pc = "asked", !.selection = {i},
                                          !.about = Len(history[i])]
    OBVIOUS
  <2>2. calls' = [calls EXCEPT ![c] = call] /\ call.op = kind
    BY <1>12, <2>1 DEF Ask, NoCall
  <2> QED
    BY <1>3, <2>2, TracksNothing DEF Kinds
<1>13. ASSUME NEW c \in Clients, Answer(c) PROVE LiveInv'
  <2>1. PICK i \in calls[c].selection : calls' = [calls EXCEPT ![c] =
             IF Unchanged(c, i) THEN [@ EXCEPT !.pc = "answered", !.closing = Open(i, calls[c].op)]
             ELSE NoCall]
    BY <1>13 DEF Answer
  <2>2. PICK call : call = [calls[c] EXCEPT !.pc = "answered", !.closing = Open(i, calls[c].op)]
    OBVIOUS
  <2>3. call.op = calls[c].op /\ call.op \notin {"run", "reprocess"}
    <3>1. calls[c].op \in Kinds
      BY <1>13 DEF Answer, IInv, TypeOK, CallsOK, Remembers
    <3> QED
      BY <1>1, <2>2, <3>1 DEF Call, Kinds
  <2>4. calls' = [calls EXCEPT ![c] = IF Unchanged(c, i) THEN call ELSE NoCall]
    BY <2>1, <2>2
  <2> QED
    BY <1>3, <1>4, <2>3, <2>4, TracksNothing
<1>14. ASSUME NEW c \in Clients, Publish(c) PROVE LiveInv'
  <2>1. PICK call : call = [calls[c] EXCEPT !.op = "publish", !.pc = "dryrun"]
    OBVIOUS
  <2>2. call.op = "publish"
    BY <1>1, <2>1 DEF Call
  <2>3. calls' = calls \/ calls' = [calls EXCEPT ![c] = call]
    BY <1>14, <2>1 DEF Publish
  <2> QED
    BY <1>2, <1>3, <2>2, <2>3, TracksNothing
<1>20. CASE CasesNext
  BY <1>2, <1>20 DEF CasesNext, Upload, Reextract
<1>21. CASE SourcesNext
  BY <1>2, <1>5, <1>6, <1>7, <1>8, <1>9, <1>21, ProcessAssumption DEF SourcesNext, ChangeWorld
<1>22. CASE AlertsNext
  BY <1>2, <1>10, <1>22 DEF AlertsNext, Ack
<1>23. CASE DecisionsNext
  <2>1. ASSUME NEW c \in Clients, Turned(c) \/ ExecuteRun(c) \/ ExecuteReprocess(c)
        PROVE  LiveInv'
    BY <1>4, <2>1 DEF Turned, ExecuteRun, ExecuteReprocess
  <2>2. ASSUME NEW person \in People, NEW i \in Instances, NEW type \in Types, NEW named,
               Resolve(person, i, type, named)
        PROVE  LiveInv'
    BY <1>2, <2>2 DEF Resolve
  <2> QED
    BY <1>11, <1>23, <2>1, <2>2 DEF DecisionsNext
<1>24. CASE VersionsNext
  BY <1>2, <1>14, <1>24 DEF VersionsNext, ReadDraft, Validate, Discard, EditDraft, Stage
<1>25. CASE ProposalsNext
  <2>1. ASSUME NEW c \in Clients, Store(c) \/ AgentFails(c) PROVE LiveInv'
    BY <1>4, <2>1 DEF Store, AgentFails
  <2> QED
    BY <1>2, <1>12, <1>13, <1>25, <2>1 DEF ProposalsNext, Reject
<1>26. CASE \E c \in Clients : Crash(c)
  BY <1>4, <1>26 DEF Crash
<1>27. CASE UNCHANGED vars
  BY <1>2, <1>27 DEF vars
<1> QED
  BY <1>20, <1>21, <1>22, <1>23, <1>24, <1>25, <1>26, <1>27 DEF Next

\* What one captured execution holds of a live source.
FreshIn(inp, call) ==
    \A name \in Live :
       \/ name \in inp.down
       \/ \E n \in inp.source_ids : loads[n].name = name /\ call.got[name] \in 1..n

LEMMA LiveFreshStep ==
    ASSUME IInv, LiveInv, [Next]_vars, Len(executions') > Len(executions)
    PROVE  LET inp == executions'[Len(executions')].inputs
           IN  \E c \in Clients :
                  /\ calls[c].pc = "execute" /\ calls'[c].pc = "idle"
                  /\ FreshIn(inp, calls[c])
<1>1. executions \in Seq(Execution) /\ calls \in [Clients -> Call] /\ loads \in Seq(Load)
      /\ DOMAIN loads = 1..Len(loads) /\ Len(loads) \in Nat
  BY DEF IInv, TypeOK, ExecutionsOK, CallsOK, LoadsOK
<1>2. executions' # executions
  BY <1>1
<1>3. PICK c \in Clients : ExecuteRun(c) \/ ExecuteReprocess(c)
  <2>1. ASSUME NEW person \in People, NEW i \in Instances, NEW type \in Types, NEW named,
               Resolve(person, i, type, named)
        PROVE  UNCHANGED executions
    BY <2>1 DEF Resolve, runVars
  <2> QED
    BY <1>2, <2>1, StepKinds
<1>4. /\ calls[c].pc = "execute" /\ calls[c].op \in {"run", "reprocess"}
      /\ calls'[c].pc = "idle"
  BY <1>1, <1>3 DEF ExecuteRun, ExecuteReprocess, NoCall
<1>5. PICK inp : inp = CapturedInputs(ActiveSnapshot, calls[c].down)
  OBVIOUS
<1>6. PICK x : x = [version |-> active, inputs |-> inp, key |-> calls[c].key]
  OBVIOUS
<1>7. executions' = Append(executions, x)
  BY <1>3, <1>5, <1>6, DecisionKinds, DecideAppends
<1>8. executions'[Len(executions')] = x
  BY <1>1, <1>7, AppendKeeps
<1>9. ASSUME NEW name \in Live
      PROVE  \/ name \in inp.down
             \/ \E n \in inp.source_ids : loads[n].name = name /\ calls[c].got[name] \in 1..n
  <2>1. name \in calls[c].down \/ Synced(calls[c], name)
    BY <1>4 DEF LiveInv, Tracks, Deciding
  <2>2. calls[c].down \subseteq inp.down
    BY <1>5 DEF CapturedInputs
  <2>3. CASE Synced(calls[c], name)
    <3>1. PICK m : m = calls[c].got[name] /\ m \in Named(name)
      BY <1>1, <2>3 DEF Synced, Named
    <3>2. Named(name) \in SUBSET (1..Len(loads)) /\ Named(name) # {}
      BY <3>1 DEF Named
    <3>3. PICK n : n = LastOf(Named(name)) /\ n \in Named(name) /\ \A k \in Named(name) : k <= n
      BY <1>1, <3>2, LastExists
    <3>4. n \in 1..Len(loads) /\ loads[n].name = name /\ n \in CurrentLoads
      BY <1>1, <3>3 DEF Named, CurrentLoads
    <3>5. m \in 1..n
      BY <1>1, <3>1, <3>2, <3>3, <3>4
    <3>6. name \in inp.down \/ n \in inp.source_ids
      BY <1>5, <3>4 DEF CapturedInputs
    <3> QED
      BY <3>1, <3>4, <3>5, <3>6
  <2> QED
    BY <2>1, <2>2, <2>3
<1>10. FreshIn(inp, calls[c])
  BY <1>9 DEF FreshIn
<1> QED
  BY <1>4, <1>6, <1>8, <1>10

(* An execution reads every live source at the load its own request committed,  *)
(* or at a later one, or takes the source as down: never at a load from before   *)
(* the request, though loads are committed and read in different transactions.  *)
THEOREM ProcessLiveFresh == Spec => LiveSourcesFresh
<1>1. IInv /\ LiveInv /\ [Next]_vars => (IInv /\ LiveInv)'
  BY StepInv, LiveStep
<1>2. Init => IInv /\ LiveInv
  <2>1. Init => LiveInv
    BY DEF Init, LiveInv, Tracks, Deciding, NoCall
  <2> QED
    BY <2>1, InitInv
<1>3. IInv /\ LiveInv /\ [Next]_vars =>
        [Len(executions') > Len(executions) =>
            LET inp == executions'[Len(executions')].inputs
            IN  \E c \in Clients :
                   /\ calls[c].pc = "execute" /\ calls'[c].pc = "idle"
                   /\ \A name \in Live :
                         \/ name \in inp.down
                         \/ \E n \in inp.source_ids :
                               loads[n].name = name /\ calls[c].got[name] \in 1..n]_vars
  BY LiveFreshStep DEF FreshIn
<1> QED
  BY <1>1, <1>2, <1>3, PTL DEF Spec, LiveSourcesFresh

-----------------------------------------------------------------------------
\* Evidence

\* What Inspect would say if the readings were Q and the rest were as it is now.
PastWith(Q) == {i \in Instances : HasDecision(i) /\ Q[i] # NoReading}
VerdictWith(s, Q, i) == Evaluate(s, [readings |-> Q, source_ids |-> CurrentLoads, down |-> {}], i)
OldGapWith(s, Q, i) == Gap(s, Q[i]) \ NewlyRequired(s)
EscalatedWith(s, Q, i) ==
    LET row == history[i][Compared(i)]
    IN  OldGapWith(s, Q, i) # {} /\ row.decision = Escalation[s]
        /\ OldGapWith(s, Q, i) \subseteq row.names
ClassWith(s, Q, i) ==
    LET previous == history[i][Compared(i)]
        verdict == VerdictWith(s, Q, i)
        covered == EscalatedWith(s, Q, i)
    IN  CASE verdict.failed                                          -> "error"
          [] ~verdict.failed /\ covered                              -> "already_escalated"
          [] ~verdict.failed /\ ~covered /\ OldGapWith(s, Q, i) # {} -> "error"
          [] ~verdict.failed /\ OldGapWith(s, Q, i) = {}
             /\ Gap(s, Q[i]) # {}                                    -> "not_evaluable"
          [] ~verdict.failed /\ Gap(s, Q[i]) = {} ->
                IF previous.decision = verdict.decision THEN "unchanged"
                ELSE IF Latest(i).author # Engine THEN "resolved_by_person"
                ELSE IF previous.pending THEN "conflict"
                ELSE "change"
ValidWith(s, Q) ==
    /\ WellFormed[s]
    /\ \A i \in PastWith(Q) : ClassWith(s, Q, i) \notin {"error", "conflict"}
    /\ active # 0 /\ NewlyRequired(s) # {} => ExamplesHold[s]
ChangesWith(s, Q) ==
    {<<i, Compared(i)>> : i \in {j \in PastWith(Q) : ClassWith(s, Q, j) = "change"}}

LEMMA InspectIsWith ==
    ASSUME NEW s, CasesOK
    PROVE  /\ Inspect(s).valid <=> ValidWith(s, ReadingsNow)
           /\ Inspect(s).changes = ChangesWith(s, ReadingsNow)
<1>1. PICK Q : Q = ReadingsNow
  OBVIOUS
<1>2. \A i \in Instances : Q[i] = cases[i].reading
  BY <1>1 DEF ReadingsNow
<1>3. PastWith(Q) = Past /\ Past \subseteq Instances
  BY <1>2 DEF Past, PastWith
<1>4. ASSUME NEW i \in Past PROVE ClassWith(s, Q, i) = Class(s, i)
  <2>1. Q[i] = cases[i].reading
    BY <1>2, <1>3
  <2>2. VerdictWith(s, Q, i) = VerdictUnder(s, i)
    BY <1>1 DEF VerdictWith, VerdictUnder
  <2>3. OldGapWith(s, Q, i) = OldGap(s, i)
    BY <2>1 DEF OldGapWith, OldGap
  <2>4. EscalatedWith(s, Q, i) <=> AlreadyEscalated(s, i)
    BY <2>3 DEF EscalatedWith, AlreadyEscalated
  <2> QED
    BY <2>1, <2>2, <2>3, <2>4 DEF Class, ClassWith
<1> DEFINE classes == [i \in Past |-> Class(s, i)]
<1>5. \A i \in Past : classes[i] = ClassWith(s, Q, i)
  BY <1>4
<1>6. /\ Inspect(s).valid <=>
            /\ WellFormed[s]
            /\ \A i \in Past : classes[i] \notin {"error", "conflict"}
            /\ active # 0 /\ NewlyRequired(s) # {} => ExamplesHold[s]
      /\ Inspect(s).changes = {<<i, Compared(i)>> : i \in {j \in Past : classes[j] = "change"}}
  BY DEF Inspect
<1> HIDE DEF classes
<1>7. {j \in Past : classes[j] = "change"} = {j \in PastWith(Q) : ClassWith(s, Q, j) = "change"}
  BY <1>3, <1>5
<1>8. Inspect(s).valid <=> ValidWith(s, Q)
  BY <1>3, <1>5, <1>6 DEF ValidWith
<1>9. Inspect(s).changes = ChangesWith(s, Q)
  BY <1>6, <1>7 DEF ChangesWith
<1> QED
  BY <1>1, <1>8, <1>9

(* It depends on nothing but the histories, the loads and the published versions. *)
LEMMA WithStays ==
    ASSUME NEW s, NEW Q, UNCHANGED <<history, loads, versions, active>>
    PROVE  /\ ValidWith(s, Q)' <=> ValidWith(s, Q)
           /\ ChangesWith(s, Q)' = ChangesWith(s, Q)
<1>1. ActiveSnapshot' = ActiveSnapshot /\ NewlyRequired(s)' = NewlyRequired(s)
  BY DEF ActiveSnapshot, NewlyRequired, Published
<1>2. \A i : /\ EngineRows(i)' = EngineRows(i) /\ Compared(i)' = Compared(i)
             /\ (HasDecision(i)' <=> HasDecision(i)) /\ Latest(i)' = Latest(i)
  BY DEF EngineRows, Compared, HasDecision, Latest
<1>3. PastWith(Q)' = PastWith(Q)
  BY <1>2 DEF PastWith
<1>4. CurrentLoads' = CurrentLoads
  BY DEF CurrentLoads, Named
<1>5. \A i : VerdictWith(s, Q, i)' = VerdictWith(s, Q, i)
  BY <1>4 DEF VerdictWith, Evaluate, Tables, Gap
<1>6. \A i : OldGapWith(s, Q, i)' = OldGapWith(s, Q, i)
  BY <1>1 DEF OldGapWith, Gap
<1>7. \A i : EscalatedWith(s, Q, i)' <=> EscalatedWith(s, Q, i)
  BY <1>2, <1>6 DEF EscalatedWith
<1>8. \A i : ClassWith(s, Q, i)' = ClassWith(s, Q, i)
  BY <1>2, <1>5, <1>6, <1>7 DEF ClassWith, Gap
<1>9. {j \in PastWith(Q) : ClassWith(s, Q, j) = "change"}'
      = {j \in PastWith(Q) : ClassWith(s, Q, j) = "change"}
  BY <1>3, <1>8
<1> QED
  BY <1>1, <1>2, <1>3, <1>8, <1>9 DEF ValidWith, ChangesWith

\* Nothing is read of a document that is no case.
AbsentUnread == \A i \in Instances : ~Exists(i) => cases[i].reading = NoReading

\* All the readings, from those a capture took.
Full(R) == [i \in Instances |-> IF i \in DOMAIN R THEN R[i] ELSE NoReading]
LengthsNow == [i \in Instances |-> Len(history[i])]

\* A valid report was made of what its capture names: while no decision, load or version
\* was added, the same inspection of the same readings gives it again.
Sound(report) ==
    /\ \A i \in Instances : report.inputs.decisions[i] \in 0..Len(history[i])
    /\ report.inputs.source_ids \subseteq DOMAIN loads
    /\ report.inputs.decisions = LengthsNow /\ report.inputs.source_ids = CurrentLoads =>
          /\ ValidWith(report.snapshot, Full(report.inputs.readings))
          /\ report.changes = ChangesWith(report.snapshot, Full(report.inputs.readings))
EvidenceInv ==
    /\ AbsentUnread
    /\ draft.validation.valid /\ draft.base = active => Sound(draft.validation)

LEMMA AbsentStep ==
    ASSUME IInv, AbsentUnread, [Next]_vars
    PROVE  AbsentUnread'
<1>1. cases \in [Instances -> Case]
  BY DEF IInv, TypeOK, CasesOK
<1>2. CASE UNCHANGED cases
  BY <1>2 DEF AbsentUnread, Exists
<1>3. ASSUME NEW i \in Instances, NEW reading \in Readings \union {NoReading},
             Upload(i, reading) \/ Reextract(i, reading)
      PROVE  AbsentUnread'
  <2>1. PICK new : new \in {Attached(cases[i], reading), [cases[i] EXCEPT !.reading = reading]}
                   /\ cases' = [cases EXCEPT ![i] = new] /\ new.status # "ABSENT"
    <3>1. CASE Upload(i, reading)
      <4>1. cases' = [cases EXCEPT ![i] = Attached(cases[i], reading)]
        BY <1>1, <3>1 DEF Upload
      <4>2. Attached(cases[i], reading).status # "ABSENT"
        BY <1>1 DEF Attached, Case
      <4> QED
        BY <4>1, <4>2
    <3>2. CASE Reextract(i, reading)
      <4>1. PICK new : new = [cases[i] EXCEPT !.reading = reading]
        OBVIOUS
      <4>2. new.status = cases[i].status /\ cases[i].status = "PENDING"
        BY <1>1, <3>2, <4>1 DEF Reextract, Case
      <4>3. cases' = [cases EXCEPT ![i] = new]
        BY <1>1, <3>2, <4>1 DEF Reextract
      <4> QED
        BY <4>1, <4>2, <4>3
    <3> QED
      BY <1>3, <3>1, <3>2
  <2>2. \A j \in Instances : cases'[j] = IF j = i THEN new ELSE cases[j]
    BY <1>1, <2>1
  <2> QED
    BY <2>1, <2>2 DEF AbsentUnread, Exists
<1>4. ASSUME NEW c \in Clients, ExecuteRun(c) \/ ExecuteReprocess(c) PROVE AbsentUnread'
  <2>1. PICK who \in SUBSET Instances :
           Decide(c, who, CapturedInputs(ActiveSnapshot, calls[c].down))
    BY <1>4, DecisionKinds
  <2>2. \A j \in Instances :
           cases'[j] = IF j \in who THEN [cases[j] EXCEPT !.status = "DECIDED"] ELSE cases[j]
    BY <2>1 DEF Decide
  <2>3. \A j \in who : [cases[j] EXCEPT !.status = "DECIDED"].status = "DECIDED"
    BY <1>1 DEF Case
  <2> QED
    BY <2>2, <2>3 DEF AbsentUnread, Exists
<1>5. ASSUME NEW person \in People, NEW i \in Instances, NEW type \in Types, NEW named,
             Resolve(person, i, type, named)
      PROVE  AbsentUnread'
  <2>1. PICK new : new = [cases[i] EXCEPT !.status = "DECIDED"]
    OBVIOUS
  <2>2. cases' = [cases EXCEPT ![i] = new] /\ new.status = "DECIDED"
    <3>1. cases' = [cases EXCEPT ![i].status = "DECIDED"]
      BY <1>5 DEF Resolve
    <3> QED
      BY <1>1, <2>1, <3>1 DEF Case
  <2>3. \A j \in Instances : cases'[j] = IF j = i THEN new ELSE cases[j]
    BY <1>1, <2>2
  <2> QED
    BY <2>2, <2>3 DEF AbsentUnread, Exists
<1>6. CASE CasesNext
  BY <1>3, <1>6 DEF CasesNext
<1>7. CASE SourcesNext
  <2>1. UNCHANGED caseVars
    BY <1>7 DEF SourcesNext, ChangeWorld, StartSync, Download, DownloadFails, CommitLoad,
                LoadWorkbook
  <2> QED
    BY <1>2, <2>1 DEF caseVars
<1>8. CASE AlertsNext
  <2>1. UNCHANGED caseVars
    BY <1>8 DEF AlertsNext, Recheck, DryRun, InsertAlerts, RecheckFails, DetectFails, Ack
  <2> QED
    BY <1>2, <2>1 DEF caseVars
<1>9. CASE VersionsNext
  <2>1. UNCHANGED caseVars
    BY <1>9 DEF VersionsNext, ReadDraft, Validate, Discard, Publish, EditDraft, Stage
  <2> QED
    BY <1>2, <2>1 DEF caseVars
<1>10. CASE ProposalsNext \/ \E c \in Clients : Crash(c)
  <2>1. UNCHANGED caseVars
    BY <1>10 DEF ProposalsNext, Ask, Answer, Store, AgentFails, Reject, Crash
  <2> QED
    BY <1>2, <2>1 DEF caseVars
<1>11. CASE DecisionsNext
  <2>1. ASSUME NEW c \in Clients, NEW all \in BOOLEAN, NEW selection \in SUBSET Instances,
               NEW key \in Keys \union {NoKey},
               StartRun(c, all, selection, key) \/ StartReprocess(c, all, selection) \/ Turned(c)
        PROVE  UNCHANGED caseVars
    BY <2>1 DEF StartRun, StartReprocess, Turned
  <2> QED
    BY <1>2, <1>4, <1>5, <1>11, <2>1 DEF DecisionsNext, caseVars
<1>12. CASE UNCHANGED vars
  BY <1>2, <1>12 DEF vars, caseVars
<1> QED
  BY <1>6, <1>7, <1>8, <1>9, <1>10, <1>11, <1>12 DEF Next

(* Tables that are only appended to and have the same length are the same.      *)
LEMMA NothingAdded ==
    ASSUME IInv, [Next]_vars, NEW report,
           \A i \in Instances : report.inputs.decisions[i] \in 0..Len(history[i]),
           report.inputs.source_ids \subseteq DOMAIN loads,
           report.inputs.decisions = LengthsNow', report.inputs.source_ids = CurrentLoads'
    PROVE  UNCHANGED <<history, loads>>
<1>1. /\ history \in [Instances -> Seq(Row)] /\ history' \in [Instances -> Seq(Row)]
      /\ loads \in Seq(Load) /\ loads' \in Seq(Load)
  <2>1. IInv'
    BY StepInv
  <2> QED
    BY <2>1 DEF IInv, TypeOK, CasesOK, LoadsOK
<1>2. ASSUME NEW i \in Instances PROVE history'[i] = history[i]
  <2>1. Len(history'[i]) <= Len(history[i])
    BY DEF LengthsNow
  <2>2. PICK a, b : a = history[i] /\ b = history'[i] /\ a \in Seq(Row) /\ b \in Seq(Row)
    BY <1>1
  <2>3. \A n \in DOMAIN a : n \in DOMAIN b /\ b[n] = a[n]
    BY <2>2, RowsStay
  <2>4. Len(a) <= Len(b)
    <3>1. CASE Len(a) = 0
      BY <2>2, <3>1
    <3>2. CASE Len(a) # 0
      <4>1. Len(a) \in DOMAIN a
        BY <2>2, <3>2
      <4> QED
        BY <2>2, <2>3, <4>1
    <3> QED
      BY <3>1, <3>2
  <2>5. Len(a) = Len(b) /\ DOMAIN a = 1..Len(a) /\ DOMAIN b = 1..Len(b)
    BY <2>1, <2>2, <2>4
  <2>6. a = [n \in 1..Len(a) |-> a[n]] /\ b = [n \in 1..Len(b) |-> b[n]]
    BY <2>2
  <2>7. a = b
    BY <2>3, <2>5, <2>6
  <2> QED
    BY <2>2, <2>7
<1>3. history' = history
  BY <1>1, <1>2
<1>4. loads' = loads
  <2>1. PICK a, b : a = loads /\ b = loads' /\ a \in Seq(Load) /\ b \in Seq(Load)
    BY <1>1
  <2>2. \A n \in DOMAIN a : n \in DOMAIN b /\ b[n] = a[n]
    BY <2>1, LoadsStay
  <2>3. Len(b) <= Len(a)
    <3> SUFFICES ASSUME Len(b) > Len(a) PROVE FALSE
      BY <2>1
    <3>1. Len(b) \in 1..Len(b)
      BY <2>1
    <3>2. \A m \in 1..Len(b) : m <= Len(b)
      BY <2>1
    <3>3. Len(b) \in CurrentLoads'
      BY <2>1, <3>1, <3>2 DEF CurrentLoads, Named
    <3>4. Len(b) \in DOMAIN a
      BY <2>1, <3>3
    <3> QED
      BY <2>1, <3>4
  <2>4. Len(a) <= Len(b)
    <3>1. CASE Len(a) = 0
      BY <2>1, <3>1
    <3>2. CASE Len(a) # 0
      <4>1. Len(a) \in DOMAIN a
        BY <2>1, <3>2
      <4> QED
        BY <2>1, <2>2, <4>1
    <3> QED
      BY <3>1, <3>2
  <2>5. Len(a) = Len(b) /\ DOMAIN a = 1..Len(a) /\ DOMAIN b = 1..Len(b)
    BY <2>1, <2>3, <2>4
  <2>6. a = [n \in 1..Len(a) |-> a[n]] /\ b = [n \in 1..Len(b) |-> b[n]]
    BY <2>1
  <2>7. a = b
    BY <2>2, <2>5, <2>6
  <2> QED
    BY <2>1, <2>7
<1> QED
  BY <1>3, <1>4

LEMMA SoundStays ==
    ASSUME IInv, [Next]_vars, UNCHANGED <<versions, active>>, NEW report, Sound(report)
    PROVE  Sound(report)'
<1>1. \A i \in Instances : report.inputs.decisions[i] \in 0..Len(history'[i])
  <2> SUFFICES ASSUME NEW i \in Instances PROVE report.inputs.decisions[i] \in 0..Len(history'[i])
    OBVIOUS
  <2>1. PICK a, b : a = history[i] /\ b = history'[i] /\ a \in Seq(Row) /\ b \in Seq(Row)
    BY StepInv DEF IInv, TypeOK, CasesOK
  <2>2. \A n \in DOMAIN a : n \in DOMAIN b
    BY <2>1, RowsStay
  <2>3. Len(a) <= Len(b)
    <3>1. CASE Len(a) = 0
      BY <2>1, <3>1
    <3>2. CASE Len(a) # 0
      <4>1. Len(a) \in DOMAIN a
        BY <2>1, <3>2
      <4> QED
        BY <2>1, <2>2, <4>1
    <3> QED
      BY <3>1, <3>2
  <2>4. report.inputs.decisions[i] \in 0..Len(a)
    BY <2>1 DEF Sound
  <2> QED
    BY <2>1, <2>3, <2>4
<1>2. report.inputs.source_ids \subseteq DOMAIN loads'
  BY LoadsStay DEF Sound
<1>3. ASSUME report.inputs.decisions = LengthsNow', report.inputs.source_ids = CurrentLoads'
      PROVE  /\ ValidWith(report.snapshot, Full(report.inputs.readings))'
             /\ report.changes = ChangesWith(report.snapshot, Full(report.inputs.readings))'
  <2>1. UNCHANGED <<history, loads>>
    BY <1>3, NothingAdded DEF Sound
  <2>2. report.inputs.decisions = LengthsNow /\ report.inputs.source_ids = CurrentLoads
    BY <1>3, <2>1 DEF LengthsNow, CurrentLoads, Named
  <2>3. PICK s, Q : s = report.snapshot /\ Q = Full(report.inputs.readings)
    OBVIOUS
  <2>4. ValidWith(s, Q) /\ report.changes = ChangesWith(s, Q)
    BY <2>2, <2>3 DEF Sound
  <2>5. ValidWith(s, Q)' /\ report.changes = ChangesWith(s, Q)'
    BY <2>1, <2>4, WithStays
  <2> QED
    BY <2>3, <2>5 DEF Full
<1> QED
  BY <1>1, <1>2, <1>3 DEF Sound

LEMMA CaptureIsFull ==
    ASSUME CasesOK, AbsentUnread
    PROVE  Full(Capture.readings) = ReadingsNow
<1>1. PICK R : R = [i \in {j \in Instances : Exists(j)} |-> cases[i].reading]
  OBVIOUS
<1>2. Capture.readings = R
  BY <1>1 DEF Capture
<1>3. ASSUME NEW i \in Instances
      PROVE  (IF i \in DOMAIN R THEN R[i] ELSE NoReading) = cases[i].reading
  BY <1>1 DEF AbsentUnread
<1>4. Full(R) = [i \in Instances |-> cases[i].reading]
  BY <1>3 DEF Full
<1> QED
  BY <1>2, <1>4 DEF ReadingsNow

LEMMA EvidenceStep ==
    ASSUME IInv, EvidenceInv, [Next]_vars
    PROVE  EvidenceInv'
<1>1. AbsentUnread'
  BY AbsentStep DEF EvidenceInv
<1>2. ASSUME UNCHANGED <<draft, versions, active>> PROVE EvidenceInv'
  <2>1. PICK report : report = draft.validation /\ report = draft'.validation
    BY <1>2
  <2>2. ASSUME report.valid, draft.base = active PROVE Sound(report)'
    BY <1>2, <2>1, <2>2, SoundStays DEF EvidenceInv
  <2>3. ASSUME draft'.validation.valid, draft'.base = active' PROVE Sound(draft.validation)'
    <3>1. Sound(report)'
      BY <1>2, <2>1, <2>2, <2>3
    <3> QED
      BY <2>1, <3>1 DEF Sound
  <2> QED
    BY <1>1, <2>3 DEF EvidenceInv
<1>3. ASSUME ~draft'.validation.valid PROVE EvidenceInv'
  BY <1>1, <1>3 DEF EvidenceInv
<1>4. ASSUME NEW c \in Clients, Validate(c) PROVE EvidenceInv'
  <2>1. PICK report : report =
              [valid |-> Inspect(draft.snapshot).valid, changes |-> Inspect(draft.snapshot).changes,
               inputs |-> Capture, snapshot |-> draft.snapshot, revision |-> draft.revision]
    OBVIOUS
  <2>2. draft'.validation = report /\ UNCHANGED <<cases, history, loads, versions, active>>
    BY <1>4, <2>1 DEF Validate, caseVars, sourceVars, IInv, TypeOK, VersionsOK, Drafts
  <2>3. PICK s, Q : s = draft.snapshot /\ Q = ReadingsNow
    OBVIOUS
  <2>4. Full(report.inputs.readings) = Q /\ report.snapshot = s
    BY <2>1, <2>3, CaptureIsFull DEF EvidenceInv, IInv, TypeOK
  <2>5. report.valid => ValidWith(s, Q)
    BY <2>1, <2>3, InspectIsWith DEF IInv, TypeOK
  <2>6. report.changes = ChangesWith(s, Q)
    BY <2>1, <2>3, InspectIsWith DEF IInv, TypeOK
  <2>7. /\ ValidWith(s, Q)' <=> ValidWith(s, Q)
        /\ ChangesWith(s, Q)' = ChangesWith(s, Q)
    BY <2>2, WithStays
  <2>8. ASSUME report.valid PROVE Sound(report)'
    <3>1. \A i \in Instances : report.inputs.decisions[i] = Len(history[i]) /\ Len(history[i]) \in Nat
      BY <2>1 DEF Capture, IInv, TypeOK, CasesOK
    <3>2. report.inputs.source_ids \subseteq DOMAIN loads
      BY <2>1 DEF Capture, CurrentLoads, IInv, TypeOK, LoadsOK
    <3>3. ValidWith(report.snapshot, Full(report.inputs.readings))'
      BY <2>4, <2>5, <2>7, <2>8 DEF Full
    <3>4. report.changes = ChangesWith(report.snapshot, Full(report.inputs.readings))'
      BY <2>4, <2>6, <2>7 DEF Full
    <3>5. \A i \in Instances : report.inputs.decisions[i] \in 0..Len(history'[i])
      BY <2>2, <3>1
    <3> QED
      BY <2>2, <3>2, <3>3, <3>4, <3>5 DEF Sound
  <2>9. ASSUME draft'.validation.valid, draft'.base = active' PROVE Sound(draft.validation)'
    <3>1. Sound(report)'
      BY <2>2, <2>8, <2>9
    <3> QED
      BY <2>2, <3>1 DEF Sound
  <2> QED
    BY <1>1, <2>9 DEF EvidenceInv
<1>5. CASE VersionsNext
  <2>1. ASSUME NEW c \in Clients, NEW s \in Snapshots, EditDraft(c, s) PROVE EvidenceInv'
    <3>1. ~draft'.validation.valid
      BY <2>1 DEF EditDraft, Staged, NoValidation
    <3> QED
      BY <1>3, <3>1
  <2>2. ASSUME NEW s \in Snapshots, Stage(s) PROVE EvidenceInv'
    <3>1. ~draft'.validation.valid
      BY <2>2 DEF Stage, Staged, NoValidation
    <3> QED
      BY <1>3, <3>1
  <2>3. ASSUME NEW c \in Clients, Discard(c) \/ Publish(c) PROVE EvidenceInv'
    <3>1. ~draft'.validation.valid
      BY <2>3 DEF Discard, Publish, NoDraft, NoValidation
    <3> QED
      BY <1>3, <3>1
  <2>4. ASSUME NEW c \in Clients, ReadDraft(c) PROVE EvidenceInv'
    BY <1>2, <2>4 DEF ReadDraft
  <2> QED
    BY <1>4, <1>5, <2>1, <2>2, <2>3, <2>4 DEF VersionsNext
<1>6. CASE CasesNext \/ AlertsNext \/ DecisionsNext \/ SourcesNext
  <2>1. UNCHANGED versionVars
    BY <1>6 DEF CasesNext, Upload, Reextract, AlertsNext, Recheck, DryRun,
                InsertAlerts, RecheckFails, DetectFails, Ack, DecisionsNext, StartRun,
                StartReprocess, Turned, ExecuteRun, ExecuteReprocess, Resolve, SourcesNext,
                ChangeWorld, StartSync, Download, DownloadFails, CommitLoad, LoadWorkbook
  <2> QED
    BY <1>2, <2>1 DEF versionVars
<1>7. CASE ProposalsNext \/ (\E c \in Clients : Crash(c)) \/ UNCHANGED vars
  <2>1. UNCHANGED versionVars
    BY <1>7 DEF ProposalsNext, Ask, Answer, Store, AgentFails, Reject, Crash, vars
  <2> QED
    BY <1>2, <2>1 DEF versionVars
<1> QED
  BY <1>5, <1>6, <1>7 DEF Next

LEMMA EvidencePublished ==
    ASSUME IInv, EvidenceInv, [Next]_vars, Len(versions') > Len(versions)
    PROVE  LET version == versions'[Len(versions')]
               report == Inspect(version.snapshot)
           IN  report.valid /\ report.changes = version.changes
<1>1. PICK c \in Clients : Publish(c)
  BY OnlyPublish
<1>2. PICK row : row = [snapshot |-> draft.snapshot, parent |-> active, author |-> c,
                        changes |-> draft.validation.changes]
  OBVIOUS
<1>3. versions' = Append(versions, row) /\ Approved(c) /\ StillCurrent
  BY <1>1, <1>2 DEF Publish
<1>4. versions'[Len(versions')] = row
  BY <1>3, AppendKeeps DEF IInv, TypeOK, VersionsOK
<1>5. PICK report : report = draft.validation
  OBVIOUS
<1>6. /\ Sound(report) /\ report.inputs = Capture /\ report.snapshot = draft.snapshot
  BY <1>3, <1>5 DEF EvidenceInv, Approved, StillCurrent
<1>7. report.inputs.decisions = LengthsNow /\ report.inputs.source_ids = CurrentLoads
      /\ Full(report.inputs.readings) = ReadingsNow
  BY <1>6, CaptureIsFull DEF Capture, LengthsNow, EvidenceInv, IInv, TypeOK
<1>8. ValidWith(draft.snapshot, ReadingsNow)
      /\ report.changes = ChangesWith(draft.snapshot, ReadingsNow)
  BY <1>6, <1>7 DEF Sound
<1>9. Inspect(draft.snapshot).valid /\ Inspect(draft.snapshot).changes = report.changes
  BY <1>8, InspectIsWith DEF IInv, TypeOK
<1> QED
  BY <1>2, <1>4, <1>5, <1>9

(* When a version is published its validation report is still what an           *)
(* inspection of the candidate would say at that moment. The digest compared     *)
(* under the lock names lengths and ids only; that it is enough rests on tables  *)
(* nobody edits, and on a document that is no case having no reading.            *)
THEOREM ProcessEvidence == Spec => PublishedOnCurrentEvidence
<1>1. IInv /\ EvidenceInv /\ [Next]_vars => (IInv /\ EvidenceInv)'
  BY StepInv, EvidenceStep
<1>2. Init => IInv /\ EvidenceInv
  <2>1. Init => EvidenceInv
    BY DEF Init, EvidenceInv, AbsentUnread, NoDraft, NoValidation
  <2> QED
    BY <2>1, InitInv
<1>3. IInv /\ EvidenceInv /\ [Next]_vars =>
        [Len(versions') > Len(versions) =>
            LET version == versions'[Len(versions')]
                report == Inspect(version.snapshot)
            IN  report.valid /\ report.changes = version.changes]_vars
  BY EvidencePublished
<1> QED
  BY <1>1, <1>2, <1>3, PTL DEF Spec, PublishedOnCurrentEvidence

-----------------------------------------------------------------------------
\* No missed alert

\* Where alerts/service.py keeps its word. Requests come one at a time, and a source that
\* rules read and no run syncs was loaded before the first decision: the first load of a
\* source is compared with nothing.
Serial == \A c, d \in Clients : c = d \/ Idle(c) \/ Idle(d)
ReadsLoaded ==
    (\E i \in Instances : HasDecision(i)) =>
        \A name \in Reads[ActiveSnapshot] \ Live : Named(name) # {}

\* No request fails on the way, and no person decides: neither is followed by a dry run.
NothingFails == Ops \intersect {"failures", "outage", "crash"} = {}
NobodyResolves == "resolve" \notin Ops

\* Rules read the case they decide and the sources they name, nothing else: an upload is
\* not followed by a dry run either.
Readable == [Instances -> Readings \union {NoReading}]
Loadable == [Sources -> Contents \union {NoRows}]
RulesReadTheirOwn ==
    \A s \in Snapshots, i \in Instances, down \in SUBSET Sources :
        \A R, Q \in Readable, T, U \in Loadable :
            R[i] = Q[i] /\ (\A name \in Reads[s] : T[name] = U[name])
            => RunRules(s, R, T, down, i) = RunRules(s, Q, U, down, i)

\* An alert tells what the engine would now decide, or there is nothing to tell.
Flagged(i) ==
    \/ VerdictNow(i) = Latest(i).decision
    \/ \E a \in alerts : /\ a.instance = i /\ a.after = VerdictNow(i)
                         /\ a.decision = Len(history[i])
AllFlagged == \A i \in Decidable : Flagged(i)

\* The request will flag all that is to be flagged, if it goes on.
Due(call) ==
    \/ call.pc = "recheck" /\ \E name \in call.names : Changed(name)
    \/ call.pc = "dryrun"
    \/ call.pc = "insert" /\ call.flips = Flips

NoneDown == \A c \in Clients : calls[c].down = {}
LiveLoaded == (\E i \in Instances : HasDecision(i)) => \A name \in Live : Named(name) # {}
AlertInv == NoneDown /\ LiveLoaded /\ (AllFlagged \/ \E c \in Clients : Due(calls[c]))

-----------------------------------------------------------------------------
\* What the engine would now decide depends on

LastRows(name) == loads[LastOf(Named(name))].rows
ReadsAll == active # 0 /\ \A name \in Reads[ActiveSnapshot] : Named(name) # {}

(* The table of a source is its last load.                                      *)
LEMMA TableIsLast ==
    ASSUME LoadsOK, NEW name \in Sources, Named(name) # {}
    PROVE  Tables({n \in CurrentLoads : loads[n].name \notin {}})[name] = LastRows(name)
<1>1. loads \in Seq(Load) /\ Len(loads) \in Nat
  BY DEF LoadsOK
<1>2. Named(name) \in SUBSET (1..Len(loads))
  BY DEF Named
<1>3. PICK last : /\ last = LastOf(Named(name)) /\ last \in Named(name)
                  /\ \A m \in Named(name) : m <= last
  BY <1>1, <1>2, LastExists
<1>4. PICK ids : ids = {n \in CurrentLoads : loads[n].name \notin {}}
  OBVIOUS
<1>5. last \in ids /\ loads[last].name = name
  BY <1>3, <1>4 DEF CurrentLoads, Named
<1>6. ASSUME NEW n \in ids, loads[n].name = name PROVE n = last
  <2>1. n \in Named(name) /\ \A m \in Named(name) : m <= n
    BY <1>4, <1>6 DEF CurrentLoads, Named
  <2>2. n <= last /\ last <= n /\ n \in Int /\ last \in Int
    BY <1>2, <1>3, <2>1
  <2> QED
    BY <2>2
<1>7. (CHOOSE n \in ids : loads[n].name = name) = last
  BY <1>5, <1>6
<1>8. Tables(ids)[name] = loads[last].rows
  BY <1>5, <1>7 DEF Tables
<1> QED
  BY <1>3, <1>4, <1>8 DEF LastRows

\* The verdict on a case once all that rules read was loaded: its reading and the last rows
\* of each source they name.
VerdictForm(i) ==
    \E R \in Readable, T \in Loadable :
        LET ran == RunRules(ActiveSnapshot, R, T, {}, i)
        IN  /\ R[i] = cases[i].reading
            /\ \A name \in Reads[ActiveSnapshot] : T[name] = LastRows(name)
            /\ VerdictNow(i) = IF Gap(ActiveSnapshot, R[i]) # {} \/ ran.failed
                               THEN Escalation[ActiveSnapshot] ELSE ran.decision

LEMMA ActiveIs ==
    ASSUME IInv, active # 0
    PROVE  active \in DOMAIN versions /\ ActiveSnapshot \in Snapshots
<1>1. versions \in Seq(Version) /\ active = Len(versions)
  BY DEF IInv, TypeOK, VersionsOK
<1>2. active \in DOMAIN versions /\ versions[active] \in Version
  BY <1>1
<1> QED
  BY <1>2 DEF ActiveSnapshot, Version

VerdictForms == \A i \in Instances : VerdictForm(i)

LEMMA VerdictIs == IInv /\ ReadsAll => VerdictForms
<1> SUFFICES ASSUME IInv, ReadsAll, NEW i \in Instances PROVE VerdictForm(i)
  BY DEF VerdictForms
<1>1. PICK s : s = ActiveSnapshot /\ s \in Snapshots
  BY ActiveIs DEF ReadsAll
<1>2. NeverLoaded(s) = {}
  BY <1>1 DEF NeverLoaded, ReadsAll
<1>3. PICK ids : ids = {n \in CurrentLoads : loads[n].name \notin {}}
  OBVIOUS
<1>4. CapturedInputs(s, {}) = [readings |-> ReadingsNow, source_ids |-> ids, down |-> {}]
  BY <1>2, <1>3 DEF CapturedInputs
<1>5. PICK R : R = ReadingsNow /\ R \in Readable
  <2>1. ASSUME NEW j \in Instances PROVE cases[j].reading \in Readings \union {NoReading}
    BY DEF IInv, TypeOK, CasesOK, Case
  <2>2. ReadingsNow \in Readable
    BY <2>1 DEF ReadingsNow, Readable
  <2> QED
    BY <2>2
<1>6. PICK T : T = Tables(ids) /\ T \in Loadable
  <2>1. ids \in SUBSET (DOMAIN loads)
    BY <1>3 DEF CurrentLoads, IInv, TypeOK, LoadsOK
  <2> QED
    BY <2>1, TablesType DEF Loadable, IInv, TypeOK
<1>7. R[i] = cases[i].reading
  BY <1>5 DEF ReadingsNow
<1>8. ASSUME NEW name \in Reads[s] PROVE T[name] = LastRows(name)
  <2>1. name \in Sources /\ Named(name) # {}
    BY <1>1, ProcessAssumption DEF ReadsAll
  <2> QED
    BY <1>3, <1>6, <2>1, TableIsLast DEF IInv, TypeOK
<1>9. VerdictNow(i) = IF Gap(s, R[i]) # {} \/ RunRules(s, R, T, {}, i).failed
                      THEN Escalation[s] ELSE RunRules(s, R, T, {}, i).decision
  BY <1>1, <1>4, <1>5, <1>6 DEF VerdictNow, Evaluate
<1> QED
  BY <1>1, <1>5, <1>6, <1>7, <1>8, <1>9 DEF VerdictForm

LEMMA VerdictIsNext == IInv' /\ ReadsAll' => VerdictForms'
  BY VerdictIs, PTL

(* A step that leaves the reading of a case, the version and the last rows of   *)
(* what its rules read leaves the verdict on the case.                          *)
LEMMA VerdictStays ==
    ASSUME RulesReadTheirOwn, IInv, IInv', ReadsAll, ReadsAll', NEW i \in Instances,
           cases'[i].reading = cases[i].reading, ActiveSnapshot' = ActiveSnapshot,
           \A name \in Reads[ActiveSnapshot] : LastRows(name)' = LastRows(name)
    PROVE  VerdictNow(i)' = VerdictNow(i)
<1>1. VerdictForm(i)
  BY VerdictIs DEF VerdictForms
<1>2. VerdictForm(i)'
  BY VerdictIsNext DEF VerdictForms
<1>3. PICK s : s = ActiveSnapshot /\ s \in Snapshots
  BY ActiveIs DEF ReadsAll
<1>4. PICK R \in Readable, T \in Loadable :
         /\ R[i] = cases[i].reading /\ \A name \in Reads[s] : T[name] = LastRows(name)
         /\ VerdictNow(i) = IF Gap(s, R[i]) # {} \/ RunRules(s, R, T, {}, i).failed
                            THEN Escalation[s] ELSE RunRules(s, R, T, {}, i).decision
  BY <1>1, <1>3 DEF VerdictForm
<1>5. PICK Q \in Readable, U \in Loadable :
         /\ Q[i] = cases'[i].reading /\ \A name \in Reads[s] : U[name] = LastRows(name)'
         /\ VerdictNow(i)' = IF Gap(s, Q[i]) # {} \/ RunRules(s, Q, U, {}, i).failed
                             THEN Escalation[s] ELSE RunRules(s, Q, U, {}, i).decision
  BY <1>2, <1>3 DEF VerdictForm, Gap
<1>6. R[i] = Q[i] /\ \A name \in Reads[s] : T[name] = U[name]
  BY <1>3, <1>4, <1>5
<1>7. {} \in SUBSET Sources
  OBVIOUS
<1>8. RunRules(s, R, T, {}, i) = RunRules(s, Q, U, {}, i)
  <2>1. \A A, B \in Readable, C, D \in Loadable :
           A[i] = B[i] /\ (\A name \in Reads[s] : C[name] = D[name])
           => RunRules(s, A, C, {}, i) = RunRules(s, B, D, {}, i)
    BY <1>3, <1>7, Zenon DEF RulesReadTheirOwn
  <2>2. R \in Readable /\ Q \in Readable /\ T \in Loadable /\ U \in Loadable
    BY <1>4, <1>5
  <2> QED
    BY <1>6, <2>1, <2>2, Zenon
<1> QED
  BY <1>4, <1>5, <1>6, <1>8

-----------------------------------------------------------------------------
\* A step that adds no decision, load or version

OtherCases ==
    \A i \in Instances :
        cases[i].status = "DECIDED" \/ cases'[i].status = "DECIDED" => cases'[i] = cases[i]
AlertsKept == \A a \in alerts : \E b \in alerts' : SameAlert(a, b)
Quiet == UNCHANGED <<history, loads, versions, active>> /\ OtherCases /\ AlertsKept

LEMMA LoadedAll ==
    ASSUME IInv, LiveLoaded, ReadsLoaded, NEW i \in Instances, HasDecision(i)
    PROVE  ReadsAll
<1>1. history[i] \in Seq(Row) /\ history[i] # <<>>
  BY DEF IInv, TypeOK, CasesOK, HasDecision
<1>2. 1 \in DOMAIN history[i]
  BY <1>1
<1>3. history[i][1].version \in DOMAIN versions /\ versions \in Seq(Version)
  BY <1>2 DEF IInv, TypeOK, RowsOK, VersionsOK
<1>4. active # 0
  BY <1>3 DEF IInv, TypeOK, VersionsOK
<1> QED
  BY <1>4 DEF ReadsAll, LiveLoaded, ReadsLoaded

LEMMA DecidableHas == ASSUME IInv, NEW i \in Decidable PROVE i \in Instances /\ HasDecision(i)
  BY DEF Decidable, IInv, DecidedHasHistory

LEMMA QuietVerdicts ==
    ASSUME RulesReadTheirOwn, IInv, IInv', LiveLoaded, ReadsLoaded, Quiet, NEW i \in Decidable
    PROVE  VerdictNow(i)' = VerdictNow(i)
<1>1. i \in Instances /\ HasDecision(i)
  BY DecidableHas
<1>2. ReadsAll
  BY <1>1, LoadedAll
<1>3. /\ \A name : Named(name)' = Named(name) /\ LastRows(name)' = LastRows(name)
      /\ ActiveSnapshot' = ActiveSnapshot
  BY DEF Quiet, Named, LastRows, ActiveSnapshot
<1>4. ReadsAll'
  BY <1>2, <1>3 DEF ReadsAll, Quiet
<1>5. cases'[i] = cases[i]
  BY <1>1 DEF Quiet, OtherCases, Decidable
<1> QED
  BY <1>1, <1>2, <1>3, <1>4, <1>5, VerdictStays

LEMMA QuietFlags ==
    ASSUME RulesReadTheirOwn, IInv, IInv', LiveLoaded, ReadsLoaded, Quiet
    PROVE  /\ LiveLoaded' /\ Flips' = Flips
           /\ AllFlagged => AllFlagged'
           /\ \A call : Due(call) => Due(call)'
<1>1. Decidable' = Decidable
  BY DEF Decidable, Quiet, OtherCases
<1>2. \A i \in Decidable : VerdictNow(i)' = VerdictNow(i)
  BY QuietVerdicts
<1>3. \A i \in Decidable : Latest(i)' = Latest(i) /\ Len(history'[i]) = Len(history[i])
  BY DEF Latest, Quiet
<1>4. Flips' = Flips
  <2>1. PICK v, w, k, l : /\ v = [i \in Decidable |-> VerdictNow(i)]
                          /\ w = [i \in Decidable |-> VerdictNow(i)']
                          /\ k = [i \in Decidable |-> Latest(i)]
                          /\ l = [i \in Decidable |-> Latest(i)']
    OBVIOUS
  <2>2. v = w /\ k = l
    BY <1>2, <1>3, <2>1
  <2>3. PICK D : D = Decidable
    OBVIOUS
  <2>4. Flips = {[instance |-> i, before |-> k[i].decision, after |-> v[i]] :
                    i \in {j \in D : v[j] # k[j].decision}}
    BY <2>1, <2>3 DEF Flips
  <2>5. Flips' = {[instance |-> i, before |-> l[i].decision, after |-> w[i]] :
                    i \in {j \in D : w[j] # l[j].decision}}
    BY <1>1, <2>1, <2>3 DEF Flips
  <2> QED
    BY <2>2, <2>4, <2>5
<1>5. ASSUME NEW i \in Decidable, Flagged(i) PROVE Flagged(i)'
  <2>1. CASE VerdictNow(i) = Latest(i).decision
    BY <1>2, <1>3, <2>1 DEF Flagged
  <2>2. CASE \E a \in alerts : /\ a.instance = i /\ a.after = VerdictNow(i)
                               /\ a.decision = Len(history[i])
    BY <1>2, <1>3, <2>2 DEF Flagged, Quiet, AlertsKept, SameAlert
  <2> QED
    BY <1>5, <2>1, <2>2 DEF Flagged
<1>6. AllFlagged => AllFlagged'
  BY <1>1, <1>5 DEF AllFlagged
<1>7. ASSUME NEW call, Due(call) PROVE Due(call)'
  <2>1. \A name : Changed(name)' <=> Changed(name)
    BY DEF Changed, Named, Quiet
  <2> QED
    BY <1>4, <1>7, <2>1 DEF Due
<1>8. LiveLoaded'
  BY DEF LiveLoaded, HasDecision, Named, Quiet
<1> QED
  BY <1>4, <1>6, <1>7, <1>8

(* What remains to be shown of a quiet step of a request: it owes nothing, or   *)
(* what it owed is done or still due.                                           *)
LEMMA CallMoves ==
    ASSUME RulesReadTheirOwn, IInv, IInv', AlertInv, ReadsLoaded, Quiet, NEW c \in Clients,
           NEW call, calls' = [calls EXCEPT ![c] = call], call.down = {},
           Due(calls[c]) => AllFlagged' \/ Due(call)'
    PROVE  AlertInv'
<1>1. calls' = [d \in Clients |-> IF d = c THEN call ELSE calls[d]]
  BY DEF IInv, TypeOK, CallsOK
<1>2. NoneDown'
  BY <1>1 DEF NoneDown, AlertInv
<1>3. ASSUME NEW d \in Clients, Due(calls[d])
      PROVE  AllFlagged' \/ \E e \in Clients : Due(calls[e])'
  <2>1. CASE d = c
    <3>1. calls'[c] = call
      BY <1>1
    <3>2. Due(call)' => Due(calls[c])'
      BY <3>1 DEF Due
    <3> QED
      BY <1>3, <2>1, <3>2
  <2>2. CASE d # c
    <3>1. PICK other : other = calls[d] /\ other = calls'[d]
      BY <1>1, <2>2
    <3>2. Due(other)'
      BY <1>3, <3>1, QuietFlags DEF AlertInv
    <3>3. Due(calls[d])'
      BY <3>1, <3>2 DEF Due
    <3> QED
      BY <3>3
  <2> QED
    BY <2>1, <2>2
<1> QED
  BY <1>2, <1>3, QuietFlags DEF AlertInv

LEMMA CallsRest ==
    ASSUME RulesReadTheirOwn, IInv, IInv', AlertInv, ReadsLoaded, Quiet, UNCHANGED calls
    PROVE  AlertInv'
<1>1. NoneDown'
  BY DEF NoneDown, AlertInv
<1>2. ASSUME NEW d \in Clients, Due(calls[d]) PROVE Due(calls[d])'
  <2>1. PICK call : call = calls[d] /\ call = calls'[d]
    OBVIOUS
  <2>2. Due(call)'
    BY <1>2, <2>1, QuietFlags DEF AlertInv
  <2> QED
    BY <2>1, <2>2 DEF Due
<1> QED
  BY <1>1, <1>2, QuietFlags DEF AlertInv

LEMMA Unburdened ==
    ASSUME Serial, AlertInv, NEW c \in Clients, ~Idle(c), ~Due(calls[c])
    PROVE  AllFlagged
<1>1. \A d \in Clients : Due(calls[d]) => ~Idle(d)
  BY DEF Due, Idle
<1> QED
  BY <1>1 DEF Serial, AlertInv

LEMMA ResumeOwesNothing ==
    ASSUME NEW call \in Call, call.pc # "idle", call.down = {}
    PROVE  Resume(call).down = {} /\ Resume(call).pc \in {"idle", "execute", "sync"}
  BY ResumeFields DEF NoCall

LEMMA SameAlerts == UNCHANGED alerts => AlertsKept
  BY DEF AlertsKept, SameAlert

LEMMA SameCases == UNCHANGED cases => OtherCases
  BY DEF OtherCases

LEMMA QuietRequest ==
    ASSUME UNCHANGED <<caseVars, sourceVars, alerts>>, UNCHANGED <<versions, active>>
    PROVE  Quiet
  BY SameAlerts, SameCases DEF Quiet, caseVars, sourceVars

\* Every step assumes what the theorem assumes, before and after it.
Scope == RulesReadTheirOwn /\ NothingFails /\ NobodyResolves
Holds == IInv /\ LiveInv /\ AlertInv /\ Serial /\ ReadsLoaded

LEMMA CasesQuiet == ASSUME Scope, Holds, IInv', CasesNext PROVE AlertInv'
<1>1. PICK i \in Instances, reading \in Readings \union {NoReading} : Upload(i, reading) \/ Reextract(i, reading)
  BY DEF CasesNext
<1>2. cases \in [Instances -> Case]
  BY DEF Holds, IInv, TypeOK, CasesOK
<1>3. OtherCases
  <2>1. CASE Upload(i, reading)
    <3>1. cases' = [cases EXCEPT ![i] = Attached(cases[i], reading)]
      BY <1>2, <2>1 DEF Upload
    <3>2. /\ cases[i].status # "ABSENT" => Attached(cases[i], reading) = cases[i]
          /\ cases[i].status = "ABSENT" => Attached(cases[i], reading).status = "PENDING"
      BY DEF Attached
    <3> QED
      BY <1>2, <3>1, <3>2 DEF OtherCases
  <2>2. CASE Reextract(i, reading)
    <3>1. PICK new : new = [cases[i] EXCEPT !.reading = reading]
      OBVIOUS
    <3>2. new.status = "PENDING" /\ cases[i].status = "PENDING"
      BY <1>2, <2>2, <3>1 DEF Reextract, Case
    <3>3. cases' = [cases EXCEPT ![i] = new]
      BY <1>2, <2>2, <3>1 DEF Reextract
    <3> QED
      BY <1>2, <3>2, <3>3 DEF OtherCases
  <2> QED
    BY <1>1, <2>1, <2>2
<1>4. Quiet /\ UNCHANGED calls
  BY <1>1, <1>3, SameAlerts DEF Quiet, Upload, Reextract, versionVars, sourceVars
<1> QED
  BY <1>4, CallsRest DEF Holds, Scope

LEMMA WorldQuiet == ASSUME Scope, Holds, IInv', NEW name, ChangeWorld(name) PROVE AlertInv'
<1>1. Quiet /\ UNCHANGED calls
  BY SameAlerts, SameCases DEF ChangeWorld, Quiet, caseVars, versionVars
<1> QED
  BY <1>1, CallsRest DEF Holds, Scope

LEMMA SyncQuiet ==
    ASSUME Scope, Holds, IInv', NEW c \in Clients,
           (\E name \in Connected : StartSync(c, name)) \/ Download(c) \/ DownloadFails(c)
    PROVE  AlertInv'
<1>1. calls[c] \in Call /\ calls[c].down = {}
  BY DEF Holds, AlertInv, NoneDown, IInv, TypeOK, CallsOK
<1>2. ~DownloadFails(c)
  BY DEF DownloadFails, Scope, NothingFails
<1>3. ASSUME NEW name, StartSync(c, name) PROVE AlertInv'
  <2>1. Quiet /\ ~Due(calls[c])
    BY <1>3, QuietRequest DEF StartSync, versionVars, Due, Idle
  <2>2. PICK call : call = [calls[c] EXCEPT !.op = "sync", !.pc = "sync", !.todo = {name}]
    OBVIOUS
  <2>3. call.down = {}
    BY <1>1, <2>2 DEF Call
  <2>4. calls' = [calls EXCEPT ![c] = call]
    BY <1>3, <2>2 DEF StartSync
  <2> QED
    BY <2>1, <2>3, <2>4, CallMoves DEF Holds, Scope
<1>4. ASSUME Download(c) PROVE AlertInv'
  <2>1. Quiet /\ ~Due(calls[c])
    BY <1>4, QuietRequest DEF Download, versionVars, Due
  <2>2. PICK name, call :
           /\ call = [calls[c] EXCEPT !.pc = "commit", !.todo = @ \ {name}, !.names = {name},
                                      !.fetched = world[name]]
           /\ calls' = [calls EXCEPT ![c] = call]
    BY <1>4 DEF Download
  <2>3. call.down = {}
    BY <1>1, <2>2 DEF Call
  <2> QED
    BY <2>1, <2>2, <2>3, CallMoves DEF Holds, Scope
<1> QED
  BY <1>2, <1>3, <1>4

LEMMA StartQuiet ==
    ASSUME Scope, Holds, IInv', NEW c \in Clients, NEW all, NEW selection,
           \/ \E key : StartRun(c, all, selection, key)
           \/ StartReprocess(c, all, selection)
           \/ Turned(c)
    PROVE  AlertInv'
<1>1. Quiet /\ ~Due(calls[c])
  BY QuietRequest DEF StartRun, StartReprocess, Turned, versionVars, Due, Idle
<1>2. PICK call : calls' = [calls EXCEPT ![c] = call] /\ call.down = {}
  <2>1. NoCall.down = {}
    BY DEF NoCall
  <2>2. ASSUME NEW key, StartRun(c, all, selection, key)
        PROVE  \E call : calls' = [calls EXCEPT ![c] = call] /\ call.down = {}
    <3>1. PICK call : call =
             [NoCall EXCEPT !.op = "run", !.pc = IF Live = {} THEN "execute" ELSE "sync",
                            !.all = all, !.selection = selection, !.key = key, !.todo = Live]
      OBVIOUS
    <3>2. call.down = {}
      BY <3>1 DEF NoCall
    <3>3. calls' = [calls EXCEPT ![c] = call]
      BY <2>2, <3>1 DEF StartRun
    <3> QED
      BY <3>2, <3>3
  <2>3. ASSUME StartReprocess(c, all, selection)
        PROVE  \E call : calls' = [calls EXCEPT ![c] = call] /\ call.down = {}
    <3>1. PICK call : call =
             [NoCall EXCEPT !.op = "reprocess", !.pc = IF Live = {} THEN "execute" ELSE "sync",
                            !.all = all, !.selection = selection, !.todo = Live]
      OBVIOUS
    <3>2. call.down = {}
      BY <3>1 DEF NoCall
    <3>3. calls' = [calls EXCEPT ![c] = call]
      BY <2>3, <3>1 DEF StartReprocess
    <3> QED
      BY <3>2, <3>3
  <2>4. ASSUME Turned(c)
        PROVE  \E call : calls' = [calls EXCEPT ![c] = call] /\ call.down = {}
    BY <2>1, <2>4 DEF Turned
  <2> QED
    BY <2>2, <2>3, <2>4
<1> QED
  BY <1>1, <1>2, CallMoves DEF Holds, Scope

LEMMA ProposalsQuiet == ASSUME Scope, Holds, IInv', ProposalsNext PROVE AlertInv'
<1>1. ASSUME NEW p, Reject(p) PROVE AlertInv'
  <2>1. Quiet /\ UNCHANGED calls
    BY <1>1, QuietRequest DEF Reject, versionVars
  <2> QED
    BY <2>1, CallsRest DEF Holds, Scope
<1>2. ASSUME NEW c \in Clients, NEW i, NEW kind,
             Ask(c, i, kind) \/ Answer(c) \/ Store(c) \/ AgentFails(c)
      PROVE  AlertInv'
  <2>1. calls[c] \in Call /\ calls[c].down = {} /\ NoCall.down = {}
    BY DEF Holds, AlertInv, NoneDown, IInv, TypeOK, CallsOK, NoCall
  <2>2. Quiet /\ ~Due(calls[c])
    BY <1>2, QuietRequest DEF Ask, Answer, Store, AgentFails, versionVars, Due, Idle
  <2>3. PICK call : calls' = [calls EXCEPT ![c] = call] /\ call.down = {}
    <3>1. CASE Ask(c, i, kind)
      <4>1. PICK call : call = [NoCall EXCEPT !.op = kind, !.pc = "asked", !.selection = {i},
                                              !.about = Len(history[i])]
        OBVIOUS
      <4>2. call.down = {}
        BY <4>1 DEF NoCall
      <4>3. calls' = [calls EXCEPT ![c] = call]
        BY <3>1, <4>1 DEF Ask
      <4> QED
        BY <4>2, <4>3
    <3>2. CASE Answer(c)
      <4>1. PICK closing, call : /\ call = [calls[c] EXCEPT !.pc = "answered", !.closing = closing]
                                 /\ calls' = [calls EXCEPT ![c] = call]
                                    \/ calls' = [calls EXCEPT ![c] = NoCall]
        BY <3>2 DEF Answer
      <4>2. call.down = {}
        BY <2>1, <4>1 DEF Call
      <4> QED
        BY <2>1, <4>1, <4>2
    <3>3. CASE Store(c) \/ AgentFails(c)
      BY <2>1, <3>3 DEF Store, AgentFails
    <3> QED
      BY <1>2, <3>1, <3>2, <3>3
  <2> QED
    BY <2>2, <2>3, CallMoves DEF Holds, Scope
<1> QED
  BY <1>1, <1>2 DEF ProposalsNext

LEMMA FlagsAll ==
    ASSUME IInv, NEW c \in Clients, calls[c].flips = Flips, Decidable' = Decidable,
           \A i \in Decidable : VerdictNow(i)' = VerdictNow(i), InsertAlerts(c)
    PROVE  AllFlagged'
<1>1. PICK found : /\ found = {AlertOf(flip, Trigger(c)) : flip \in Flips}
                   /\ alerts' = alerts \union {a \in found : ~\E b \in alerts : SameAlert(a, b)}
  BY DEF InsertAlerts
<1>2. UNCHANGED history
  BY DEF InsertAlerts, caseVars
<1>3. ASSUME NEW i \in Decidable, VerdictNow(i) # Latest(i).decision
      PROVE  \E a \in alerts' : /\ a.instance = i /\ a.after = VerdictNow(i)
                                /\ a.decision = Len(history[i])
  <2>1. PICK flip : flip = [instance |-> i, before |-> Latest(i).decision, after |-> VerdictNow(i)]
    OBVIOUS
  <2>2. flip \in Flips /\ flip.instance = i /\ flip.after = VerdictNow(i)
    BY <1>3, <2>1 DEF Flips, Decidable
  <2>3. PICK a : a = AlertOf(flip, Trigger(c))
    OBVIOUS
  <2>4. a.instance = i /\ a.after = VerdictNow(i) /\ a.decision = Len(history[i])
    BY <2>2, <2>3 DEF AlertOf
  <2>5. a \in found
    BY <1>1, <2>2, <2>3
  <2>6. CASE \E b \in alerts : SameAlert(a, b)
    BY <1>1, <2>4, <2>6 DEF SameAlert
  <2>7. CASE ~\E b \in alerts : SameAlert(a, b)
    BY <1>1, <2>4, <2>5, <2>7
  <2> QED
    BY <2>6, <2>7
<1>4. ASSUME NEW i \in Decidable PROVE Flagged(i)'
  <2>1. VerdictNow(i)' = VerdictNow(i) /\ Latest(i)' = Latest(i)
    BY <1>2 DEF Latest
  <2> QED
    BY <1>2, <1>3, <2>1 DEF Flagged
<1> QED
  BY <1>4 DEF AllFlagged

LEMMA DetectionSteps ==
    ASSUME Scope, Holds, IInv', NEW c \in Clients, Recheck(c) \/ DryRun(c) \/ InsertAlerts(c)
    PROVE  AlertInv'
<1>1. calls[c] \in Call /\ calls[c].down = {}
  BY DEF Holds, AlertInv, NoneDown, IInv, TypeOK, CallsOK
<1>2. Quiet
  <2>1. CASE Recheck(c) \/ DryRun(c)
    BY <2>1, QuietRequest DEF Recheck, DryRun, versionVars
  <2>2. CASE InsertAlerts(c)
    <3>1. AlertsKept
      BY <2>2 DEF InsertAlerts, AlertsKept, SameAlert
    <3> QED
      BY <2>2, <3>1, SameCases DEF InsertAlerts, Quiet, caseVars, versionVars, sourceVars
  <2> QED
    BY <2>1, <2>2
<1>3. calls[c].pc # "idle"
  BY DEF Recheck, DryRun, InsertAlerts
<1>4. PICK rest : rest = Resume(calls[c]) /\ rest.down = {}
  BY <1>1, <1>3, ResumeOwesNothing
<1>5. CASE Recheck(c)
  <2>1. PICK next : next = [calls[c] EXCEPT !.pc = "dryrun"]
    OBVIOUS
  <2>2. next.pc = "dryrun" /\ next.down = {} /\ Due(next)'
    BY <1>1, <2>1 DEF Call, Due
  <2>3. calls[c].pc = "recheck"
        /\ calls' = [calls EXCEPT ![c] =
              IF \E name \in calls[c].names : Changed(name) THEN next ELSE rest]
    BY <1>1, <1>4, <1>5, <2>1 DEF Recheck
  <2>4. CASE \E name \in calls[c].names : Changed(name)
    BY <1>2, <2>2, <2>3, <2>4, CallMoves DEF Holds, Scope
  <2>5. CASE ~\E name \in calls[c].names : Changed(name)
    <3>1. ~Due(calls[c])
      BY <2>3, <2>5 DEF Due
    <3> QED
      BY <1>2, <1>4, <2>3, <2>5, <3>1, CallMoves DEF Holds, Scope
  <2> QED
    BY <2>4, <2>5
<1>6. CASE DryRun(c)
  <2>1. PICK next : next = [calls[c] EXCEPT !.pc = "insert", !.flips = Flips]
    OBVIOUS
  <2>2. next.pc = "insert" /\ next.down = {} /\ next.flips = Flips
    BY <1>1, <2>1 DEF Call
  <2>3. calls' = [calls EXCEPT ![c] = IF active # 0 /\ Flips # {} THEN next ELSE rest]
    BY <1>1, <1>4, <1>6, <2>1 DEF DryRun
  <2>4. CASE active # 0 /\ Flips # {}
    <3>1. Flips' = Flips
      BY <1>2, QuietFlags DEF Holds, AlertInv, Scope
    <3>2. Due(next)'
      BY <2>2, <3>1 DEF Due
    <3> QED
      BY <1>2, <2>2, <2>3, <2>4, <3>2, CallMoves DEF Holds, Scope
  <2>5. CASE ~(active # 0 /\ Flips # {})
    <3>1. ASSUME NEW i \in Decidable PROVE Flagged(i)
      <4>1. active # 0
        BY DecidableHas, LoadedAll DEF Holds, AlertInv, ReadsAll
      <4>2. Flips = {}
        BY <2>5, <4>1
      <4> QED
        BY <4>2 DEF Flips, Flagged
    <3>2. AllFlagged'
      BY <1>2, <3>1, QuietFlags DEF AllFlagged, Holds, AlertInv, Scope
    <3> QED
      BY <1>2, <1>4, <2>3, <2>5, <3>2, CallMoves DEF Holds, Scope
  <2> QED
    BY <2>4, <2>5
<1>7. CASE InsertAlerts(c)
  <2>1. calls' = [calls EXCEPT ![c] = rest] /\ calls[c].pc = "insert"
    BY <1>1, <1>4, <1>7 DEF InsertAlerts
  <2>2. ASSUME Due(calls[c]) PROVE AllFlagged'
    <3>1. calls[c].flips = Flips
      BY <2>1, <2>2 DEF Due
    <3>2. Decidable' = Decidable
      BY <1>2 DEF Decidable, Quiet, OtherCases
    <3>3. \A i \in Decidable : VerdictNow(i)' = VerdictNow(i)
      BY <1>2, QuietVerdicts DEF Holds, AlertInv, Scope
    <3> QED
      BY <1>7, <3>1, <3>2, <3>3, FlagsAll DEF Holds
  <2> QED
    BY <1>2, <1>4, <2>1, <2>2, CallMoves DEF Holds, Scope
<1> QED
  BY <1>5, <1>6, <1>7

LEMMA AlertSteps == ASSUME Scope, Holds, IInv', AlertsNext PROVE AlertInv'
<1>1. ASSUME NEW a \in alerts, Ack(a) PROVE AlertInv'
  <2>1. AlertsKept
    <3> SUFFICES ASSUME NEW b \in alerts PROVE \E d \in alerts' : SameAlert(b, d)
      BY DEF AlertsKept
    <3>1. PICK d : d = [a EXCEPT !.status = "acknowledged"]
      OBVIOUS
    <3>2. d \in alerts' /\ alerts' = (alerts \ {a}) \union {d}
      BY <1>1, <3>1 DEF Ack
    <3>3. SameAlert(a, d)
      <4>1. a \in Alert
        BY DEF Holds, IInv, TypeOK, AlertsOK
      <4> QED
        BY <3>1, <4>1 DEF SameAlert, Alert
    <3> QED
      BY <3>2, <3>3 DEF SameAlert
  <2>2. Quiet /\ UNCHANGED calls
    BY <1>1, <2>1, SameCases DEF Ack, Quiet, caseVars, versionVars, sourceVars
  <2> QED
    BY <2>2, CallsRest DEF Holds, Scope
<1>2. "failures" \notin Ops
  BY DEF Scope, NothingFails
<1> QED
  BY <1>1, <1>2, DetectionSteps DEF AlertsNext

LEMMA CallEnds ==
    ASSUME IInv, NoneDown, LiveLoaded', NEW c \in Clients, NEW call,
           calls' = [calls EXCEPT ![c] = call], call.down = {}, AllFlagged' \/ Due(call)'
    PROVE  AlertInv'
<1>1. calls' = [d \in Clients |-> IF d = c THEN call ELSE calls[d]]
  BY DEF IInv, TypeOK, CallsOK
<1>2. NoneDown'
  BY <1>1 DEF NoneDown
<1>3. calls'[c] = call
  BY <1>1
<1>4. Due(call)' => Due(calls[c])'
  BY <1>3 DEF Due
<1> QED
  BY <1>2, <1>4 DEF AlertInv

(* A publication owes a dry run, unless nothing was decided before it.          *)
LEMMA VersionSteps == ASSUME Scope, Holds, IInv', VersionsNext PROVE AlertInv'
<1>1. ASSUME UNCHANGED <<caseVars, versions, active, sourceVars, calls, alerts>> PROVE AlertInv'
  BY <1>1, QuietRequest, CallsRest DEF Holds, Scope
<1>2. ASSUME NEW c \in Clients, Publish(c) PROVE AlertInv'
  <2>1. UNCHANGED <<cases, history, loads, alerts>>
    BY <1>2 DEF Publish, caseVars, sourceVars
  <2>2. LiveLoaded'
    BY <2>1 DEF LiveLoaded, HasDecision, Named, Holds, AlertInv
  <2>3. CASE active = 0
    <3>1. \A i \in Instances : ~HasDecision(i)
      BY <2>3, LoadedAll DEF Holds, AlertInv, ReadsAll
    <3>2. Decidable' = {}
      BY <2>1, <3>1, DecidableHas DEF Decidable, Holds
    <3>3. AllFlagged' /\ UNCHANGED calls
      BY <1>2, <2>3, <3>2 DEF AllFlagged, Publish
    <3> QED
      BY <2>2, <3>3 DEF AlertInv, NoneDown, Holds
  <2>4. CASE active # 0
    <3>1. calls[c] \in Call /\ calls[c].down = {}
      BY DEF Holds, AlertInv, NoneDown, IInv, TypeOK, CallsOK
    <3>2. PICK call : call = [calls[c] EXCEPT !.op = "publish", !.pc = "dryrun"]
      OBVIOUS
    <3>3. calls' = [calls EXCEPT ![c] = call]
      BY <1>2, <2>4, <3>2 DEF Publish
    <3>4. call.down = {} /\ call.pc = "dryrun"
      BY <3>1, <3>2 DEF Call
    <3>5. Due(call)'
      BY <3>4 DEF Due
    <3> QED
      BY <2>2, <3>3, <3>4, <3>5, CallEnds DEF Holds, AlertInv
  <2> QED
    BY <2>3, <2>4
<1> QED
  BY <1>1, <1>2 DEF VersionsNext, ReadDraft, Validate, Discard, EditDraft, Stage

-----------------------------------------------------------------------------
\* A step that adds loads

\* No source is loaded twice at once.
EachOnce(new) == \A k, l \in DOMAIN new : new[k].name = new[l].name => k = l

LEMMA LoadsOf ==
    ASSUME loads \in Seq(Load), NEW new \in Seq(Load), loads' = loads \o new, NEW name,
           \A k \in DOMAIN new : new[k].name # name
    PROVE  /\ Named(name)' = Named(name)
           /\ Named(name) # {} => LastRows(name)' = LastRows(name)
<1>1. PICK old : old = loads /\ old \in Seq(Load)
  OBVIOUS
<1>2. PICK all : all = loads' /\ all = old \o new
  BY <1>1
<1>3. /\ Len(all) = Len(old) + Len(new) /\ Len(old) \in Nat /\ Len(new) \in Nat
      /\ \A n \in 1..Len(old) : n \in 1..Len(all) /\ all[n] = old[n]
      /\ \A n \in 1..Len(all) : n \notin 1..Len(old) =>
            n - Len(old) \in DOMAIN new /\ all[n] = new[n - Len(old)]
  BY <1>1, <1>2
<1>4. Named(name)' = Named(name)
  BY <1>1, <1>2, <1>3 DEF Named
<1>5. ASSUME Named(name) # {} PROVE LastRows(name)' = LastRows(name)
  <2>1. PICK S : S = Named(name) /\ S = Named(name)' /\ S # {} /\ S \in SUBSET (1..Len(old))
    BY <1>1, <1>4, <1>5 DEF Named
  <2>2. LastOf(S) \in S
    BY <1>3, <2>1, LastExists
  <2> QED
    BY <1>1, <1>2, <1>3, <2>1, <2>2 DEF LastRows
<1> QED
  BY <1>4, <1>5

LEMMA LoadOf ==
    ASSUME loads \in Seq(Load), NEW new \in Seq(Load), loads' = loads \o new, EachOnce(new),
           NEW k \in DOMAIN new, NEW name, new[k].name = name
    PROVE  /\ Named(name)' # {} /\ LastRows(name)' = new[k].rows
           /\ Changed(name)' <=> (Named(name) # {} /\ LastRows(name) # new[k].rows)
<1>1. PICK old : old = loads /\ old \in Seq(Load)
  OBVIOUS
<1>2. PICK all : all = loads' /\ all = old \o new
  BY <1>1
<1>3. /\ Len(all) = Len(old) + Len(new) /\ Len(old) \in Nat /\ Len(new) \in Nat
      /\ \A n \in 1..Len(old) : n \in 1..Len(all) /\ all[n] = old[n]
      /\ \A n \in 1..Len(all) : n \notin 1..Len(old) =>
            n - Len(old) \in DOMAIN new /\ all[n] = new[n - Len(old)]
      /\ DOMAIN new = 1..Len(new)
  BY <1>1, <1>2
<1>4. PICK top : top = Len(old) + k /\ top \in 1..Len(all) /\ top \notin 1..Len(old)
                 /\ all[top] = new[k] /\ top - Len(old) = k
  <2>1. PICK before, added : /\ before = Len(old) /\ before \in Nat
                             /\ added = Len(new) /\ added \in Nat
    BY <1>3
  <2>2. k \in 1..added /\ Len(all) = before + added
    BY <1>3, <2>1
  <2>3. PICK top : /\ top = before + k /\ top \in 1..(before + added)
                   /\ top \notin 1..before /\ top - before = k
    BY <2>1, <2>2
  <2>4. top = Len(old) + k /\ top \in 1..Len(all) /\ top \notin 1..Len(old)
        /\ top - Len(old) = k
    BY <2>1, <2>2, <2>3
  <2>5. all[top] = new[top - Len(old)]
    BY <1>3, <2>4, Zenon
  <2> QED
    BY <2>4, <2>5, Zenon
<1>5. PICK S : S = Named(name) /\ S \in SUBSET (1..Len(old)) /\ IsFiniteSet(S)
  <2>1. IsFiniteSet(1..Len(old)) /\ Named(name) \in SUBSET (1..Len(old))
    BY <1>1, <1>3, FS_Interval DEF Named
  <2> QED
    BY <2>1, FS_Subset
<1>6. top \notin S /\ \A n \in S : n <= top /\ n # top
  BY <1>3, <1>4, <1>5, SMTT(30)
<1>7. Named(name)' = S \union {top}
  <2>1. ASSUME NEW n \in 1..Len(all), all[n].name = name PROVE n \in S \union {top}
    <3>1. CASE n \in 1..Len(old)
      BY <1>1, <1>3, <1>5, <2>1, <3>1 DEF Named
    <3>2. CASE n \notin 1..Len(old)
      <4>1. n - Len(old) \in DOMAIN new /\ new[n - Len(old)].name = name
        BY <1>3, <2>1, <3>2
      <4>2. n - Len(old) = k
        BY <4>1 DEF EachOnce
      <4> QED
        BY <1>3, <1>4, <4>2
    <3> QED
      BY <3>1, <3>2
  <2>2. ASSUME NEW n \in S PROVE n \in 1..Len(all) /\ all[n].name = name
    BY <1>1, <1>3, <1>5 DEF Named
  <2> QED
    BY <1>2, <1>4, <2>1, <2>2 DEF Named
<1>8. PICK T : T = Named(name)' /\ T = S \union {top} /\ T \in SUBSET (1..Len(all))
  BY <1>3, <1>4, <1>5, <1>7
<1>9. LastOf(T) = top
  <2>1. LastOf(T) \in T /\ \A n \in T : n <= LastOf(T)
    <3>1. Len(all) \in Nat /\ T # {} /\ T \in SUBSET (1..Len(all))
      BY <1>3, <1>8
    <3> QED
      BY <3>1, LastExists
  <2>2. top <= LastOf(T) /\ LastOf(T) \in Int /\ top \in Int
    <3>1. top \in T /\ \A n \in T : n \in Int
      BY <1>8
    <3> QED
      BY <2>1, <3>1
  <2> QED
    BY <1>6, <1>8, <2>1, <2>2
<1>10. T \ {LastOf(T)} = S
  BY <1>6, <1>8, <1>9
<1>11. Cardinality(T) = Cardinality(S) + 1 /\ Cardinality(S) \in Nat
       /\ (S = {} <=> Cardinality(S) = 0)
  <2>1. Cardinality(S \union {top}) = Cardinality(S) + 1
    BY <1>5, <1>6, FS_AddElement
  <2>2. Cardinality(S) \in Nat /\ (S = {} <=> Cardinality(S) = 0)
    BY <1>5, FS_CardinalityType, FS_EmptySet
  <2> QED
    BY <1>8, <2>1, <2>2
<1>12. ASSUME S # {} PROVE all[LastOf(S)].rows = LastRows(name)
  <2>1. LastOf(S) \in S
    BY <1>3, <1>5, <1>12, LastExists
  <2> QED
    BY <1>1, <1>3, <1>5, <2>1 DEF LastRows
<1>13. Changed(name)' <=> Cardinality(T) >= 2 /\ all[top].rows # all[LastOf(S)].rows
  BY <1>2, <1>8, <1>9, <1>10 DEF Changed
<1>14. LastRows(name)' = new[k].rows
  BY <1>2, <1>4, <1>8, <1>9 DEF LastRows
<1> QED
  BY <1>4, <1>5, <1>8, <1>11, <1>12, <1>13, <1>14, SMTT(30)

(* Loads of sources that were loaded before are seen by the comparison with the *)
(* loads before them, and a source that was not has been read by no decision.   *)
LEMMA NewLoads ==
    ASSUME Scope, Holds, IInv', AllFlagged, NEW new \in Seq(Load), loads' = loads \o new,
           EachOnce(new), UNCHANGED <<caseVars, versions, active, alerts>>
    PROVE  /\ LiveLoaded'
           /\ AllFlagged' \/ \E k \in DOMAIN new : Changed(new[k].name)'
<1>1. loads \in Seq(Load) /\ UNCHANGED <<cases, history>>
  BY DEF Holds, IInv, TypeOK, LoadsOK, caseVars
<1>2. ASSUME NEW name, Named(name) # {} PROVE Named(name)' # {}
  <2>1. CASE \A k \in DOMAIN new : new[k].name # name
    BY <1>1, <1>2, <2>1, LoadsOf
  <2>2. CASE \E k \in DOMAIN new : new[k].name = name
    BY <1>1, <2>2, LoadOf
  <2> QED
    BY <2>1, <2>2
<1>3. LiveLoaded'
  BY <1>1, <1>2 DEF LiveLoaded, HasDecision, Holds, AlertInv
<1>4. ASSUME \A k \in DOMAIN new : ~Changed(new[k].name)' PROVE AllFlagged'
  <2>1. ASSUME NEW i \in Decidable PROVE Flagged(i)'
    <3>1. i \in Instances /\ ReadsAll
      BY DecidableHas, LoadedAll DEF Holds, AlertInv
    <3>2. ASSUME NEW name \in Reads[ActiveSnapshot] PROVE LastRows(name)' = LastRows(name)
      <4>1. Named(name) # {}
        BY <3>1 DEF ReadsAll
      <4>2. CASE \A k \in DOMAIN new : new[k].name # name
        BY <1>1, <4>1, <4>2, LoadsOf
      <4>3. CASE \E k \in DOMAIN new : new[k].name = name
        BY <1>1, <1>4, <4>1, <4>3, LoadOf, ZenonT(30)
      <4> QED
        BY <4>2, <4>3
    <3>3. ActiveSnapshot' = ActiveSnapshot
      BY DEF ActiveSnapshot
    <3>4. ReadsAll'
      BY <1>2, <3>1, <3>3 DEF ReadsAll
    <3>5. VerdictNow(i)' = VerdictNow(i)
      BY <1>1, <3>1, <3>2, <3>3, <3>4, VerdictStays DEF Holds, Scope
    <3>6. Latest(i)' = Latest(i) /\ Flagged(i)
      BY <1>1 DEF Latest, AllFlagged
    <3> QED
      BY <1>1, <3>5, <3>6 DEF Flagged
  <2>2. Decidable' = Decidable
    BY <1>1 DEF Decidable
  <2> QED
    BY <2>1, <2>2 DEF AllFlagged
<1> QED
  BY <1>3, <1>4

LEMMA CommitStep == ASSUME Scope, Holds, IInv', NEW c \in Clients, CommitLoad(c) PROVE AlertInv'
<1>1. calls[c] \in Call /\ calls[c].down = {} /\ calls[c].pc = "commit"
      /\ calls[c].names \in SUBSET Sources /\ loads \in Seq(Load)
  BY DEF Holds, AlertInv, NoneDown, IInv, TypeOK, CallsOK, LoadsOK, CommitLoad, Call
<1>2. AllFlagged
  BY <1>1, Unburdened DEF Holds, Idle, Due
<1>3. PICK name, done :
         /\ name \in calls[c].names
         /\ done = [calls[c] EXCEPT !.got[name] = Len(loads) + 1]
         /\ loads' = Append(loads, NewLoad(c, name))
         /\ calls' = [calls EXCEPT ![c] = IF Differs(name, calls[c].fetched.rows)
                                          THEN [done EXCEPT !.pc = "recheck"] ELSE Resume(done)]
  BY DEF CommitLoad
<1>4. done \in Call /\ done.pc = "commit" /\ done.down = {} /\ done.names = calls[c].names
  <2>1. PICK got : got = [calls[c].got EXCEPT ![name] = Len(loads) + 1]
    OBVIOUS
  <2>2. got \in [Sources -> Nat]
    BY <1>1, <1>3, <2>1 DEF Call
  <2>3. done = [calls[c] EXCEPT !.got = got]
    BY <1>1, <1>3, <2>1 DEF Call
  <2> QED
    BY <1>1, <2>2, <2>3 DEF Call
<1>5. PICK row : row = NewLoad(c, name) /\ row \in Load /\ row.name = name
                 /\ row.rows = calls[c].fetched.rows
  <2>1. calls[c].fetched.rows \in Contents /\ calls[c].fetched.at \in Nat
    BY <1>1 DEF Holds, IInv, TypeOK, CallsOK, Remembers, Call
  <2>2. NewLoad(c, name) \in Load
    BY <1>1, <1>3, <2>1 DEF NewLoad, Load
  <2> QED
    BY <2>2 DEF NewLoad
<1>6. PICK new : new = <<row>> /\ new \in Seq(Load) /\ DOMAIN new = {1} /\ new[1] = row
  <2>1. PICK one : one = <<row>>
    OBVIOUS
  <2>2. one \in Seq(Load) /\ Len(one) = 1 /\ DOMAIN one = 1..1 /\ one[1] = row
    BY <1>5, <2>1
  <2>3. 1..1 = {1}
    OBVIOUS
  <2> QED
    BY <2>1, <2>2, <2>3
<1>7. loads' = loads \o new /\ EachOnce(new)
  <2>1. Append(loads, row) = loads \o <<row>>
    BY <1>1, <1>5
  <2> QED
    BY <1>3, <1>5, <1>6, <2>1 DEF EachOnce
<1>8. LiveLoaded' /\ (AllFlagged' \/ Changed(name)')
  <2>1. UNCHANGED <<caseVars, versions, active, alerts>>
    BY DEF CommitLoad, versionVars
  <2> QED
    BY <1>2, <1>5, <1>6, <1>7, <2>1, NewLoads
<1>9. Changed(name)' => Differs(name, calls[c].fetched.rows)
  <2>1. PICK k \in DOMAIN new : new[k].name = name /\ new[k].rows = calls[c].fetched.rows
    BY <1>5, <1>6
  <2>2. Changed(name)' <=> (Named(name) # {} /\ LastRows(name) # new[k].rows)
    BY <1>1, <1>6, <1>7, <2>1, LoadOf, ZenonT(30)
  <2> QED
    BY <2>1, <2>2 DEF Differs, LastRows
<1>10. CASE Differs(name, calls[c].fetched.rows)
  <2>1. PICK call : call = [done EXCEPT !.pc = "recheck"]
    OBVIOUS
  <2>2. call.pc = "recheck" /\ call.down = {} /\ name \in call.names
    BY <1>3, <1>4, <2>1 DEF Call
  <2>3. Changed(name)' => Due(call)'
    BY <2>2 DEF Due
  <2> QED
    BY <1>3, <1>8, <1>10, <2>1, <2>2, <2>3, CallEnds DEF Holds, AlertInv
<1>11. CASE ~Differs(name, calls[c].fetched.rows)
  <2>1. Resume(done).down = {}
    BY <1>4, ResumeOwesNothing
  <2> QED
    BY <1>3, <1>8, <1>9, <1>11, <2>1, CallEnds DEF Holds, AlertInv
<1> QED
  BY <1>10, <1>11

LEMMA WorkbookStep ==
    ASSUME Scope, Holds, IInv', Serial', NEW c \in Clients,
           NEW names \in SUBSET (Sources \ Connected) \ {{}}, LoadWorkbook(c, names)
    PROVE  AlertInv'
<1>1. calls[c] \in Call /\ calls[c].down = {} /\ calls[c].pc = "idle" /\ loads \in Seq(Load)
      /\ calls \in [Clients -> Call]
  BY DEF Holds, AlertInv, NoneDown, IInv, TypeOK, CallsOK, LoadsOK, LoadWorkbook, Idle
<1>2. PICK call : call = [calls[c] EXCEPT !.op = "workbook", !.pc = "recheck", !.names = names]
  OBVIOUS
<1>3. call.pc = "recheck" /\ call.down = {} /\ call.names = names
  BY <1>1, <1>2 DEF Call
<1>4. calls' = [calls EXCEPT ![c] = call]
  BY <1>2 DEF LoadWorkbook
<1>5. AllFlagged
  <2>1. calls'[c].pc = "recheck" /\ \A d \in Clients : d # c => calls'[d] = calls[d]
    BY <1>1, <1>3, <1>4
  <2>2. \A d \in Clients : calls[d].pc = "idle"
    BY <1>1, <2>1 DEF Serial, Idle
  <2> QED
    BY <2>2 DEF Holds, AlertInv, Due
<1>6. PICK order \in [1..Cardinality(names) -> names], rows \in [names -> Contents] :
         /\ {order[k] : k \in DOMAIN order} = names
         /\ loads' = loads \o [k \in DOMAIN order |->
                        [name |-> order[k], rows |-> rows[order[k]], at |-> 0]]
  BY DEF LoadWorkbook
<1>7. Cardinality(names) \in Nat /\ DOMAIN order = 1..Cardinality(names)
  BY ProcessAssumption, FS_Subset, FS_CardinalityType
<1>8. \A k, l \in DOMAIN order : order[k] = order[l] => k = l
  <2>1. /\ IsFiniteSet(1..Cardinality(names))
        /\ Cardinality(1..Cardinality(names)) = Cardinality(names)
    BY <1>7, FS_Interval
  <2>2. order \in Surjection(1..Cardinality(names), names)
    BY <1>6, <1>7 DEF Surjection
  <2>3. order \in Injection(1..Cardinality(names), names)
    BY <2>1, <2>2, FS_SurjSameCardinalityImpliesInj
  <2> QED
    BY <2>3 DEF Injection, IsInjective
<1>9. PICK new : new = [k \in 1..Cardinality(names) |->
                          [name |-> order[k], rows |-> rows[order[k]], at |-> 0]]
  OBVIOUS
<1>10. loads' = loads \o new /\ DOMAIN new = 1..Cardinality(names)
  BY <1>6, <1>7, <1>9
<1>11. \A k \in 1..Cardinality(names) : new[k] \in Load /\ new[k].name = order[k]
  <2> SUFFICES ASSUME NEW k \in 1..Cardinality(names)
               PROVE  new[k] \in Load /\ new[k].name = order[k]
    OBVIOUS
  <2>1. order[k] \in names /\ order[k] \in Sources /\ rows[order[k]] \in Contents
    BY <1>6
  <2>2. new[k] = [name |-> order[k], rows |-> rows[order[k]], at |-> 0]
    BY <1>9
  <2> QED
    BY <2>1, <2>2 DEF Load
<1>12. new \in Seq(Load)
  <2>1. new = [k \in 1..Cardinality(names) |-> new[k]]
    BY <1>9
  <2> QED
    BY <1>7, <1>11, <2>1, SMTT(30)
<1>13. EachOnce(new)
  BY <1>7, <1>8, <1>10, <1>11 DEF EachOnce
<1>14. LiveLoaded' /\ (AllFlagged' \/ \E k \in DOMAIN new : Changed(new[k].name)')
  <2>1. UNCHANGED <<caseVars, versions, active, alerts>>
    BY DEF LoadWorkbook, versionVars
  <2> QED
    BY <1>5, <1>10, <1>12, <1>13, <2>1, NewLoads
<1>15. ASSUME NEW k \in DOMAIN new, Changed(new[k].name)' PROVE Due(call)'
  <2>1. new[k].name \in call.names
    BY <1>3, <1>6, <1>7, <1>10, <1>11
  <2> QED
    BY <1>3, <1>15, <2>1 DEF Due
<1> QED
  BY <1>3, <1>4, <1>14, <1>15, CallEnds DEF Holds, AlertInv

-----------------------------------------------------------------------------
\* A step that decides

(* What a decision writes is the verdict on the state it is written in.         *)
LEMMA DecideFlags ==
    ASSUME Holds, AllFlagged, NEW c \in Clients, NEW who \in SUBSET Instances,
           NEW inp, inp = CapturedInputs(ActiveSnapshot, {}), Decide(c, who, inp),
           UNCHANGED <<versions, active, sourceVars, alerts>>
    PROVE  AllFlagged'
<1>1. inp = CapturedInputs(ActiveSnapshot, {})
  OBVIOUS
<1>2. /\ cases' = [i \in Instances |->
             IF i \in who THEN [cases[i] EXCEPT !.status = "DECIDED"] ELSE cases[i]]
      /\ cases \in [Instances -> Case] /\ history \in [Instances -> Seq(Row)]
  BY DEF Decide, Holds, IInv, TypeOK, CasesOK
<1>3. PICK asked \in SUBSET (IF Reviewed[ActiveSnapshot] THEN who ELSE {}) : history' = [i \in Instances |->
         IF i \in who THEN Append(history[i], EngineRow(inp, i, Len(executions) + 1, i \in asked))
         ELSE history[i]]
  BY DEF Decide
<1>4. ReadingsNow' = ReadingsNow
  <2>1. ASSUME NEW i \in Instances PROVE cases'[i].reading = cases[i].reading
    BY <1>2 DEF Case
  <2> QED
    BY <2>1 DEF ReadingsNow
<1>5. ActiveSnapshot' = ActiveSnapshot /\ CapturedInputs(ActiveSnapshot, {})' = inp
  BY <1>1, <1>4 DEF CapturedInputs, ActiveSnapshot, NeverLoaded, CurrentLoads, Named, sourceVars
<1>6. ASSUME NEW i \in Instances PROVE VerdictNow(i)' = VerdictNow(i)
  BY <1>1, <1>5 DEF VerdictNow, Evaluate, Gap, Tables, sourceVars
<1>7. ASSUME NEW i \in Decidable' PROVE Flagged(i)'
  <2>1. CASE i \in who
    <3>1. PICK row : row = EngineRow(inp, i, Len(executions) + 1, i \in asked)
      OBVIOUS
    <3>2. history'[i] = Append(history[i], row) /\ history[i] \in Seq(Row)
      BY <1>2, <1>3, <2>1, <3>1
    <3>3. Latest(i)' = row
      BY <3>2, AppendKeeps DEF Latest
    <3>4. row.decision = VerdictNow(i)
      BY <1>1, <3>1 DEF EngineRow, VerdictNow
    <3> QED
      BY <1>6, <2>1, <3>3, <3>4 DEF Flagged
  <2>2. CASE i \notin who
    <3>1. i \in Instances /\ cases'[i] = cases[i] /\ history'[i] = history[i]
      BY <1>2, <1>3, <2>2 DEF Decidable
    <3>2. Flagged(i)
      BY <1>7, <3>1 DEF Decidable, AllFlagged
    <3>3. Latest(i)' = Latest(i)
      BY <3>1 DEF Latest
    <3> QED
      BY <1>6, <3>1, <3>2, <3>3 DEF Flagged
  <2> QED
    BY <2>1, <2>2
<1> QED
  BY <1>7 DEF AllFlagged

LEMMA DecideStep ==
    ASSUME Scope, Holds, IInv', NEW c \in Clients, ExecuteRun(c) \/ ExecuteReprocess(c)
    PROVE  AlertInv'
<1>1. /\ calls[c] \in Call /\ calls[c].down = {} /\ calls[c].pc = "execute"
      /\ calls[c].op \in {"run", "reprocess"}
      /\ calls' = [calls EXCEPT ![c] = NoCall]
      /\ UNCHANGED <<versions, active, sourceVars, alerts>>
  BY DEF Holds, AlertInv, NoneDown, IInv, TypeOK, CallsOK, ExecuteRun, ExecuteReprocess,
         versionVars
<1>2. AllFlagged
  BY <1>1, Unburdened DEF Holds, Idle, Due
<1>3. AllFlagged'
  BY <1>1, <1>2, DecisionKinds, DecideFlags
<1>4. ASSUME NEW name \in Live PROVE Named(name)' # {}
  <2>1. Synced(calls[c], name)
    BY <1>1 DEF Holds, LiveInv, Tracks, Deciding
  <2>2. calls[c].got[name] \in Named(name)
    BY <2>1 DEF Synced, Named, Holds, IInv, TypeOK, LoadsOK
  <2> QED
    BY <1>1, <2>2 DEF Named, sourceVars
<1>5. LiveLoaded'
  BY <1>4 DEF LiveLoaded
<1>6. NoCall.down = {}
  BY DEF NoCall
<1> QED
  BY <1>1, <1>3, <1>5, <1>6, CallEnds DEF Holds, AlertInv

LEMMA AlertStep == ASSUME Scope, Holds, IInv', Serial', [Next]_vars PROVE AlertInv'
<1>1. CASE UNCHANGED vars
  <2>1. Quiet /\ UNCHANGED calls
    BY <1>1, QuietRequest DEF vars, caseVars, sourceVars, versionVars
  <2> QED
    BY <2>1, CallsRest DEF Holds, Scope
<1>2. CASE SourcesNext
  BY <1>2, WorldQuiet, SyncQuiet, CommitStep, WorkbookStep DEF SourcesNext
<1>3. CASE DecisionsNext
  <2>1. "resolve" \notin Ops
    BY DEF Scope, NobodyResolves
  <2> QED
    BY <1>3, <2>1, StartQuiet, DecideStep DEF DecisionsNext, Resolve
<1>4. CASE \E c \in Clients : Crash(c)
  BY <1>4 DEF Crash, Scope, NothingFails
<1> QED
  BY <1>1, <1>2, <1>3, <1>4, CasesQuiet, AlertSteps, VersionSteps, ProposalsQuiet DEF Next

LEMMA AlertInit == Init => AlertInv
<1> SUFFICES ASSUME Init PROVE AlertInv
  OBVIOUS
<1>1. NoneDown /\ LiveLoaded
  BY DEF Init, NoneDown, NoCall, LiveLoaded, HasDecision
<1>2. Decidable = {}
  BY DEF Init, Decidable
<1> QED
  BY <1>1, <1>2 DEF AlertInv, AllFlagged

(* With one request at a time and none that fails, every past decision that the *)
(* engine would now take otherwise has its alert once no request is in flight,  *)
(* whatever was loaded, published, uploaded and decided before. The instance     *)
(* MCProcessMissedAlert shows what two requests at a time miss, and              *)
(* MCProcessFirstLoad what the first load of a source decisions took as down.    *)
THEOREM ProcessNoMissedAlert ==
    ASSUME RulesReadTheirOwn, NothingFails, NobodyResolves
    PROVE  Spec /\ [](Serial /\ ReadsLoaded) => []NoMissedAlert
<1>1. IInv /\ LiveInv /\ AlertInv /\ (Serial /\ ReadsLoaded) /\ (Serial /\ ReadsLoaded)'
        /\ [Next]_vars => (IInv /\ LiveInv /\ AlertInv)'
  BY StepInv, LiveStep, AlertStep DEF Scope, Holds
<1>2. Init => IInv /\ LiveInv /\ AlertInv
  <2>1. Init => LiveInv
    BY DEF Init, LiveInv, Tracks, Deciding, NoCall
  <2> QED
    BY <2>1, InitInv, AlertInit
<1>3. AlertInv => NoMissedAlert
  <2> SUFFICES ASSUME AlertInv, \A c \in Clients : Idle(c), NEW flip \in Flips
               PROVE  \E a \in alerts : /\ a.instance = flip.instance /\ a.after = flip.after
                                        /\ a.decision = Len(history[flip.instance])
    BY DEF NoMissedAlert
  <2>1. AllFlagged
    BY DEF AlertInv, Due, Idle
  <2>2. PICK i \in Decidable : /\ VerdictNow(i) # Latest(i).decision
                               /\ flip.instance = i /\ flip.after = VerdictNow(i)
    BY DEF Flips
  <2> QED
    BY <2>1, <2>2 DEF AllFlagged, Flagged
<1> QED
  BY <1>1, <1>2, <1>3, PTL DEF Spec
=============================================================================
