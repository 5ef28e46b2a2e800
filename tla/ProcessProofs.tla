--------------------------- MODULE ProcessProofs ---------------------------
(* Proofs about Process, for every set of documents, requests, sources,       *)
(* snapshots and bound. IInv joins the type invariant to DecidedHasHistory:   *)
(* a run reads the status of a case and never its history, so that it writes  *)
(* over nobody's decision rests on the two telling the same; and the dry run  *)
(* of an alert reads the history of every DECIDED case.                       *)
EXTENDS Process, FiniteSetTheorems, SequenceTheorems, WellFoundedInduction, TLAPS

IInv == TypeOK /\ DecidedHasHistory

-----------------------------------------------------------------------------
\* What the shared reads return

(* A non-empty set of ids has a last one: LastOf picks a row that exists      *)
(* (latest_decisions, current_loads).                                         *)
LEMMA LastExists ==
    ASSUME NEW N \in Nat, NEW S \in SUBSET (1..N), S # {}
    PROVE  LastOf(S) \in S /\ \A m \in S : m <= LastOf(S)
<1> DEFINE Above(n) == {m \in S : n < m}
           All == {Above(n) : n \in S}
           Smaller == StrictSubsetOrdering(S)
<1>1. IsFiniteSet(S)
  <2>1. IsFiniteSet(1..N)
    BY FS_Interval
  <2> QED
    BY <2>1, FS_Subset, Zenon
<1>2. IsWellFoundedOn(Smaller, SUBSET S)
  BY <1>1, FS_StrictSubsetOrderingWellFounded, FS_FiniteSubsetsOfFinite, Zenon
<1>3. All \subseteq SUBSET S /\ All # {}
  OBVIOUS
<1>4. PICK T \in All : \A U \in All : ~(<<U, T>> \in Smaller)
  BY <1>2, <1>3, WFMin, Zenon
<1>5. PICK n \in S : T = Above(n)
  OBVIOUS
<1>6. \A m \in S : ~(n < m)
  <2> SUFFICES ASSUME NEW m \in S, n < m PROVE FALSE
    OBVIOUS
  <2>1. m \in Above(n) /\ m \notin Above(m)
    OBVIOUS
  <2>2. <<Above(m), T>> \in Smaller
    <3>1. ASSUME NEW x \in Above(m) PROVE x \in Above(n)
      <4>1. x \in Int /\ m \in Int /\ n \in Int /\ m < x
        BY <3>1
      <4> QED
        BY <4>1, <3>1
    <3>2. Above(m) \subseteq Above(n)
      BY <3>1
    <3> QED
      BY <2>1, <3>2, <1>5 DEF StrictSubsetOrdering
  <2> QED
    BY <2>2, <1>4
<1>7. \A m \in S : m <= n
  BY <1>6
<1> QED
  BY <1>7 DEF LastOf

(* The sandbox gets, for every source, rows of the source or no table.        *)
LEMMA TablesType ==
    ASSUME LoadsOK, NEW ids \in SUBSET (DOMAIN loads)
    PROVE  Tables(ids) \in [Sources -> Contents \union {NoRows}]
<1> SUFFICES ASSUME NEW name \in Sources, NEW n \in ids, loads[n].name = name
             PROVE  loads[CHOOSE m \in ids : loads[m].name = name].rows \in Contents
  BY DEF Tables
<1>1. (CHOOSE m \in ids : loads[m].name = name) \in ids
  OBVIOUS
<1>2. \A m \in DOMAIN loads : loads[m] \in Load
  BY DEF LoadsOK
<1> QED
  BY <1>1, <1>2 DEF Load

(* Whatever it reads, the engine decides with a type of the process, and the  *)
(* symbols it names as missing are symbols.                                   *)
LEMMA EvaluateType ==
    ASSUME LoadsOK, NEW s \in Snapshots, NEW inp \in Inputs, NEW i \in Instances,
           inp.source_ids \subseteq DOMAIN loads
    PROVE  /\ Evaluate(s, inp, i).decision \in Types
           /\ Evaluate(s, inp, i).names \in SUBSET Symbols
           /\ Evaluate(s, inp, i).failed \in BOOLEAN
<1> DEFINE ran == RunRules(s, inp.readings, Tables(inp.source_ids), inp.down, i)
<1>1. /\ inp.readings \in [Instances -> Readings \union {NoReading}]
      /\ inp.down \in SUBSET Sources
  BY DEF Inputs
<1>2. Tables(inp.source_ids) \in [Sources -> Contents \union {NoRows}]
  BY TablesType
<1>3. ran \in [decision : Types, failed : BOOLEAN]
  BY <1>1, <1>2, RunRulesAssumption
<1>4. Escalation[s] \in Types /\ Required[s] \in SUBSET Symbols
  BY ProcessAssumption
<1> HIDE DEF ran
<1>5. Evaluate(s, inp, i) =
        [decision |-> IF Gap(s, inp.readings[i]) # {} \/ ran.failed
                      THEN Escalation[s] ELSE ran.decision,
         names |-> Gap(s, inp.readings[i]), failed |-> ran.failed]
  BY DEF Evaluate, ran
<1>6. Gap(s, inp.readings[i]) \in SUBSET Symbols
  BY <1>4 DEF Gap
<1> QED
  BY <1>3, <1>4, <1>5, <1>6

(* An execution captures every reading and loads that exist.                  *)
LEMMA CapturedType ==
    ASSUME CasesOK, LoadsOK, NEW s \in Snapshots, NEW down \in SUBSET Sources
    PROVE  /\ CapturedInputs(s, down) \in Inputs
           /\ CapturedInputs(s, down).source_ids \subseteq DOMAIN loads
<1>1. ReadingsNow \in [Instances -> Readings \union {NoReading}]
  BY DEF CasesOK, ReadingsNow, Case
<1>2. CurrentLoads \subseteq DOMAIN loads /\ DOMAIN loads \subseteq Nat
  BY DEF LoadsOK, CurrentLoads
<1>3. NeverLoaded(s) \subseteq Sources
  BY ProcessAssumption DEF NeverLoaded
<1> QED
  BY <1>1, <1>2, <1>3 DEF CapturedInputs, Inputs

(* The latest decision of a case is a row of its history.                     *)
LEMMA LatestType ==
    ASSUME CasesOK, NEW i \in Instances, HasDecision(i)
    PROVE  /\ Latest(i) \in Row
           /\ Len(history[i]) \in DOMAIN history[i]
<1>1. history[i] \in Seq(Row)
  BY DEF CasesOK
<1> QED
  BY <1>1 DEF HasDecision, Latest

LEMMA ActiveType ==
    ASSUME VersionsOK, active # 0
    PROVE  active \in DOMAIN versions /\ ActiveSnapshot \in Snapshots
<1>1. versions \in Seq(Version) /\ active = Len(versions)
  BY DEF VersionsOK
<1>2. active \in DOMAIN versions
  BY <1>1
<1>3. versions[active] \in Version
  BY <1>1, <1>2
<1> QED
  BY <1>2, <1>3 DEF ActiveSnapshot, Version

-----------------------------------------------------------------------------
\* Steps that change one request in flight and no table

(* What a request remembers of the histories stays true while they grow.      *)
LEMMA RemembersStays ==
    ASSUME CasesOK, CasesOK', NEW call \in Call, Remembers(call),
           \A i \in Instances : DOMAIN history[i] \subseteq DOMAIN history'[i]
    PROVE  Remembers(call)'
<1>1. ASSUME NEW i \in Instances, HasDecision(i) PROVE HasDecision(i)'
  <2>1. history[i] \in Seq(Row) /\ history'[i] \in Seq(Row)
    BY DEF CasesOK
  <2>2. 1 \in DOMAIN history[i]
    BY <1>1, <2>1 DEF HasDecision
  <2>3. 1 \in DOMAIN history'[i]
    BY <2>2
  <2> QED
    BY <2>1, <2>3 DEF HasDecision
<1>2. call.selection \subseteq Instances /\ \A flip \in call.flips : flip.instance \in Instances
  BY DEF Call, Flip
<1> QED
  BY <1>1, <1>2 DEF Remembers

(* A step that only replaces what one request remembers.                      *)
LEMMA OneCall ==
    ASSUME IInv, NEW c \in Clients, NEW new \in Call, Remembers(new),
           calls' = [calls EXCEPT ![c] = new],
           UNCHANGED <<caseVars, runVars, versionVars, sourceVars, alerts, proposals>>
    PROVE  IInv'
<1>1. UNCHANGED <<cases, history, executions, operations, versions, active, draft, findings,
                  seen, loads, world, alerts, proposals>>
  BY DEF caseVars, runVars, versionVars, sourceVars
<1>2. /\ CasesOK' /\ RowsOK' /\ ExecutionsOK' /\ VersionsOK'
      /\ LoadsOK' /\ ProposalsOK' /\ AlertsOK' /\ DecidedHasHistory'
  BY <1>1 DEF IInv, TypeOK, CasesOK, RowsOK, ExecutionsOK, VersionsOK, LoadsOK, ProposalsOK,
              AlertsOK, DecidedHasHistory, HasDecision
<1>3. CallsOK'
  <2>1. calls' \in [Clients -> Call]
    BY DEF IInv, TypeOK, CallsOK
  <2>2. \A d \in Clients : Remembers(calls[d]) /\ calls[d] \in Call
    BY DEF IInv, TypeOK, CallsOK
  <2>3. \A d \in Clients : calls'[d] = IF d = c THEN new ELSE calls[d]
    BY DEF IInv, TypeOK, CallsOK
  <2>4. \A call \in Call : Remembers(call) => Remembers(call)'
    BY <1>1, <1>2, RemembersStays DEF IInv, TypeOK
  <2>5. ASSUME NEW d \in Clients PROVE Remembers(calls[d])'
    <3>1. Remembers(IF d = c THEN new ELSE calls[d])
      BY <2>2
    <3> QED
      BY <2>2, <2>3, <2>4, <3>1 DEF Remembers
  <2> QED
    BY <2>1, <2>5 DEF CallsOK
<1> QED
  BY <1>2, <1>3 DEF IInv, TypeOK

LEMMA NoCallType == NoCall \in Call /\ NoCall.pc = "idle"
  BY DEF NoCall, Call

(* Only what is remembered while committing, inserting or asking is demanded. *)
LEMMA RemembersNothing ==
    ASSUME NEW call \in Call, call.pc \in {"idle", "sync", "recheck", "dryrun", "execute"}
    PROVE  Remembers(call)
  BY DEF Remembers

LEMMA ResumeType ==
    ASSUME NEW call \in Call
    PROVE  Resume(call) \in Call /\ Resume(call).pc \in {"idle", "sync", "execute"}
<1> DEFINE next == [call EXCEPT !.pc = IF call.todo = {} THEN "execute" ELSE "sync",
                                !.names = {}, !.fetched = NoCall.fetched, !.flips = {}]
<1>1. NoCall.fetched \in [rows : Contents \union {NoRows}, at : Nat]
  BY DEF NoCall
<1>2. next \in Call /\ next.pc \in {"sync", "execute"}
  BY <1>1 DEF Call
<1>3. Resume(call) = IF call.op \in {"run", "reprocess"} THEN next ELSE NoCall
  BY DEF Resume
<1> HIDE DEF next
<1> QED
  BY <1>2, <1>3, NoCallType

LEMMA FailedType ==
    ASSUME NEW call \in Call, NEW names \in SUBSET Sources
    PROVE  Failed(call, names) \in Call /\ Failed(call, names).pc \in {"idle", "sync", "execute"}
<1>1. [call EXCEPT !.down = @ \union names] \in Call
  BY DEF Call
<1> QED
  BY <1>1, ResumeType DEF Failed

LEMMA SourceCalls ==
    ASSUME IInv, NEW c \in Clients,
           \/ \E name \in Connected : StartSync(c, name)
           \/ Download(c) \/ DownloadFails(c)
    PROVE  IInv'
<1>1. calls \in [Clients -> Call] /\ calls[c] \in Call
  BY DEF IInv, TypeOK, CallsOK
<1>2. ASSUME NEW name \in Connected, StartSync(c, name) PROVE IInv'
  <2> DEFINE new == [calls[c] EXCEPT !.op = "sync", !.pc = "sync", !.todo = {name}]
  <2>1. new \in Call /\ new.pc = "sync"
    <3>1. name \in Sources
      BY ProcessAssumption DEF ProcessAssumption
    <3> QED
      BY <1>1, <3>1, ZenonT(60) DEF Call
  <2>2. calls' = [calls EXCEPT ![c] = new]
    BY <1>1, <1>2 DEF StartSync
  <2> HIDE DEF new
  <2> QED
    BY <1>2, <2>1, <2>2, RemembersNothing, OneCall DEF StartSync
<1>3. CASE Download(c)
  <2>1. PICK name \in calls[c].todo :
           calls' = [calls EXCEPT ![c] =
              [calls[c] EXCEPT !.pc = "commit", !.todo = @ \ {name}, !.names = {name},
                               !.fetched = world[name]]]
    BY <1>3 DEF Download
  <2> DEFINE new == [calls[c] EXCEPT !.pc = "commit", !.todo = @ \ {name},
                                     !.names = {name}, !.fetched = world[name]]
  <2>2. name \in Sources
    BY <1>1, <2>1 DEF Call
  <2>3. world[name] \in [rows : Contents, at : Nat]
    BY <2>2 DEF IInv, TypeOK, LoadsOK
  <2>4. new \in Call /\ new.pc = "commit" /\ new.fetched = world[name]
    BY <1>1, <2>2, <2>3 DEF Call
  <2>5. calls' = [calls EXCEPT ![c] = new]
    BY <1>1, <2>1
  <2> HIDE DEF new
  <2>6. Remembers(new)
    BY <2>3, <2>4 DEF Remembers
  <2> QED
    BY <1>3, <2>4, <2>5, <2>6, OneCall DEF Download
<1>4. CASE DownloadFails(c)
  <2>1. PICK name \in calls[c].todo :
           calls' = [calls EXCEPT ![c] = Failed([calls[c] EXCEPT !.todo = @ \ {name}], {name})]
    BY <1>4 DEF DownloadFails
  <2> DEFINE left == [calls[c] EXCEPT !.todo = @ \ {name}]
             new == Failed(left, {name})
  <2>2. left \in Call /\ name \in Sources
    BY <1>1, <2>1 DEF Call
  <2>3. calls' = [calls EXCEPT ![c] = new]
    BY <1>1, <2>1
  <2> HIDE DEF left
  <2>4. new \in Call /\ Remembers(new)
    BY <2>2, FailedType, RemembersNothing
  <2> HIDE DEF new
  <2> QED
    BY <1>4, <2>3, <2>4, OneCall DEF DownloadFails
<1> QED
  BY <1>2, <1>3, <1>4

(* What a dry run finds are flips between types, of cases with a decision.    *)
LEMMA FlipsType ==
    ASSUME IInv, active # 0
    PROVE  Flips \in SUBSET Flip /\ \A flip \in Flips : HasDecision(flip.instance)
<1>1. CasesOK /\ LoadsOK /\ VersionsOK /\ DecidedHasHistory
  BY DEF IInv, TypeOK
<1>2. ActiveSnapshot \in Snapshots
  BY <1>1, ActiveType
<1>3. ASSUME NEW i \in Decidable
      PROVE  /\ i \in Instances /\ HasDecision(i)
             /\ VerdictNow(i) \in Types /\ Latest(i).decision \in Types
  <2>1. i \in Instances /\ HasDecision(i)
    BY <1>1 DEF Decidable, DecidedHasHistory
  <2>2. VerdictNow(i) \in Types
    BY <1>1, <1>2, <2>1, CapturedType, EvaluateType DEF VerdictNow
  <2>3. Latest(i).decision \in Types
    BY <1>1, <2>1, LatestType DEF Row
  <2> QED
    BY <2>1, <2>2, <2>3
<1>4. ASSUME NEW flip \in Flips PROVE flip \in Flip /\ HasDecision(flip.instance)
  <2>1. PICK i \in Decidable :
           flip = [instance |-> i, before |-> Latest(i).decision, after |-> VerdictNow(i)]
    BY DEF Flips
  <2> QED
    BY <2>1, <1>3 DEF Flip
<1> QED
  BY <1>4

LEMMA AlertCalls ==
    ASSUME IInv, NEW c \in Clients,
           Recheck(c) \/ RecheckFails(c) \/ DryRun(c) \/ DetectFails(c)
    PROVE  IInv'
<1>1. calls \in [Clients -> Call] /\ calls[c] \in Call
  BY DEF IInv, TypeOK, CallsOK
<1>2. Resume(calls[c]) \in Call /\ Remembers(Resume(calls[c]))
  BY <1>1, ResumeType, RemembersNothing
<1>3. calls[c].names \in SUBSET Sources
  BY <1>1 DEF Call
<1>4. CASE Recheck(c)
  <2> DEFINE new == IF \E name \in calls[c].names : Changed(name)
                    THEN [calls[c] EXCEPT !.pc = "dryrun"] ELSE Resume(calls[c])
  <2>1. [calls[c] EXCEPT !.pc = "dryrun"] \in Call
    BY <1>1 DEF Call
  <2>2. [calls[c] EXCEPT !.pc = "dryrun"].pc = "dryrun"
    BY <1>1 DEF Call
  <2>3. new \in Call /\ Remembers(new)
    BY <1>2, <2>1, <2>2, RemembersNothing
  <2>4. calls' = [calls EXCEPT ![c] = new]
    BY <1>4 DEF Recheck
  <2> HIDE DEF new
  <2> QED
    BY <1>4, <2>3, <2>4, OneCall DEF Recheck
<1>5. CASE RecheckFails(c)
  <2>1. Failed(calls[c], calls[c].names) \in Call /\ Remembers(Failed(calls[c], calls[c].names))
    BY <1>1, <1>3, FailedType, RemembersNothing
  <2> QED
    BY <1>5, <2>1, OneCall DEF RecheckFails
<1>6. CASE DryRun(c)
  <2> DEFINE new == IF active # 0 /\ Flips # {}
                    THEN [calls[c] EXCEPT !.pc = "insert", !.flips = Flips] ELSE Resume(calls[c])
  <2>1. ASSUME active # 0
        PROVE  LET next == [calls[c] EXCEPT !.pc = "insert", !.flips = Flips]
               IN  next \in Call /\ Remembers(next)
    <3> DEFINE next == [calls[c] EXCEPT !.pc = "insert", !.flips = Flips]
    <3>1. Flips \in SUBSET Flip /\ \A flip \in Flips : HasDecision(flip.instance)
      BY <2>1, FlipsType
    <3>2. next \in Call /\ next.pc = "insert" /\ next.flips = Flips
      BY <1>1, <3>1 DEF Call
    <3> HIDE DEF next
    <3>3. Remembers(next)
      BY <3>1, <3>2 DEF Remembers
    <3> QED
      BY <3>2, <3>3 DEF next
  <2>2. new \in Call /\ Remembers(new)
    BY <1>2, <2>1
  <2>3. calls' = [calls EXCEPT ![c] = new]
    BY <1>6 DEF DryRun
  <2> HIDE DEF new
  <2> QED
    BY <1>6, <2>2, <2>3, OneCall DEF DryRun
<1>7. CASE DetectFails(c)
  BY <1>2, <1>7, OneCall DEF DetectFails
<1> QED
  BY <1>4, <1>5, <1>6, <1>7

LEMMA DecisionCalls ==
    ASSUME IInv, NEW c \in Clients,
           \/ \E all \in BOOLEAN, selection \in SUBSET Instances :
                 \/ \E key \in Keys \union {NoKey} : StartRun(c, all, selection, key)
                 \/ StartReprocess(c, all, selection)
           \/ Turned(c) \/ Crash(c)
    PROVE  IInv'
<1>1. NoCall \in Call /\ Remembers(NoCall)
  BY NoCallType, RemembersNothing
<1>2. ASSUME NEW all \in BOOLEAN, NEW selection \in SUBSET Instances,
             NEW key \in Keys \union {NoKey}, StartRun(c, all, selection, key)
      PROVE  IInv'
  <2> DEFINE new == [NoCall EXCEPT !.op = "run", !.pc = IF Live = {} THEN "execute" ELSE "sync",
                                   !.all = all, !.selection = selection, !.key = key,
                                   !.todo = Live]
  <2>1. new \in Call /\ new.pc \in {"execute", "sync"}
    <3>1. Live \in SUBSET Sources
      BY ProcessAssumption DEF ProcessAssumption
    <3> QED
      BY <1>1, <3>1, ZenonT(60) DEF Call
  <2>2. calls' = [calls EXCEPT ![c] = new]
    BY <1>2 DEF StartRun
  <2> HIDE DEF new
  <2> QED
    BY <1>2, <2>1, <2>2, RemembersNothing, OneCall DEF StartRun
<1>3. ASSUME NEW all \in BOOLEAN, NEW selection \in SUBSET Instances,
             StartReprocess(c, all, selection)
      PROVE  IInv'
  <2> DEFINE new == [NoCall EXCEPT !.op = "reprocess",
                                   !.pc = IF Live = {} THEN "execute" ELSE "sync",
                                   !.all = all, !.selection = selection, !.todo = Live]
  <2>1. new \in Call /\ new.pc \in {"execute", "sync"}
    <3>1. Live \in SUBSET Sources
      BY ProcessAssumption DEF ProcessAssumption
    <3> QED
      BY <1>1, <3>1, ZenonT(60) DEF Call
  <2>2. calls' = [calls EXCEPT ![c] = new]
    BY <1>3 DEF StartReprocess
  <2> HIDE DEF new
  <2> QED
    BY <1>3, <2>1, <2>2, RemembersNothing, OneCall DEF StartReprocess
<1>4. CASE Turned(c)
  BY <1>1, <1>4, OneCall DEF Turned
<1>5. CASE Crash(c)
  BY <1>1, <1>5, OneCall DEF Crash
<1> QED
  BY <1>2, <1>3, <1>4, <1>5

LEMMA ProposalCalls ==
    ASSUME IInv, NEW c \in Clients,
           \/ \E i \in Instances, kind \in Kinds : Ask(c, i, kind)
           \/ Answer(c) \/ AgentFails(c)
    PROVE  IInv'
<1>1. calls \in [Clients -> Call] /\ calls[c] \in Call /\ Remembers(calls[c])
  BY DEF IInv, TypeOK, CallsOK
<1>2. NoCall \in Call /\ Remembers(NoCall)
  BY NoCallType, RemembersNothing
<1>3. ASSUME NEW i \in Instances, NEW kind \in Kinds, Ask(c, i, kind) PROVE IInv'
  <2> DEFINE new == [NoCall EXCEPT !.op = kind, !.pc = "asked", !.selection = {i},
                                   !.about = Len(history[i])]
  <2>1. Len(history[i]) \in DOMAIN history[i] /\ Len(history[i]) \in Nat
    <3>1. CasesOK /\ HasDecision(i) /\ history[i] \in Seq(Row)
      BY <1>3 DEF Ask, Askable, IInv, TypeOK, CasesOK
    <3> QED
      BY <3>1, LatestType
  <2>2. /\ new \in Call /\ new.op = kind /\ new.pc = "asked"
        /\ new.selection = {i} /\ new.about = Len(history[i])
    BY <1>2, <2>1, ZenonT(60) DEF Call
  <2>3. calls' = [calls EXCEPT ![c] = new]
    BY <1>3 DEF Ask
  <2> HIDE DEF new
  <2>4. Remembers(new)
    BY <2>1, <2>2 DEF Remembers
  <2> QED
    BY <1>3, <2>2, <2>3, <2>4, OneCall DEF Ask
<1>4. CASE Answer(c)
  <2>1. PICK i \in calls[c].selection :
          calls' = [calls EXCEPT ![c] =
             IF Unchanged(c, i) THEN [@ EXCEPT !.pc = "answered", !.closing = Open(i, calls[c].op)]
             ELSE NoCall]
    BY <1>4 DEF Answer
  <2> DEFINE next == [calls[c] EXCEPT !.pc = "answered", !.closing = Open(i, calls[c].op)]
             new == IF Unchanged(c, i) THEN next ELSE NoCall
  <2>2. Open(i, calls[c].op) \in SUBSET Nat
    BY DEF Open, IInv, TypeOK, ProposalsOK
  <2>3. /\ next \in Call /\ next.op = calls[c].op /\ next.pc = "answered"
        /\ next.selection = calls[c].selection /\ next.about = calls[c].about
    BY <1>1, <2>2 DEF Call
  <2>4. calls[c].pc = "asked"
    BY <1>4 DEF Answer
  <2>5. calls' = [calls EXCEPT ![c] = new]
    BY <2>1
  <2> HIDE DEF next
  <2>6. Remembers(next)
    BY <1>1, <2>3, <2>4 DEF Remembers
  <2>7. new \in Call /\ Remembers(new)
    BY <1>2, <2>3, <2>6
  <2> HIDE DEF new
  <2> QED
    BY <1>4, <2>5, <2>7, OneCall DEF Answer
<1>5. CASE AgentFails(c)
  BY <1>2, <1>5, OneCall DEF AgentFails
<1> QED
  BY <1>3, <1>4, <1>5

-----------------------------------------------------------------------------
\* Steps that write tables of cases, loads and alerts

LEMMA CasesInv ==
    ASSUME IInv, NEW i \in Instances, NEW reading \in Readings \union {NoReading},
           Upload(i, reading) \/ Reextract(i, reading)
    PROVE  IInv'
<1>1. UNCHANGED <<history, executions, operations, versions, active, draft, findings, seen,
                  loads, world, calls, alerts, proposals>>
  BY DEF Upload, Reextract, runVars, versionVars, sourceVars
<1>2. cases \in [Instances -> Case] /\ cases[i] \in Case
  BY DEF IInv, TypeOK, CasesOK
<1>3. cases' \in [Instances -> Case]
  <2>1. CASE Upload(i, reading)
    BY <1>2, <2>1 DEF Upload, Attached, Case, Statuses
  <2>2. CASE Reextract(i, reading)
    BY <1>2, <2>2 DEF Reextract, Case, Statuses
  <2> QED
    BY <2>1, <2>2
<1>4. \A j \in Instances : cases'[j].status = "DECIDED" <=> cases[j].status = "DECIDED"
  <2>1. CASE Upload(i, reading)
    BY <1>2, <2>1 DEF Upload, Attached, Case, Statuses
  <2>2. CASE Reextract(i, reading)
    BY <1>2, <2>2 DEF Reextract, Case, Statuses
  <2> QED
    BY <2>1, <2>2
<1>5. CasesOK' /\ DecidedHasHistory'
  BY <1>1, <1>3, <1>4 DEF IInv, TypeOK, CasesOK, DecidedHasHistory, HasDecision
<1>6. /\ RowsOK' /\ ExecutionsOK' /\ VersionsOK' /\ LoadsOK' /\ ProposalsOK' /\ AlertsOK'
      /\ CallsOK'
  BY <1>1 DEF IInv, TypeOK, RowsOK, ExecutionsOK, VersionsOK, LoadsOK, ProposalsOK, AlertsOK,
              CallsOK, Remembers, HasDecision
<1> QED
  BY <1>5, <1>6 DEF IInv, TypeOK

LEMMA ChangeWorldInv ==
    ASSUME IInv, NEW name \in Sources, ChangeWorld(name)
    PROVE  IInv'
<1>1. UNCHANGED <<cases, history, executions, operations, versions, active, draft, findings,
                  seen, loads, calls, alerts, proposals>>
  BY DEF ChangeWorld, caseVars, runVars, versionVars
<1>2. world' \in [Sources -> [rows : Contents, at : Nat]]
  BY DEF ChangeWorld, IInv, TypeOK, LoadsOK
<1>3. LoadsOK'
  BY <1>1, <1>2 DEF IInv, TypeOK, LoadsOK
<1>4. /\ CasesOK' /\ RowsOK' /\ ExecutionsOK' /\ VersionsOK' /\ ProposalsOK' /\ AlertsOK'
      /\ CallsOK' /\ DecidedHasHistory'
  BY <1>1 DEF IInv, TypeOK, CasesOK, RowsOK, ExecutionsOK, VersionsOK, ProposalsOK, AlertsOK,
              CallsOK, Remembers, DecidedHasHistory, HasDecision
<1> QED
  BY <1>3, <1>4 DEF IInv, TypeOK

(* New loads after the old ones, and one request that goes on.                *)
LEMMA LoadsGrow ==
    ASSUME IInv, NEW c \in Clients, NEW new \in Call, Remembers(new),
           NEW more \in Seq(Load), loads' = loads \o more,
           calls' = [calls EXCEPT ![c] = new],
           UNCHANGED <<caseVars, runVars, versionVars, world, alerts, proposals>>
    PROVE  IInv'
<1>1. UNCHANGED <<cases, history, executions, operations, versions, active, draft, findings,
                  seen, world, alerts, proposals>>
  BY DEF caseVars, runVars, versionVars
<1>2. loads \in Seq(Load) /\ loads' \in Seq(Load) /\ DOMAIN loads \subseteq DOMAIN loads'
  <2>1. loads \in Seq(Load)
    BY DEF IInv, TypeOK, LoadsOK
  <2>2. loads' \in Seq(Load) /\ Len(loads') = Len(loads) + Len(more)
    BY <2>1, ConcatProperties
  <2> QED
    BY <2>1, <2>2
<1>3. /\ CasesOK' /\ RowsOK' /\ VersionsOK'
      /\ ProposalsOK' /\ AlertsOK' /\ DecidedHasHistory'
  BY <1>1 DEF IInv, TypeOK, CasesOK, RowsOK, VersionsOK, ProposalsOK, AlertsOK,
              DecidedHasHistory, HasDecision
<1>4. LoadsOK'
  BY <1>1, <1>2 DEF IInv, TypeOK, LoadsOK
<1>5. ExecutionsOK'
  BY <1>1, <1>2 DEF IInv, TypeOK, ExecutionsOK
<1>6. CallsOK'
  BY <1>1 DEF IInv, TypeOK, CallsOK, Remembers, HasDecision
<1> QED
  BY <1>3, <1>4, <1>5, <1>6 DEF IInv, TypeOK

LEMMA CommitLoadInv ==
    ASSUME IInv, NEW c \in Clients, CommitLoad(c)
    PROVE  IInv'
<1>1. calls[c] \in Call /\ Remembers(calls[c]) /\ calls[c].pc = "commit"
  BY DEF IInv, TypeOK, CallsOK, CommitLoad
<1>2. PICK name \in calls[c].names :
         LET done == [calls[c] EXCEPT !.got[name] = Len(loads) + 1]
         IN  /\ loads' = Append(loads, NewLoad(c, name))
             /\ calls' = [calls EXCEPT ![c] =
                   IF Differs(name, calls[c].fetched.rows)
                   THEN [done EXCEPT !.pc = "recheck"]
                   ELSE Resume(done)]
  BY DEF CommitLoad
<1> DEFINE done == [calls[c] EXCEPT !.got[name] = Len(loads) + 1]
           again == [done EXCEPT !.pc = "recheck"]
           new == IF Differs(name, calls[c].fetched.rows) THEN again ELSE Resume(done)
<1>3. name \in Sources /\ loads \in Seq(Load)
  BY <1>1 DEF Call, IInv, TypeOK, LoadsOK
<1>4. done \in Call
  <2> DEFINE got == [calls[c].got EXCEPT ![name] = Len(loads) + 1]
  <2>1. got \in [Sources -> Nat]
    <3>1. calls[c].got \in [Sources -> Nat]
      BY <1>1 DEF Call
    <3>2. Len(loads) + 1 \in Nat
      BY <1>3
    <3> QED
      BY <3>1, <3>2, <1>3
  <2>2. done = [calls[c] EXCEPT !.got = got]
    BY <1>1 DEF Call
  <2> HIDE DEF got
  <2> QED
    BY <1>1, <2>1, <2>2 DEF Call
<1>5. calls' = [calls EXCEPT ![c] = new]
  BY <1>2
<1> HIDE DEF done
<1>6. again \in Call /\ again.pc = "recheck"
  BY <1>4 DEF Call
<1> HIDE DEF again
<1>7. new \in Call /\ Remembers(new)
  BY <1>4, <1>6, ResumeType, RemembersNothing
<1> HIDE DEF new
<1>8. NewLoad(c, name) \in Load
  <2>1. calls[c].fetched.rows \in Contents
    BY <1>1 DEF Remembers
  <2>2. calls[c].fetched.at \in Nat
    BY <1>1 DEF Call
  <2> QED
    BY <1>3, <2>1, <2>2 DEF NewLoad, Load
<1>9. loads' = loads \o <<NewLoad(c, name)>> /\ <<NewLoad(c, name)>> \in Seq(Load)
  BY <1>2, <1>3, <1>8, AppendIsConcat
<1> QED
  BY <1>5, <1>7, <1>9, LoadsGrow DEF CommitLoad

LEMMA LoadWorkbookInv ==
    ASSUME IInv, NEW c \in Clients, NEW names \in SUBSET (Sources \ Connected),
           LoadWorkbook(c, names)
    PROVE  IInv'
<1>1. calls[c] \in Call
  BY DEF IInv, TypeOK, CallsOK
<1>2. PICK order \in [1..Cardinality(names) -> names], rows \in [names -> Contents] :
         loads' = loads \o [k \in DOMAIN order |->
                     [name |-> order[k], rows |-> rows[order[k]], at |-> 0]]
  BY DEF LoadWorkbook
<1> DEFINE new == [calls[c] EXCEPT !.op = "workbook", !.pc = "recheck", !.names = names]
           more == [k \in DOMAIN order |->
                       [name |-> order[k], rows |-> rows[order[k]], at |-> 0]]
<1>3. new \in Call /\ new.pc = "recheck"
  BY <1>1 DEF Call
<1>4. calls' = [calls EXCEPT ![c] = new]
  BY DEF LoadWorkbook
<1>5. Cardinality(names) \in Nat
  <2>1. IsFiniteSet(Sources) /\ names \subseteq Sources
    BY ProcessAssumption
  <2>2. IsFiniteSet(names)
    BY <2>1, FS_Subset, Zenon
  <2> QED
    BY <2>2, FS_CardinalityType, Zenon
<1>6. more \in [1..Cardinality(names) -> Load]
  BY DEF Load
<1>7. more \in Seq(Load)
  BY <1>5, <1>6
<1> HIDE DEF new, more
<1> QED
  BY <1>2, <1>3, <1>4, <1>7, RemembersNothing, LoadsGrow DEF LoadWorkbook, more

LEMMA AlertsInv ==
    ASSUME IInv,
           (\E c \in Clients : InsertAlerts(c)) \/ (\E a \in alerts : Ack(a))
    PROVE  IInv'
<1>1. UNCHANGED <<cases, history, executions, operations, versions, active, draft, findings,
                  seen, loads, world, proposals>>
  BY DEF InsertAlerts, Ack, caseVars, runVars, versionVars, sourceVars
<1>2. /\ CasesOK' /\ RowsOK' /\ ExecutionsOK' /\ VersionsOK' /\ LoadsOK'
      /\ ProposalsOK' /\ DecidedHasHistory'
  BY <1>1 DEF IInv, TypeOK, CasesOK, RowsOK, ExecutionsOK, VersionsOK, LoadsOK, ProposalsOK,
              DecidedHasHistory, HasDecision
<1>3. ASSUME NEW c \in Clients, InsertAlerts(c) PROVE AlertsOK' /\ CallsOK'
  <2>1. calls \in [Clients -> Call] /\ calls[c] \in Call /\ Remembers(calls[c])
    BY DEF IInv, TypeOK, CallsOK
  <2>2. ASSUME NEW flip \in calls[c].flips
        PROVE  /\ AlertOf(flip, Trigger(c)) \in Alert
               /\ AlertOf(flip, Trigger(c)).decision
                     \in DOMAIN history[AlertOf(flip, Trigger(c)).instance]
    <3>1. flip \in Flip /\ HasDecision(flip.instance)
      BY <1>3, <2>1 DEF InsertAlerts, Remembers, Call
    <3>2. flip.instance \in Instances
      BY <3>1 DEF Flip
    <3>3. Len(history[flip.instance]) \in DOMAIN history[flip.instance]
      BY <3>1, <3>2, LatestType DEF IInv, TypeOK
    <3>4. Len(history[flip.instance]) \in Nat
      BY <3>2 DEF IInv, TypeOK, CasesOK
    <3>5. Trigger(c) \in {"rule_change", "source_sync"}
      BY DEF Trigger
    <3> QED
      BY <3>1, <3>2, <3>3, <3>4, <3>5 DEF AlertOf, Alert, Flip
  <2>3. alerts' \subseteq alerts \union {AlertOf(flip, Trigger(c)) : flip \in calls[c].flips}
    BY <1>3 DEF InsertAlerts
  <2>4. AlertsOK'
    BY <1>1, <2>2, <2>3 DEF IInv, TypeOK, AlertsOK
  <2>5. calls' = [calls EXCEPT ![c] = Resume(calls[c])]
    BY <1>3 DEF InsertAlerts
  <2>6. Resume(calls[c]) \in Call /\ Remembers(Resume(calls[c]))
    BY <2>1, ResumeType, RemembersNothing
  <2>7. CallsOK'
    BY <1>1, <2>1, <2>5, <2>6 DEF IInv, TypeOK, CallsOK, Remembers, HasDecision
  <2> QED
    BY <2>4, <2>7
<1>4. ASSUME NEW a \in alerts, Ack(a) PROVE AlertsOK' /\ CallsOK'
  <2>1. a \in Alert /\ a.decision \in DOMAIN history[a.instance]
    BY DEF IInv, TypeOK, AlertsOK
  <2> DEFINE done == [a EXCEPT !.status = "acknowledged"]
  <2>2. done \in Alert /\ done.decision = a.decision /\ done.instance = a.instance
    BY <2>1 DEF Alert
  <2>3. alerts' = (alerts \ {a}) \union {done} /\ UNCHANGED calls
    BY <1>4 DEF Ack
  <2> HIDE DEF done
  <2>4. AlertsOK'
    BY <1>1, <2>1, <2>2, <2>3 DEF IInv, TypeOK, AlertsOK
  <2>5. CallsOK'
    BY <1>1, <2>3 DEF IInv, TypeOK, CallsOK, Remembers, HasDecision
  <2> QED
    BY <2>4, <2>5
<1> QED
  BY <1>2, <1>3, <1>4 DEF IInv, TypeOK

-----------------------------------------------------------------------------
\* Steps of the draft and of publication

LEMMA NoDraftType == NoDraft \in Drafts /\ NoDraft.base = 0
  BY DEF NoDraft, Drafts, Validations, NoValidation

(* Every change a validation reports names a case and a row of its history.   *)
LEMMA InspectType ==
    ASSUME IInv, NEW s \in Snapshots
    PROVE  /\ Inspect(s).valid \in BOOLEAN
           /\ Inspect(s).changes \in SUBSET (Instances \X Nat)
<1>1. ASSUME NEW i \in Instances PROVE Compared(i) \in Nat
  <2>1. history[i] \in Seq(Row)
    BY DEF IInv, TypeOK, CasesOK
  <2>2. CASE EngineRows(i) = {}
    BY <2>1, <2>2 DEF Compared
  <2>3. CASE EngineRows(i) # {}
    <3>1. Len(history[i]) \in Nat /\ EngineRows(i) \in SUBSET (1..Len(history[i]))
      BY <2>1 DEF EngineRows
    <3>2. LastOf(EngineRows(i)) \in EngineRows(i)
      BY <2>3, <3>1, LastExists
    <3> QED
      BY <2>3, <3>1, <3>2 DEF Compared
  <2> QED
    BY <2>2, <2>3
<1>2. WellFormed[s] \in BOOLEAN /\ ExamplesHold[s] \in BOOLEAN
  BY ProcessAssumption
<1>3. Inspect(s).valid \in BOOLEAN
  BY <1>2 DEF Inspect
<1> DEFINE classes == [i \in Past |-> Class(s, i)]
<1>4. Inspect(s).changes = {<<i, Compared(i)>> : i \in {j \in Past : classes[j] = "change"}}
  BY DEF Inspect
<1>5. Past \subseteq Instances
  BY DEF Past
<1> HIDE DEF classes
<1> QED
  BY <1>1, <1>3, <1>4, <1>5

LEMMA CaptureType ==
    ASSUME IInv
    PROVE  Capture \in Captures
<1> DEFINE There == {j \in Instances : Exists(j)}
<1>1. [i \in There |-> cases[i].reading] \in [There -> Readings \union {NoReading}]
  BY DEF IInv, TypeOK, CasesOK, Case
<1>2. There \in SUBSET Instances
  OBVIOUS
<1>3. [i \in Instances |-> Len(history[i])] \in [Instances -> Nat]
  BY DEF IInv, TypeOK, CasesOK
<1>4. CurrentLoads \in SUBSET Nat
  BY DEF CurrentLoads, IInv, TypeOK, LoadsOK
<1> HIDE DEF There
<1>5. [i \in There |-> cases[i].reading] \in
         UNION {[J -> Readings \union {NoReading}] : J \in SUBSET Instances}
  BY <1>1, <1>2
<1> QED
  BY <1>3, <1>4, <1>5 DEF Capture, Captures, There

LEMMA StagedType ==
    ASSUME IInv, NEW s \in Snapshots
    PROVE  /\ Staged(s) \in Drafts /\ Staged(s).snapshot = s /\ Staged(s).base <= active
           /\ [Staged(s) EXCEPT !.base = active] \in Drafts
           /\ [Staged(s) EXCEPT !.base = active].snapshot = s
           /\ [Staged(s) EXCEPT !.base = active].base = active
<1>1. draft \in Drafts /\ draft.base <= active /\ active \in Nat
  BY DEF IInv, TypeOK, VersionsOK
<1>2. draft.revision \in Nat /\ draft.base \in Nat
  BY <1>1 DEF Drafts
<1>3. NoValidation \in Validations
  BY DEF Validations
<1> QED
  BY <1>1, <1>2, <1>3 DEF Staged, Drafts

LEMMA DraftInv ==
    ASSUME IInv, NEW c \in Clients,
           \/ ReadDraft(c) \/ Validate(c) \/ Discard(c)
           \/ \E s \in Snapshots : EditDraft(c, s)
    PROVE  IInv'
<1>1. UNCHANGED <<cases, history, executions, operations, versions, active, findings, loads,
                  world, calls, alerts, proposals>>
  BY DEF ReadDraft, Validate, Discard, EditDraft, caseVars, runVars, sourceVars
<1>2. /\ draft \in Drafts /\ draft.base <= active /\ seen \in [Clients -> Drafts]
      /\ draft = NoDraft \/ draft.snapshot \in Snapshots
      /\ active \in Nat
  BY DEF IInv, TypeOK, VersionsOK
<1>3. /\ draft' \in Drafts /\ draft'.base <= active
      /\ draft' = NoDraft \/ draft'.snapshot \in Snapshots
  <2>1. CASE ReadDraft(c)
    BY <2>1, <1>2 DEF ReadDraft
  <2>2. CASE Validate(c)
    <3>1. draft.snapshot \in Snapshots
      BY <2>2, <1>2 DEF Validate
    <3> DEFINE report == Inspect(draft.snapshot)
               validation == [valid |-> report.valid, changes |-> report.changes,
                              inputs |-> Capture, snapshot |-> draft.snapshot,
                              revision |-> draft.revision]
    <3>2. report.valid \in BOOLEAN /\ report.changes \in SUBSET (Instances \X Nat)
      BY <3>1, InspectType
    <3>3. draft' = [draft EXCEPT !.validation = validation]
      BY <2>2 DEF Validate
    <3> HIDE DEF report
    <3>4. validation \in Validations
      BY <1>2, <3>1, <3>2, CaptureType DEF Validations, Drafts
    <3> HIDE DEF validation
    <3> QED
      BY <1>2, <3>1, <3>3, <3>4 DEF Drafts
  <2>3. CASE Discard(c)
    BY <2>3, <1>2, NoDraftType DEF Discard
  <2>4. CASE \E s \in Snapshots : EditDraft(c, s)
    BY <2>4, <1>2, StagedType DEF EditDraft
  <2> QED
    BY <2>1, <2>2, <2>3, <2>4
<1>4. seen' \in [Clients -> Drafts]
  <2>1. seen' = seen \/ seen' = [seen EXCEPT ![c] = draft'] \/ seen' = [seen EXCEPT ![c] = draft]
    BY DEF ReadDraft, Validate, Discard, EditDraft, Told
  <2> QED
    BY <1>2, <1>3, <2>1
<1>5. VersionsOK'
  BY <1>1, <1>3, <1>4 DEF IInv, TypeOK, VersionsOK
<1>6. /\ CasesOK' /\ RowsOK' /\ ExecutionsOK' /\ LoadsOK' /\ ProposalsOK' /\ AlertsOK'
      /\ CallsOK' /\ DecidedHasHistory'
  BY <1>1 DEF IInv, TypeOK, CasesOK, RowsOK, ExecutionsOK, LoadsOK, ProposalsOK, AlertsOK,
              CallsOK, Remembers, DecidedHasHistory, HasDecision
<1> QED
  BY <1>5, <1>6 DEF IInv, TypeOK

LEMMA StageInv ==
    ASSUME IInv, NEW s \in Snapshots, Stage(s)
    PROVE  IInv'
<1>1. UNCHANGED <<cases, history, executions, operations, versions, active, findings, seen,
                  loads, world, calls, alerts, proposals>>
  BY DEF Stage, caseVars, runVars, sourceVars
<1>2. VersionsOK'
  BY <1>1, StagedType DEF Stage, IInv, TypeOK, VersionsOK
<1>3. /\ CasesOK' /\ RowsOK' /\ ExecutionsOK' /\ LoadsOK' /\ ProposalsOK' /\ AlertsOK'
      /\ CallsOK' /\ DecidedHasHistory'
  BY <1>1 DEF IInv, TypeOK, CasesOK, RowsOK, ExecutionsOK, LoadsOK, ProposalsOK, AlertsOK,
              CallsOK, Remembers, DecidedHasHistory, HasDecision
<1> QED
  BY <1>2, <1>3 DEF IInv, TypeOK

(* Settling or superseding a proposal writes its status and nothing else.     *)
LEMMA StatusType ==
    ASSUME NEW p \in Proposal, NEW status \in {"accepted", "rejected", "superseded"}
    PROVE  LET new == [p EXCEPT !.status = status]
           IN  new \in Proposal /\ new.about = p.about /\ new.instance = p.instance
  BY DEF Proposal

(* New statuses for some proposals, while the histories grow.                 *)
LEMMA ProposalsSettled ==
    ASSUME ProposalsOK, NEW done \in Seq(Proposal), DOMAIN done = DOMAIN proposals,
           \A p \in DOMAIN proposals : /\ done[p].about = proposals[p].about
                                      /\ done[p].instance = proposals[p].instance,
           \A i \in Instances : DOMAIN history[i] \subseteq DOMAIN history'[i],
           proposals' = done
    PROVE  ProposalsOK'
<1>1. \A p \in DOMAIN proposals : proposals[p].instance \in Instances
  <2>1. \A p \in DOMAIN proposals : proposals[p] \in Proposal
    BY DEF ProposalsOK
  <2> QED
    BY <2>1 DEF Proposal
<1> QED
  BY <1>1 DEF ProposalsOK

LEMMA ProposalsMapped ==
    ASSUME ProposalsOK, NEW done, DOMAIN done = DOMAIN proposals,
           \A p \in DOMAIN proposals : done[p] \in Proposal,
           done = [p \in DOMAIN proposals |-> done[p]]
    PROVE  done \in Seq(Proposal)
<1>1. DOMAIN proposals = 1..Len(proposals) /\ Len(proposals) \in Nat
  BY DEF ProposalsOK
<1>2. done \in [1..Len(proposals) -> Proposal]
  BY <1>1
<1> QED
  BY <1>1, <1>2, SeqDef

LEMMA PublishInv ==
    ASSUME IInv, NEW c \in Clients, Publish(c)
    PROVE  IInv'
<1>1. UNCHANGED <<cases, history, executions, operations, seen, loads, world, alerts>>
  BY DEF Publish, caseVars, runVars, sourceVars
<1>2. /\ versions \in Seq(Version) /\ active = Len(versions) /\ active \in Nat
      /\ draft \in Drafts /\ draft.snapshot \in Snapshots
      /\ \A v \in DOMAIN versions : versions[v].parent = v - 1
  BY DEF IInv, TypeOK, VersionsOK, Publish
<1> DEFINE row == [snapshot |-> draft.snapshot, parent |-> active,
                   author |-> c, changes |-> draft.validation.changes]
<1>3. row \in Version
  <2>1. draft.validation \in Validations /\ draft.validation.valid
    BY <1>2 DEF Drafts, Publish, Approved
  <2>2. draft.validation # NoValidation
    BY <2>1 DEF NoValidation
  <2>3. draft.validation.changes \in SUBSET (Instances \X Nat)
    BY <2>1, <2>2 DEF Validations
  <2> QED
    BY <1>2, <2>3 DEF Version
<1>4. versions' = Append(versions, row) /\ active' = Len(versions) + 1 /\ draft' = NoDraft
  BY DEF Publish
<1>5. row.parent = active
  OBVIOUS
<1> HIDE DEF row
<1>6. /\ versions' \in Seq(Version) /\ Len(versions') = Len(versions) + 1
      /\ DOMAIN versions \subseteq DOMAIN versions'
      /\ \A v \in DOMAIN versions : versions'[v] = versions[v]
      /\ versions'[Len(versions) + 1] = row
  BY <1>2, <1>3, <1>4, AppendProperties
<1>7. VersionsOK'
  <2>1. \A v \in DOMAIN versions' : versions'[v].parent = v - 1
    <3> SUFFICES ASSUME NEW v \in DOMAIN versions' PROVE versions'[v].parent = v - 1
      OBVIOUS
    <3>1. v \in DOMAIN versions \/ v = Len(versions) + 1
      BY <1>2, <1>6
    <3> QED
      BY <1>2, <1>5, <1>6, <3>1
  <2>2. draft' \in Drafts /\ draft'.base <= active'
    BY <1>2, <1>4, NoDraftType
  <2>3. seen' \in [Clients -> Drafts]
    BY <1>1 DEF IInv, TypeOK, VersionsOK
  <2> QED
    BY <1>4, <1>6, <2>1, <2>2, <2>3 DEF VersionsOK
<1>8. CasesOK' /\ LoadsOK' /\ AlertsOK' /\ DecidedHasHistory'
  BY <1>1 DEF IInv, TypeOK, CasesOK, LoadsOK, AlertsOK, DecidedHasHistory, HasDecision
<1>9. RowsOK' /\ ExecutionsOK'
  BY <1>1, <1>6 DEF IInv, TypeOK, RowsOK, ExecutionsOK
<1>10. ProposalsOK'
  <2>1. proposals \in Seq(Proposal)
    BY DEF IInv, TypeOK, ProposalsOK
  <2>2. proposals' = [p \in DOMAIN proposals |->
           IF proposals[p].status = "open" /\ proposals[p].kind = "rule"
           THEN [proposals[p] EXCEPT !.status = "superseded"] ELSE proposals[p]]
    BY DEF Publish
  <2> DEFINE done == [p \in DOMAIN proposals |->
           IF proposals[p].status = "open" /\ proposals[p].kind = "rule"
           THEN [proposals[p] EXCEPT !.status = "superseded"] ELSE proposals[p]]
  <2>3. ASSUME NEW p \in DOMAIN proposals
        PROVE  done[p] \in Proposal /\ done[p].about = proposals[p].about
               /\ done[p].instance = proposals[p].instance
    <3>1. proposals[p] \in Proposal
      BY <2>1
    <3>2. done[p] = proposals[p] \/ done[p] = [proposals[p] EXCEPT !.status = "superseded"]
      OBVIOUS
    <3> QED
      BY <3>1, <3>2, StatusType
  <2>4. ProposalsOK
    BY DEF IInv, TypeOK
  <2>5. done \in Seq(Proposal)
    BY <2>3, <2>4, ProposalsMapped
  <2> QED
    BY <1>1, <2>2, <2>3, <2>4, <2>5, ProposalsSettled
<1>11. CallsOK'
  <2> DEFINE new == [calls[c] EXCEPT !.op = "publish", !.pc = "dryrun"]
  <2>1. calls[c] \in Call
    BY DEF IInv, TypeOK, CallsOK
  <2>2. new \in Call /\ new.pc = "dryrun"
    BY <2>1 DEF Call
  <2>3. calls' = calls \/ calls' = [calls EXCEPT ![c] = new]
    BY DEF Publish
  <2> HIDE DEF new
  <2>4. Remembers(new)
    BY <2>2, RemembersNothing
  <2> QED
    BY <1>1, <2>2, <2>3, <2>4 DEF IInv, TypeOK, CallsOK, Remembers, HasDecision
<1> QED
  BY <1>7, <1>8, <1>9, <1>10, <1>11 DEF IInv, TypeOK

-----------------------------------------------------------------------------
\* Steps of proposals, and the decisions of the engine and of people

LEMMA StoreInv ==
    ASSUME IInv, NEW c \in Clients, Store(c)
    PROVE  IInv'
<1>1. UNCHANGED <<cases, history, executions, operations, versions, active, draft, findings,
                  seen, loads, world, alerts>>
  BY DEF Store, caseVars, runVars, versionVars, sourceVars
<1>2. /\ CasesOK' /\ RowsOK' /\ ExecutionsOK' /\ VersionsOK' /\ LoadsOK' /\ AlertsOK'
      /\ DecidedHasHistory'
  BY <1>1 DEF IInv, TypeOK, CasesOK, RowsOK, ExecutionsOK, VersionsOK, LoadsOK, AlertsOK,
              DecidedHasHistory, HasDecision
<1>3. CallsOK'
  BY <1>1, NoCallType, RemembersNothing
     DEF Store, IInv, TypeOK, CallsOK, Remembers, HasDecision
<1>4. /\ calls[c] \in Call /\ calls[c].op \in Kinds
      /\ \A i \in calls[c].selection : calls[c].about \in DOMAIN history[i]
  BY DEF Store, IInv, TypeOK, CallsOK, Remembers
<1> DEFINE closed == [p \in DOMAIN proposals |->
              IF p \in calls[c].closing THEN [proposals[p] EXCEPT !.status = "superseded"]
              ELSE proposals[p]]
<1>5. PICK i \in calls[c].selection, proposed \in Types :
         proposals' = Append(closed, [instance |-> i, kind |-> calls[c].op,
                                      about |-> calls[c].about, proposed |-> proposed,
                                      status |-> "open"])
  BY DEF Store
<1> DEFINE row == [instance |-> i, kind |-> calls[c].op, about |-> calls[c].about,
                   proposed |-> proposed, status |-> "open"]
<1>6. row \in Proposal /\ row.about \in DOMAIN history[row.instance]
  <2>1. i \in Instances /\ calls[c].about \in Nat
    BY <1>4 DEF Call
  <2> QED
    BY <1>4, <2>1 DEF Proposal
<1>7. ProposalsOK
  BY DEF IInv, TypeOK
<1>8. ASSUME NEW p \in DOMAIN proposals
      PROVE  closed[p] \in Proposal /\ closed[p].about = proposals[p].about
             /\ closed[p].instance = proposals[p].instance
  <2>1. proposals[p] \in Proposal
    BY <1>7 DEF ProposalsOK
  <2>2. closed[p] = proposals[p] \/ closed[p] = [proposals[p] EXCEPT !.status = "superseded"]
    OBVIOUS
  <2> QED
    BY <2>1, <2>2, StatusType
<1>9. closed \in Seq(Proposal) /\ DOMAIN closed = DOMAIN proposals
  BY <1>7, <1>8, ProposalsMapped
<1> HIDE DEF closed, row
<1>10. /\ proposals' \in Seq(Proposal) /\ Len(proposals') = Len(closed) + 1
       /\ \A p \in DOMAIN closed : proposals'[p] = closed[p]
       /\ proposals'[Len(closed) + 1] = row
  BY <1>5, <1>6, <1>9, AppendProperties DEF row
<1>11. ASSUME NEW p \in DOMAIN proposals'
       PROVE  proposals'[p].about \in DOMAIN history[proposals'[p].instance]
  <2>1. p \in DOMAIN closed \/ p = Len(closed) + 1
    BY <1>9, <1>10
  <2>2. CASE p \in DOMAIN closed
    BY <1>7, <1>8, <1>9, <1>10, <2>2 DEF ProposalsOK
  <2>3. CASE p = Len(closed) + 1
    BY <1>6, <1>10, <2>3
  <2> QED
    BY <2>1, <2>2, <2>3
<1>12. ProposalsOK'
  BY <1>1, <1>10, <1>11 DEF ProposalsOK
<1> QED
  BY <1>2, <1>3, <1>12 DEF IInv, TypeOK

LEMMA RejectInv ==
    ASSUME IInv, NEW p \in DOMAIN proposals, Reject(p)
    PROVE  IInv'
<1>1. UNCHANGED <<cases, history, executions, operations, versions, active, draft, findings,
                  seen, loads, world, calls, alerts>>
  BY DEF Reject, caseVars, runVars, versionVars, sourceVars
<1>2. /\ CasesOK' /\ RowsOK' /\ ExecutionsOK' /\ VersionsOK' /\ LoadsOK' /\ AlertsOK'
      /\ CallsOK' /\ DecidedHasHistory'
  BY <1>1 DEF IInv, TypeOK, CasesOK, RowsOK, ExecutionsOK, VersionsOK, LoadsOK, AlertsOK,
              CallsOK, Remembers, DecidedHasHistory, HasDecision
<1>3. ProposalsOK /\ proposals \in Seq(Proposal)
  BY DEF IInv, TypeOK, ProposalsOK
<1> DEFINE row == [proposals[p] EXCEPT !.status = "rejected"]
           done == [proposals EXCEPT ![p] = row]
<1>4. /\ row \in Proposal /\ row.about = proposals[p].about
      /\ row.instance = proposals[p].instance
  <2>1. proposals[p] \in Proposal
    BY <1>3
  <2> QED
    BY <2>1, StatusType
<1>5. proposals' = done
  BY <1>3 DEF Reject
<1> HIDE DEF row
<1>6. done \in Seq(Proposal) /\ DOMAIN done = DOMAIN proposals
  BY <1>3, <1>4, ExceptSeq
<1>7. \A q \in DOMAIN proposals : /\ done[q].about = proposals[q].about
                                  /\ done[q].instance = proposals[q].instance
  BY <1>4
<1>8. ProposalsOK'
  BY <1>1, <1>3, <1>5, <1>6, <1>7, ProposalsSettled
<1> QED
  BY <1>2, <1>8 DEF IInv, TypeOK

(* Histories that grow, by one row or none, keep every reference into them.   *)
LEMMA HistoryGrows ==
    ASSUME IInv, CasesOK', DecidedHasHistory',
           \A i \in Instances : DOMAIN history[i] \subseteq DOMAIN history'[i],
           UNCHANGED <<versionVars, sourceVars, alerts>>,
           RowsOK', ExecutionsOK', ProposalsOK',
           calls' \in [Clients -> Call],
           \A c \in Clients : calls'[c] = calls[c] \/ calls'[c] = NoCall
    PROVE  IInv'
<1>1. UNCHANGED <<versions, active, draft, seen, loads, world, alerts>>
  BY DEF versionVars, sourceVars
<1>2. VersionsOK' /\ LoadsOK'
  BY <1>1 DEF IInv, TypeOK, VersionsOK, LoadsOK
<1>3. AlertsOK'
  <2>1. \A a \in alerts : a.instance \in Instances /\ a.decision \in DOMAIN history[a.instance]
    BY DEF IInv, TypeOK, AlertsOK, Alert
  <2> QED
    BY <1>1, <2>1 DEF IInv, TypeOK, AlertsOK
<1>4. ASSUME NEW c \in Clients PROVE Remembers(calls[c])'
  <2>1. calls[c] \in Call /\ Remembers(calls[c]) /\ NoCall \in Call /\ Remembers(NoCall)
    BY NoCallType, RemembersNothing DEF IInv, TypeOK, CallsOK
  <2>2. \A call \in Call : Remembers(call) => Remembers(call)'
    BY RemembersStays DEF IInv, TypeOK
  <2>3. \A call \in Call : calls'[c] = call /\ Remembers(call) => Remembers(calls[c])'
    BY <2>2 DEF Remembers
  <2> QED
    BY <2>1, <2>3
<1>5. CallsOK'
  BY <1>4 DEF CallsOK
<1> QED
  BY <1>2, <1>3, <1>5 DEF IInv, TypeOK

LEMMA DecideInv ==
    ASSUME IInv, NEW c \in Clients, active # 0, NEW who \in SUBSET Instances,
           NEW down \in SUBSET Sources,
           Decide(c, who, CapturedInputs(ActiveSnapshot, down)),
           calls' = [calls EXCEPT ![c] = NoCall],
           operations' \in [Keys -> [selection : SUBSET Instances, execution : Nat]],
           UNCHANGED <<versionVars, sourceVars, alerts, proposals>>
    PROVE  IInv'
<1> DEFINE inp == CapturedInputs(ActiveSnapshot, down)
<1>1. /\ CasesOK /\ RowsOK /\ ExecutionsOK /\ VersionsOK /\ LoadsOK /\ ProposalsOK
      /\ CallsOK /\ DecidedHasHistory
  BY DEF IInv, TypeOK
<1>2. ActiveSnapshot \in Snapshots /\ active \in DOMAIN versions /\ active \in Nat
  BY <1>1, ActiveType DEF VersionsOK
<1>3. inp \in Inputs /\ inp.source_ids \subseteq DOMAIN loads
  BY <1>1, <1>2, CapturedType
<1>4. Len(executions) \in Nat /\ executions \in Seq(Execution)
  BY <1>1 DEF ExecutionsOK
<1> DEFINE new(i, b) == EngineRow(inp, i, Len(executions) + 1, b)
<1>5. ASSUME NEW i \in Instances, NEW b \in BOOLEAN
      PROVE  /\ new(i, b) \in Row /\ new(i, b).version = active
             /\ new(i, b).execution = Len(executions) + 1
  <2>1. /\ Evaluate(ActiveSnapshot, inp, i).decision \in Types
        /\ Evaluate(ActiveSnapshot, inp, i).names \in SUBSET Symbols
    BY <1>1, <1>2, <1>3, EvaluateType
  <2> QED
    BY <1>2, <1>4, <2>1 DEF EngineRow, Row
<1>6. PICK asked \in SUBSET (IF Reviewed[ActiveSnapshot] THEN who ELSE {}) :
         /\ history' = [i \in Instances |->
               IF i \in who THEN Append(history[i], new(i, i \in asked)) ELSE history[i]]
         /\ cases' = [i \in Instances |->
               IF i \in who THEN [cases[i] EXCEPT !.status = "DECIDED"] ELSE cases[i]]
         /\ executions' = Append(executions,
               [version |-> active, inputs |-> inp, key |-> calls[c].key])
  BY DEF Decide
<1> HIDE DEF inp, new
<1>7. ASSUME NEW i \in Instances
      PROVE  /\ history'[i] \in Seq(Row)
             /\ DOMAIN history[i] \subseteq DOMAIN history'[i]
             /\ \A n \in DOMAIN history'[i] :
                   \/ n \in DOMAIN history[i] /\ history'[i][n] = history[i][n]
                   \/ /\ history'[i][n].version = active
                      /\ history'[i][n].execution = Len(executions) + 1
             /\ HasDecision(i)' <=> HasDecision(i) \/ i \in who
  <2>1. history[i] \in Seq(Row) /\ Len(history[i]) \in Nat
    BY <1>1 DEF CasesOK
  <2>2. CASE i \notin who
    <3>1. history'[i] = history[i]
      BY <1>6, <2>2
    <3> QED
      BY <2>1, <2>2, <3>1 DEF HasDecision
  <2>3. CASE i \in who
    <3> DEFINE row == new(i, i \in asked)
    <3>1. history'[i] = Append(history[i], row)
      BY <1>6, <2>3
    <3>2. (i \in asked) \in BOOLEAN
      OBVIOUS
    <3>3. row \in Row /\ row.version = active /\ row.execution = Len(executions) + 1
      BY <1>5, <3>2
    <3> HIDE DEF row
    <3>4. /\ history'[i] \in Seq(Row) /\ history'[i] # <<>>
          /\ Len(history'[i]) = Len(history[i]) + 1
          /\ \A n \in 1..Len(history[i]) : history'[i][n] = history[i][n]
          /\ history'[i][Len(history[i]) + 1] = row
      BY <2>1, <3>1, <3>3, AppendProperties
    <3>5. \A n \in DOMAIN history'[i] : n \in DOMAIN history[i] \/ n = Len(history[i]) + 1
      BY <2>1, <3>4
    <3>6. DOMAIN history[i] \subseteq DOMAIN history'[i]
      BY <2>1, <3>4
    <3>7. \A n \in DOMAIN history'[i] :
             \/ n \in DOMAIN history[i] /\ history'[i][n] = history[i][n]
             \/ /\ history'[i][n].version = active
                /\ history'[i][n].execution = Len(executions) + 1
      <4>1. \A n \in DOMAIN history[i] : history'[i][n] = history[i][n]
        <5>1. DOMAIN history[i] = 1..Len(history[i])
          BY <2>1
        <5>2. \A n \in 1..Len(history[i]) : history'[i][n] = history[i][n]
          BY <3>4
        <5> QED
          BY <5>1, <5>2, Zenon
      <4>2. LET n == Len(history[i]) + 1
            IN  /\ history'[i][n].version = active
                /\ history'[i][n].execution = Len(executions) + 1
        BY <3>3, <3>4
      <4> QED
        BY <3>5, <4>1, <4>2
    <3>8. HasDecision(i)'
      BY <3>4 DEF HasDecision
    <3> QED
      BY <2>3, <3>4, <3>6, <3>7, <3>8
  <2> QED
    BY <2>2, <2>3
<1>8. CasesOK'
  <2>1. ASSUME NEW i \in Instances PROVE cases'[i] \in Case
    <3>1. cases[i] \in Case
      BY <1>1 DEF CasesOK
    <3> QED
      BY <1>6, <3>1 DEF Case, Statuses
  <2>2. cases' \in [Instances -> Case]
    BY <1>6, <2>1
  <2>3. history' \in [Instances -> Seq(Row)]
    BY <1>6, <1>7
  <2> QED
    BY <2>2, <2>3 DEF CasesOK
<1>9. DecidedHasHistory'
  <2> SUFFICES ASSUME NEW i \in Instances
               PROVE  cases'[i].status = "DECIDED" <=> HasDecision(i)'
    BY DEF DecidedHasHistory
  <2>1. cases[i] \in Case
    BY <1>1 DEF CasesOK
  <2>2. cases'[i].status = "DECIDED" <=> cases[i].status = "DECIDED" \/ i \in who
    BY <1>6, <2>1 DEF Case
  <2> QED
    BY <1>1, <1>7, <2>2 DEF DecidedHasHistory
<1>10. /\ executions' \in Seq(Execution) /\ Len(executions') = Len(executions) + 1
       /\ \A e \in DOMAIN executions : executions'[e] = executions[e]
       /\ executions'[Len(executions) + 1] =
             [version |-> active, inputs |-> inp, key |-> calls[c].key]
  <2>1. calls[c].key \in Keys \union {NoKey}
    BY <1>1 DEF CallsOK, Call
  <2>2. [version |-> active, inputs |-> inp, key |-> calls[c].key] \in Execution
    BY <1>2, <1>3, <2>1 DEF Execution
  <2> QED
    BY <1>4, <1>6, <2>2, AppendProperties
<1>11. UNCHANGED <<versions, active, draft, seen, loads, world, alerts, proposals>>
  BY DEF versionVars, sourceVars
<1>12. RowsOK'
  <2> SUFFICES ASSUME NEW i \in Instances, NEW n \in DOMAIN history'[i]
               PROVE  /\ history'[i][n].version \in DOMAIN versions
                      /\ history'[i][n].execution \in 0..Len(executions')
    BY <1>11 DEF RowsOK
  <2>1. CASE n \in DOMAIN history[i] /\ history'[i][n] = history[i][n]
    BY <1>1, <1>4, <1>10, <2>1 DEF RowsOK
  <2>2. CASE /\ history'[i][n].version = active
             /\ history'[i][n].execution = Len(executions) + 1
    BY <1>2, <1>4, <1>10, <2>2
  <2> QED
    BY <1>7, <2>1, <2>2
<1>13. ExecutionsOK'
  <2> SUFFICES ASSUME NEW e \in DOMAIN executions'
               PROVE  /\ executions'[e].version \in DOMAIN versions
                      /\ executions'[e].inputs.source_ids \subseteq DOMAIN loads
    BY <1>10, <1>11 DEF ExecutionsOK
  <2>1. e \in DOMAIN executions \/ e = Len(executions) + 1
    BY <1>4, <1>10
  <2>2. CASE e \in DOMAIN executions
    BY <1>1, <1>10, <2>2 DEF ExecutionsOK
  <2>3. CASE e = Len(executions) + 1
    BY <1>2, <1>3, <1>10, <2>3
  <2> QED
    BY <2>1, <2>2, <2>3
<1>14. ProposalsOK'
  BY <1>1, <1>7, <1>11, ProposalsSettled DEF ProposalsOK
<1>15. calls' \in [Clients -> Call] /\ \A d \in Clients : calls'[d] = calls[d] \/ calls'[d] = NoCall
  BY <1>1, NoCallType DEF CallsOK
<1> QED
  BY <1>7, <1>8, <1>9, <1>12, <1>13, <1>14, <1>15, HistoryGrows

LEMMA ExecuteInv ==
    ASSUME IInv, NEW c \in Clients, ExecuteRun(c) \/ ExecuteReprocess(c)
    PROVE  IInv'
<1>1. calls[c] \in Call /\ calls[c].down \in SUBSET Sources
  BY DEF IInv, TypeOK, CallsOK, Call
<1>2. operations \in [Keys -> [selection : SUBSET Instances, execution : Nat]]
      /\ Len(executions) + 1 \in Nat
  BY DEF IInv, TypeOK, ExecutionsOK
<1>3. CASE ExecuteRun(c)
  <2>1. Chosen(c, "PENDING") \in SUBSET Instances
    BY DEF Chosen
  <2>2. operations' \in [Keys -> [selection : SUBSET Instances, execution : Nat]]
    <3>1. [selection |-> calls[c].selection, execution |-> Len(executions) + 1]
             \in [selection : SUBSET Instances, execution : Nat]
      BY <1>1, <1>2 DEF Call
    <3> QED
      BY <1>2, <1>3, <3>1 DEF ExecuteRun
  <2> QED
    BY <1>1, <1>3, <2>1, <2>2, DecideInv DEF ExecuteRun
<1>4. CASE ExecuteReprocess(c)
  <2> DEFINE inp == CapturedInputs(ActiveSnapshot, calls[c].down)
             who == {i \in Chosen(c, "DECIDED") : Replaceable(i, inp)}
  <2>1. who \in SUBSET Instances
    BY DEF Chosen
  <2>2. Decide(c, who, inp) /\ active # 0 /\ UNCHANGED operations
    BY <1>4 DEF ExecuteReprocess
  <2>3. operations' \in [Keys -> [selection : SUBSET Instances, execution : Nat]]
    BY <1>2, <2>2
  <2> HIDE DEF who
  <2> QED
    BY <1>1, <1>4, <2>1, <2>2, <2>3, DecideInv DEF ExecuteReprocess
<1> QED
  BY <1>3, <1>4

LEMMA ResolveInv ==
    ASSUME IInv, NEW person \in People, NEW i \in Instances, NEW type \in Types, NEW named,
           Resolve(person, i, type, named)
    PROVE  IInv'
<1>1. /\ CasesOK /\ RowsOK /\ ExecutionsOK /\ VersionsOK /\ LoadsOK /\ ProposalsOK
      /\ CallsOK /\ DecidedHasHistory
  BY DEF IInv, TypeOK
<1>2. UNCHANGED <<executions, operations, versions, active, draft, seen, loads, world, calls,
                  alerts>>
  BY DEF Resolve, runVars, versionVars, sourceVars
<1> DEFINE row == PersonRow(i, person, type)
<1>3. row \in Row /\ row.version \in DOMAIN versions /\ row.execution \in 0..Len(executions)
  <2>1. CASE HasDecision(i)
    <3>1. Latest(i) \in Row /\ Len(history[i]) \in DOMAIN history[i]
      BY <1>1, <2>1, LatestType
    <3>2. Latest(i).version \in DOMAIN versions /\ Latest(i).execution \in 0..Len(executions)
      BY <1>1, <3>1 DEF RowsOK, Latest
    <3> QED
      BY <2>1, <3>1, <3>2 DEF PersonRow, Row
  <2>2. CASE ~HasDecision(i)
    <3>1. active # 0
      BY <2>2 DEF Resolve, TypesFor
    <3>2. active \in DOMAIN versions /\ active \in Nat /\ Len(executions) \in Nat
      BY <1>1, <3>1, ActiveType DEF VersionsOK, ExecutionsOK
    <3> QED
      BY <2>2, <3>2 DEF PersonRow, Row
  <2> QED
    BY <2>1, <2>2
<1>4. history[i] \in Seq(Row) /\ history' = [history EXCEPT ![i] = Append(history[i], row)]
  BY <1>1 DEF CasesOK, Resolve
<1> HIDE DEF row
<1>5. /\ Append(history[i], row) \in Seq(Row) /\ Append(history[i], row) # <<>>
      /\ Len(Append(history[i], row)) = Len(history[i]) + 1
      /\ \A n \in 1..Len(history[i]) : Append(history[i], row)[n] = history[i][n]
      /\ Append(history[i], row)[Len(history[i]) + 1] = row
  BY <1>3, <1>4, AppendProperties
<1>6. ASSUME NEW j \in Instances
      PROVE  /\ history'[j] \in Seq(Row)
             /\ DOMAIN history[j] \subseteq DOMAIN history'[j]
             /\ \A n \in DOMAIN history'[j] :
                   \/ n \in DOMAIN history[j] /\ history'[j][n] = history[j][n]
                   \/ history'[j][n] = row
             /\ HasDecision(j)' <=> HasDecision(j) \/ j = i
  <2>1. CASE j # i
    <3>1. history'[j] = history[j] /\ history[j] \in Seq(Row)
      BY <1>1, <1>4, <2>1 DEF CasesOK
    <3> QED
      BY <2>1, <3>1 DEF HasDecision
  <2>2. CASE j = i
    <3>1. history'[j] = Append(history[i], row)
      BY <1>1, <1>4, <2>2 DEF CasesOK
    <3>2. DOMAIN history[j] \subseteq DOMAIN history'[j]
      BY <1>4, <1>5, <2>2, <3>1
    <3>3. \A n \in DOMAIN history'[j] : n \in DOMAIN history[j] \/ n = Len(history[j]) + 1
      BY <1>4, <1>5, <2>2, <3>1
    <3>4. \A n \in DOMAIN history'[j] :
             \/ n \in DOMAIN history[j] /\ history'[j][n] = history[j][n]
             \/ history'[j][n] = row
      BY <1>4, <1>5, <2>2, <3>1, <3>3
    <3>5. HasDecision(j)'
      BY <1>5, <3>1 DEF HasDecision
    <3> QED
      BY <1>5, <2>2, <3>1, <3>2, <3>4, <3>5
  <2> QED
    BY <2>1, <2>2
<1>7. cases' = [cases EXCEPT ![i] = [cases[i] EXCEPT !.status = "DECIDED"]]
  BY DEF Resolve
<1>8. CasesOK'
  <2>1. [cases[i] EXCEPT !.status = "DECIDED"] \in Case
    BY <1>1 DEF CasesOK, Case, Statuses
  <2>2. cases' \in [Instances -> Case]
    BY <1>1, <1>7, <2>1 DEF CasesOK
  <2>3. history' \in [Instances -> Seq(Row)]
    BY <1>1, <1>4, <1>5 DEF CasesOK
  <2> QED
    BY <2>2, <2>3 DEF CasesOK
<1>9. DecidedHasHistory'
  <2> SUFFICES ASSUME NEW j \in Instances
               PROVE  cases'[j].status = "DECIDED" <=> HasDecision(j)'
    BY DEF DecidedHasHistory
  <2>1. cases[j] \in Case /\ cases \in [Instances -> Case]
    BY <1>1 DEF CasesOK
  <2>2. cases'[j].status = "DECIDED" <=> cases[j].status = "DECIDED" \/ j = i
    BY <1>7, <2>1 DEF Case
  <2> QED
    BY <1>1, <1>6, <2>2 DEF DecidedHasHistory
<1>10. RowsOK'
  BY <1>1, <1>2, <1>3, <1>6 DEF RowsOK
<1>11. ExecutionsOK'
  BY <1>1, <1>2 DEF ExecutionsOK
<1>12. ProposalsOK'
  <2> DEFINE done == [q \in DOMAIN proposals |-> SettledBy(q, named, i, type)]
  <2>1. ASSUME NEW q \in DOMAIN proposals
        PROVE  done[q] \in Proposal /\ done[q].about = proposals[q].about
               /\ done[q].instance = proposals[q].instance
    <3>1. proposals[q] \in Proposal
      BY <1>1 DEF ProposalsOK
    <3>2. \/ done[q] = proposals[q]
          \/ \E status \in {"accepted", "rejected", "superseded"} :
                done[q] = [proposals[q] EXCEPT !.status = status]
      BY DEF SettledBy
    <3>3. CASE done[q] = proposals[q]
      BY <3>1, <3>3
    <3>4. CASE \E status \in {"accepted", "rejected", "superseded"} :
                  done[q] = [proposals[q] EXCEPT !.status = status]
      <4>1. PICK status \in {"accepted", "rejected", "superseded"} :
               done[q] = [proposals[q] EXCEPT !.status = status]
        BY <3>4
      <4> HIDE DEF done
      <4> QED
        BY <3>1, <4>1, StatusType, ZenonT(60)
    <3> QED
      BY <3>2, <3>3, <3>4
  <2>2. proposals' = done
    BY DEF Resolve
  <2>3. DOMAIN done = DOMAIN proposals /\ done = [q \in DOMAIN proposals |-> done[q]]
    OBVIOUS
  <2> HIDE DEF done
  <2>4. done \in Seq(Proposal)
    BY <1>1, <2>1, <2>3, ProposalsMapped
  <2> QED
    BY <1>1, <1>6, <2>1, <2>2, <2>3, <2>4, ProposalsSettled
<1>13. calls' \in [Clients -> Call] /\ \A d \in Clients : calls'[d] = calls[d] \/ calls'[d] = NoCall
  BY <1>1, <1>2 DEF CallsOK
<1>14. UNCHANGED <<versionVars, sourceVars, alerts>>
  BY DEF Resolve
<1> QED
  BY <1>6, <1>8, <1>9, <1>10, <1>11, <1>12, <1>13, <1>14, HistoryGrows

-----------------------------------------------------------------------------
\* The theorems

LEMMA InitInv == Init => IInv
<1> SUFFICES ASSUME Init PROVE IInv
  OBVIOUS
<1>1. \A i \in Instances : history[i] = <<>> /\ ~HasDecision(i)
  BY DEF Init, HasDecision
<1>2. CasesOK
  BY DEF Init, CasesOK, Case, Statuses
<1>3. DecidedHasHistory
  BY <1>1 DEF Init, DecidedHasHistory
<1>4. RowsOK
  BY <1>1 DEF RowsOK
<1>5. ExecutionsOK
  BY DEF Init, ExecutionsOK, NoOperation
<1>6. VersionsOK
  <2>1. NoDraft \in Drafts /\ NoDraft.base = 0
    BY NoDraftType
  <2>2. CASE First = NoSnapshot
    BY <2>1, <2>2 DEF Init, VersionsOK
  <2>3. CASE First # NoSnapshot
    <3> DEFINE row == [snapshot |-> First, parent |-> 0, author |-> Engine, changes |-> {}]
    <3>1. row \in Version /\ row.parent = 0
      BY <2>3, ProcessAssumption DEF Version
    <3>2. versions = <<row>>
      BY <2>3 DEF Init
    <3> HIDE DEF row
    <3>3. versions \in Seq(Version) /\ Len(versions) = 1 /\ versions[1] = row
      BY <3>1, <3>2
    <3> QED
      BY <2>1, <3>1, <3>3 DEF Init, VersionsOK
  <2> QED
    BY <2>2, <2>3
<1>7. LoadsOK
  BY DEF Init, LoadsOK
<1>8. ProposalsOK /\ AlertsOK
  BY DEF Init, ProposalsOK, AlertsOK
<1>9. CallsOK
  BY NoCallType, RemembersNothing DEF Init, CallsOK
<1> QED
  BY <1>2, <1>3, <1>4, <1>5, <1>6, <1>7, <1>8, <1>9 DEF IInv, TypeOK

LEMMA StepInv == IInv /\ [Next]_vars => IInv'
<1> SUFFICES ASSUME IInv, [Next]_vars PROVE IInv'
  OBVIOUS
<1>1. CASE UNCHANGED vars
  BY <1>1 DEF vars, caseVars, runVars, versionVars, sourceVars, IInv, TypeOK, CasesOK, RowsOK,
              ExecutionsOK, VersionsOK, LoadsOK, ProposalsOK, AlertsOK, CallsOK, Remembers,
              DecidedHasHistory, HasDecision
<1>2. CASE CasesNext
  BY <1>2, CasesInv DEF CasesNext
<1>3. CASE SourcesNext
  BY <1>3, ChangeWorldInv, SourceCalls, CommitLoadInv, LoadWorkbookInv DEF SourcesNext
<1>4. CASE AlertsNext
  BY <1>4, AlertCalls, AlertsInv DEF AlertsNext
<1>5. CASE DecisionsNext
  BY <1>5, DecisionCalls, ExecuteInv, ResolveInv DEF DecisionsNext
<1>6. CASE VersionsNext
  <2>1. ASSUME NEW c \in Clients, Publish(c) PROVE IInv'
    BY <2>1, PublishInv
  <2>2. ASSUME NEW c \in Clients, ReadDraft(c) \/ Validate(c) \/ Discard(c) PROVE IInv'
    BY <2>2, DraftInv
  <2>3. ASSUME NEW c \in Clients, NEW s \in Snapshots, EditDraft(c, s) PROVE IInv'
    BY <2>3, DraftInv
  <2>4. ASSUME NEW s \in Snapshots, Stage(s) PROVE IInv'
    BY <2>4, StageInv
  <2> QED
    BY <1>6, <2>1, <2>2, <2>3, <2>4 DEF VersionsNext
<1>7. CASE ProposalsNext
  BY <1>7, ProposalCalls, StoreInv, RejectInv DEF ProposalsNext
<1>8. CASE \E c \in Clients : Crash(c)
  BY <1>8, DecisionCalls
<1> QED
  BY <1>1, <1>2, <1>3, <1>4, <1>5, <1>6, <1>7, <1>8 DEF Next

(* Every table of a process holds rows of its kind, and every reference       *)
(* between decisions, executions, versions, loads, proposals and alerts names *)
(* a row that exists, whatever requests interleave.                           *)
THEOREM ProcessTypeCorrect == Spec => []TypeOK
<1>1. IInv => TypeOK
  BY DEF IInv
<1> QED
  BY <1>1, InitInv, StepInv, PTL DEF Spec

(* A case is DECIDED exactly when it has a decision: the status a run filters *)
(* by and the history a reprocess reads never tell different things.          *)
THEOREM ProcessDecided == Spec => []DecidedHasHistory
<1>1. IInv => DecidedHasHistory
  BY DEF IInv
<1> QED
  BY <1>1, InitInv, StepInv, PTL DEF Spec

(* The histories of cases change in three places: a run appends to cases      *)
(* without a decision, a reprocess to cases no person holds, and a resolution *)
(* appends a person's row.                                                    *)
LEMMA HumanWordStep ==
    ASSUME IInv, [Next]_vars, NEW i \in Instances,
           HasDecision(i), HeldByPerson(Latest(i)), Len(history'[i]) > Len(history[i])
    PROVE  history'[i][Len(history'[i])].author # Engine
<1>1. history \in [Instances -> Seq(Row)] /\ history[i] \in Seq(Row) /\ Len(history[i]) \in Nat
  BY DEF IInv, TypeOK, CasesOK
<1>2. history' # history
  BY <1>1
<1>3. ASSUME NEW c \in Clients, NEW who \in SUBSET Instances, NEW inp,
             Decide(c, who, inp), i \notin who
      PROVE  FALSE
  <2>1. history'[i] = history[i]
    BY <1>3 DEF Decide
  <2> QED
    BY <1>1, <2>1
<1>4. ASSUME NEW c \in Clients, ExecuteRun(c) PROVE FALSE
  <2>1. cases[i].status = "DECIDED"
    BY DEF IInv, DecidedHasHistory
  <2>2. Chosen(c, "PENDING") \in SUBSET Instances /\ i \notin Chosen(c, "PENDING")
    BY <2>1 DEF Chosen
  <2> QED
    BY <1>3, <1>4, <2>2 DEF ExecuteRun
<1>5. ASSUME NEW c \in Clients, ExecuteReprocess(c) PROVE FALSE
  <2> DEFINE inp == CapturedInputs(ActiveSnapshot, calls[c].down)
             who == {j \in Chosen(c, "DECIDED") : Replaceable(j, inp)}
  <2>1. who \in SUBSET Instances /\ i \notin who
    BY DEF Chosen, Replaceable
  <2>2. Decide(c, who, inp)
    BY <1>5 DEF ExecuteReprocess
  <2> HIDE DEF who, inp
  <2> QED
    BY <1>3, <2>1, <2>2
<1>6. PICK person \in People, j \in Instances, type \in Types, named \in {{}} \union {{p} : p \in DOMAIN proposals} :
         Resolve(person, j, type, named)
  <2>1. ~UNCHANGED vars
    BY <1>2 DEF vars, caseVars
  <2>2. ~CasesNext
    BY <1>2 DEF CasesNext, Upload, Reextract
  <2>3. ~SourcesNext
    BY <1>2 DEF SourcesNext, ChangeWorld, StartSync, Download, DownloadFails, CommitLoad,
                LoadWorkbook, caseVars
  <2>4. ~AlertsNext
    BY <1>2 DEF AlertsNext, Recheck, DryRun, InsertAlerts, RecheckFails, DetectFails, Ack, caseVars
  <2>5. ~VersionsNext
    BY <1>2 DEF VersionsNext, ReadDraft, Validate, Discard, Publish, EditDraft, Stage, caseVars
  <2>6. ~ProposalsNext
    BY <1>2 DEF ProposalsNext, Ask, Answer, Store, AgentFails, Reject, caseVars
  <2>7. ~\E c \in Clients : Crash(c)
    BY <1>2 DEF Crash, caseVars
  <2>8. DecisionsNext
    BY <2>1, <2>2, <2>3, <2>4, <2>5, <2>6, <2>7 DEF Next
  <2>9. ASSUME NEW c \in Clients, NEW all \in BOOLEAN, NEW selection \in SUBSET Instances
        PROVE  /\ \A key \in Keys \union {NoKey} : ~StartRun(c, all, selection, key)
               /\ ~StartReprocess(c, all, selection) /\ ~Turned(c)
    BY <1>2 DEF StartRun, StartReprocess, Turned, caseVars
  <2> QED
    BY <1>4, <1>5, <2>8, <2>9 DEF DecisionsNext
<1> DEFINE row == PersonRow(j, person, type)
<1>7. row.author # Engine
  BY ProcessAssumption DEF PersonRow
<1>8. history' = [history EXCEPT ![j] = Append(history[j], row)]
  BY <1>6 DEF Resolve
<1> HIDE DEF row
<1>9. i = j
  BY <1>1, <1>8
<1>10. history'[i] = Append(history[i], row)
  BY <1>1, <1>8, <1>9
<1>11. history'[i][Len(history'[i])] = row
  BY <1>1, <1>10
<1> QED
  BY <1>7, <1>11

(* The engine never writes over a person's decision, nor over one of its own  *)
(* while the review of it waits for a person.                                 *)
THEOREM ProcessHumanWord == Spec => HumanWordStands
<1>1. IInv /\ [Next]_vars =>
        [\A i \in Instances :
            HasDecision(i) /\ HeldByPerson(Latest(i)) /\ Len(history'[i]) > Len(history[i])
            => history'[i][Len(history'[i])].author # Engine]_vars
  BY HumanWordStep
<1> QED
  BY <1>1, InitInv, StepInv, PTL DEF Spec, HumanWordStands
=============================================================================
