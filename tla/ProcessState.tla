---------------------------- MODULE ProcessState ----------------------------
(* The rows one process keeps in the database and the reads every component  *)
(* shares: cases with their readings, the append-only decision history, the  *)
(* captured executions, published versions, the draft, source loads, alerts. *)
(* Cases, Decisions, Sources, Versions and Alerts add the operations; module *)
(* Process composes them.                                                    *)
(*                                                                           *)
(* A transaction that holds the process row lock (versions/service.lock) is  *)
(* one step: every writer of what it reads takes the same lock. What a       *)
(* request does outside that lock (downloads, alert detection) is a step of  *)
(* its own, and `calls' holds what the request remembers in between.         *)
EXTENDS Integers, Sequences, FiniteSets

CONSTANTS
    Instances,      \* documents that may become cases of the process
    Readings,       \* what extraction may read of a document
    NoReading,      \* Instance.symbols is None
    Symbols,        \* symbol names
    Has,            \* [Readings -> SUBSET Symbols], the symbols with a value
    Sources,        \* names of the sources of truth
    Connected,      \* the sources with a connector, which a sync can download
    Live,           \* the sources with `sync_before_run'
    Contents,       \* what the rows of a source may say
    NoRows,         \* the table of a source that is not loaded
    Snapshots,      \* configurations a draft may propose
    NoSnapshot,     \* the process was never published
    Types,          \* decision types
    TypesOf,        \* [Snapshots -> SUBSET Types], the types a snapshot declares
    Human,          \* [Snapshots -> SUBSET Types], the types that require a human
    Default,        \* [Snapshots -> Types], the decision of a case no rule fires on
    Escalation,     \* [Snapshots -> Types], where the engine sends what it cannot decide
    Required,       \* [Snapshots -> SUBSET Symbols], the required symbols
    Declared,       \* [Snapshots -> SUBSET Symbols], all the symbols
    Reads,          \* [Snapshots -> SUBSET Sources], sources its rules read by name
    Reviewed,       \* [Snapshots -> BOOLEAN], `decision_review' is configured
    WellFormed,     \* [Snapshots -> BOOLEAN], check_configuration passes
    ExamplesHold,   \* [Snapshots -> BOOLEAN], acceptance examples pass
    RunRules(_, _, _, _, _), \* module Engine on complete data: [decision, failed]
    Clients,        \* concurrent requests
    People,         \* managers
    Keys,           \* idempotency keys of a run
    NoKey,
    Engine,         \* the author of an engine decision
    First,          \* the snapshot of version 1, or NoSnapshot
    Ops,            \* the operations requests may call in this instance
    MaxHistory,     \* bounds on the tables that only grow: decisions of a case,
    MaxExecutions,  \* executions,
    MaxLoads,       \* source loads,
    MaxVersions,    \* versions,
    MaxRevision,    \* revisions of a draft,
    MaxChanges,     \* changes of the outside world,
    MaxProposals    \* proposals

ASSUME ProcessAssumption ==
    /\ Has \in [Readings -> SUBSET Symbols]
    /\ IsFiniteSet(Sources) /\ Live \subseteq Connected /\ Connected \subseteq Sources
    /\ TypesOf \in [Snapshots -> SUBSET Types]
    /\ Human \in [Snapshots -> SUBSET Types]
    /\ Default \in [Snapshots -> Types]
    /\ Escalation \in [Snapshots -> Types]
    /\ \A s \in Snapshots : /\ Escalation[s] \in Human[s] /\ Human[s] \subseteq TypesOf[s]
                             /\ Default[s] \in TypesOf[s] \ Human[s]
    /\ Required \in [Snapshots -> SUBSET Symbols]
    /\ Declared \in [Snapshots -> SUBSET Symbols]
    /\ Reads \in [Snapshots -> SUBSET Sources]
    /\ Reviewed \in [Snapshots -> BOOLEAN]
    /\ WellFormed \in [Snapshots -> BOOLEAN]
    /\ ExamplesHold \in [Snapshots -> BOOLEAN]
    /\ NoReading \notin Readings
    /\ NoRows \notin Contents
    /\ NoSnapshot \notin Snapshots
    /\ First \in Snapshots \union {NoSnapshot}
    /\ NoKey \notin Keys
    /\ Engine \notin People

\* What module Engine promises of a run of the rules (its theorem EngineTypeCorrect).
ASSUME RunRulesAssumption ==
    \A s \in Snapshots, readings \in [Instances -> Readings \union {NoReading}],
       tables \in [Sources -> Contents \union {NoRows}], down \in SUBSET Sources, i \in Instances :
        RunRules(s, readings, tables, down, i) \in [decision : Types, failed : BOOLEAN]

VARIABLES
    cases,          \* [Instances -> [status, reading]], table instances
    history,        \* [Instances -> Seq(Row)], table decisions with their reviews
    executions,     \* Seq([version, inputs, key]), table executions
    operations,     \* [Keys -> [selection, execution]], table run_operations
    versions,       \* Seq of published versions
    active,         \* Process.active_version_id, 0 when none
    draft,          \* the one draft of the process, or NoDraft
    findings,       \* decisions a published version says were wrong
    loads,          \* Seq([name, rows, at]), table sources; ids grow with commits
    world,          \* [Sources -> [rows, at]], what the outside system says, and since when
    calls,          \* [Clients -> Call], requests in flight
    alerts,         \* table alerts
    proposals,      \* Seq of manager proposals about a case
    seen            \* [Clients -> Draft], the draft a manager last got in a response

caseVars == <<cases, history>>
runVars == <<executions, operations>>
versionVars == <<versions, active, draft, findings, seen>>
sourceVars == <<loads, world>>
vars == <<caseVars, runVars, versionVars, sourceVars, calls, alerts, proposals>>

-----------------------------------------------------------------------------
\* Rows

Statuses == {"ABSENT", "PENDING", "DECIDED"}
Case == [status : Statuses, reading : Readings \union {NoReading}]

\* A decision: `names' are the symbols its reason lists as missing, `pending' says
\* its review asked for a human. Its id is the instance and its place in the history.
Row == [decision : Types, author : People \union {Engine}, version : Nat,
        execution : Nat, names : SUBSET Symbols, pending : BOOLEAN]

\* Inputs of an execution: every reading, the loads used, the sources that were down.
Inputs == [readings : [Instances -> Readings \union {NoReading}],
           source_ids : SUBSET Nat, down : SUBSET Sources]

NoOperation == [selection |-> {}, execution |-> 0]
NoValidation == [valid |-> FALSE]
NoDraft == [revision |-> 0, snapshot |-> NoSnapshot, base |-> 0, validation |-> NoValidation]

\* What a validation judged the draft on, its report, and the draft itself.
Captures == [readings : UNION {[J -> Readings \union {NoReading}] : J \in SUBSET Instances},
             decisions : [Instances -> Nat], source_ids : SUBSET Nat]
Validations == {NoValidation} \union
    [valid : BOOLEAN, changes : SUBSET (Instances \X Nat), inputs : Captures,
     snapshot : Snapshots \union {NoSnapshot}, revision : Nat]
Drafts == [revision : Nat, snapshot : Snapshots \union {NoSnapshot}, base : Nat,
           validation : Validations]
Version == [snapshot : Snapshots, parent : Nat, author : Clients \union {Engine},
            changes : SUBSET (Instances \X Nat)]
Load == [name : Sources, rows : Contents, at : Nat]
Execution == [version : Nat, inputs : Inputs, key : Keys \union {NoKey}]
Flip == [instance : Instances, before : Types, after : Types]
Alert == [instance : Instances, decision : Nat, before : Types, after : Types,
          trigger : {"rule_change", "source_sync"}, status : {"open", "acknowledged"}]
Kinds == {"decision", "rule"}
Proposal == [instance : Instances, kind : Kinds, about : Nat, proposed : Types,
             status : {"open", "accepted", "rejected", "superseded"}]

\* What a request remembers between two of its transactions.
NoCall ==
    [op |-> "none", pc |-> "idle", all |-> FALSE, selection |-> {}, key |-> NoKey,
     todo |-> {},                               \* live sources still to sync
     names |-> {},                              \* sources just downloaded or loaded
     fetched |-> [rows |-> NoRows, at |-> 0],   \* the download not yet committed
     down |-> {},                               \* sources that failed to sync
     got |-> [name \in Sources |-> 0],          \* the loads this request committed
     flips |-> {},                              \* what the dry run found
     closing |-> {},                            \* open proposals a new one replaces
     about |-> 0]                               \* the decision an agent was asked about

Call == [op : {"none", "run", "reprocess", "sync", "workbook", "publish"} \union Kinds,
         pc : {"idle", "sync", "commit", "recheck", "dryrun", "insert", "execute",
               "asked", "answered"},
         all : BOOLEAN, selection : SUBSET Instances, key : Keys \union {NoKey},
         todo : SUBSET Sources, names : SUBSET Sources,
         fetched : [rows : Contents \union {NoRows}, at : Nat], down : SUBSET Sources,
         got : [Sources -> Nat], flips : SUBSET Flip, closing : SUBSET Nat, about : Nat]

-----------------------------------------------------------------------------
\* Reads

Idle(c) == calls[c].pc = "idle"

Exists(i) == cases[i].status # "ABSENT"

\* latest_decisions: the last row of the history.
HasDecision(i) == history[i] # <<>>
Latest(i) == history[i][Len(history[i])]

\* The rows the engine wrote.
EngineRows(i) == {n \in DOMAIN history[i] : history[i][n].author = Engine}

\* A person decided, or the review of the engine's decision waits for one.
HeldByPerson(row) == row.author # Engine \/ row.pending

ActiveSnapshot == versions[active].snapshot

\* sources.current_loads: the last load of each name.
Named(name) == {n \in 1..Len(loads) : loads[n].name = name}
LastOf(ids) == CHOOSE n \in ids : \A m \in ids : m <= n
CurrentLoads == {n \in 1..Len(loads) : \A m \in Named(loads[n].name) : m <= n}

\* The tables the sandbox gets from a set of loads.
Tables(ids) ==
    [name \in Sources |->
        IF \E n \in ids : loads[n].name = name
        THEN loads[CHOOSE n \in ids : loads[n].name = name].rows
        ELSE NoRows]

ReadingsNow == [i \in Instances |-> cases[i].reading]

\* Required symbols of snapshot s that a reading lacks; nothing is read of NoReading.
Gap(s, reading) == Required[s] \ Has[reading]

\* execution.evaluate for one case: missing data escalates, whatever the rules say.
Evaluate(s, inp, i) ==
    LET gap == Gap(s, inp.readings[i])
        ran == RunRules(s, inp.readings, Tables(inp.source_ids), inp.down, i)
    IN  [decision |-> IF gap # {} \/ ran.failed THEN Escalation[s] ELSE ran.decision,
         names |-> gap,
         failed |-> ran.failed]

\* _inputs: a source a rule reads that was never loaded is down too, and the loads of
\* the sources that are down are left out.
NeverLoaded(s) == {name \in Reads[s] : Named(name) = {}}

\* Captured as if every source that was ever loaded were up.
CapturedWithoutDown(s, down) ==
    [readings |-> ReadingsNow, source_ids |-> CurrentLoads, down |-> NeverLoaded(s)]

CapturedInputs(s, down) ==
    LET out == down \union NeverLoaded(s)
    IN  [readings |-> ReadingsNow,
         source_ids |-> {n \in CurrentLoads : loads[n].name \notin out},
         down |-> out]
=============================================================================
