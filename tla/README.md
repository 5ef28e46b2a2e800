# Trace it: TLA+ models, checks and proofs

Trace it decides documents (the challenge: supplier invoices) with rules that a language
model wrote and people approved. The rules run, the engine combines their answers, and every
decision is a new row of an append-only history. This directory models the parts of the
backend (`src/backend/app`) where that promise is hard to keep, checks them with TLC and
proves the most important facts with TLAPS.

Contents: [1 the system](#1-the-system), [2 modules and code](#2-modules-and-code),
[3 runs](#3-runs), [4 proofs](#4-proofs), [5 divergences](#5-where-code-and-documents-disagree),
[6 not modelled](#6-what-is-not-modelled), [7 plan](#7-plan).

## 1. The system

One FastAPI process and PostgreSQL, an optional mail worker, one extraction service. Requests
run concurrently; each has its own session (`core/database.get_session`). Nearly all state is
rows of one *process* (a decision process), and nearly all its writers take one lock, the
`FOR UPDATE` row lock of `versions/service.lock`. What is *outside* that lock is where the
interleavings are: downloads, alert detection, model calls, proposals, mail, extraction.

| Component | State it keeps | Operations | What makes it correct |
|---|---|---|---|
| Decision engine (`decisions/engine.py`) | none; a batch in flight on a thread pool | `decide`, `_run_rule`, `_combine` | An automatic outcome depends on no rule that could not run; doubt reaches a person |
| Cases (`ingestion/process_service.py`, `process_extraction.py`) | `instances`: status, symbols | attach, re-extract | An upload twice is one case; a decided case is never read again |
| Decisions (`decisions/service.py`) | `decisions`, `executions`, `run_operations`, reviews | `run`, `reprocess`, `resolve`, export, queue | Decided once per run, replayable, a person's word stands, one execution per key |
| Sources (`sources/`) | `sources`: every load ever made | sync, sync before a run, workbook, discovery | A run never reads a source older than its own sync |
| HTTP connector (`sources/http_connector.py`) | a session, counts of one download | login, pages, retries | A download is whole or an error, and it ends |
| Alerts (`alerts/service.py`) | `alerts` | detect after a load or a publication, ack | Every past decision a change would turn is flagged, once |
| Versions (`versions/`) | `process_versions`, `process_drafts`, findings | edit, stage, validate, publish, discard | Only the approved candidate, on the evidence it was judged on |
| Proposals (`proposals/service.py`) | `proposals` | propose, accept, reject, supersede | Settled once; an accepted one answers the latest decision |
| Rules (`rules/service.py`, `agents/compiler.py`) | `rules` | create, compile, stage, retire, resume | A compilation lands only in the context it was made for; only checked code is published |
| Learning (`learning/`) | analyses, norm proposals, validations, adoptions | analyse, validate, approve, reject | The second way to publish, on the same evidence rule |
| Chat workspaces (`processes/drafts.py`) | chat drafts | revise, review, compile, publish | The third way to publish: only what was previewed of the accepted plan |
| Mail ingestion (`mail_ingestion/`) | account cursor, messages with leases, attachments | initialize, discover, claim, manifest, import, finish, fail, retry | No message lost or imported twice, every message ends |
| Document ingestion (`ingestion/service.py`, `store.py`, `cache.py`) | SQLite jobs, results, cache files | submit, claim, finish, recover | A job ends with one result however often the service restarts |
| OCR and PDF readers (`ingestion/ocr`, `ingestion/pdf`) | journal of paid calls, cooldowns | read, judge, confirm | No call is paid twice; one deadline for queue, retries and calls |
| Traces, dashboards, database API, users, use cases, frontend, deployment | logs, views, accounts | reads, CRUD | no decision depends on them |

How they interact. `run` and `reprocess` sync every live source first, without the lock, then
take it and read everything else under it. A sync is one download of the connector. A committed
sync or publication calls the alert detection, which dry-runs `reprocess` in another session,
*rolls back*, and inserts alerts with no lock. `publish` reads what `capture` reads and compares
digests. `resolve` settles the proposal it names and supersedes the others; `publish` supersedes
rule proposals. Rule authors `stage` the one draft that managers edit under `expected_revision`;
norms and conversations publish past that draft. An import of mail reads its document through
the extraction service and makes a case; `finish` of a mail message calls `run` with an
idempotency key.

The behaviours that are hard to test, each at its line and with the property that watches it,
are the `hazards` of `PROJECT.json`.

## 2. Modules and code

```
Engine                     decisions/engine.py and the part of execution.py that calls it
  EngineProofs  MCEngine
ProcessState               the rows of one process and the reads everybody shares
  Cases                    ingestion as the process sees it
  Sources                  syncs, loads, workbooks
    Alerts                 detection of stale decisions
    Decisions              run, reprocess, resolve
    Versions               draft, validation, publication
    Proposals              the escalation channel
  Process                  composes them: Init, Next, Spec, TypeOK, every property
    ProcessProofs          types, the history, the person's word
      ProcessHistory       every other safety property of Process
    MCProcess
Connector                  sources/http_connector.py: what one Download of Sources is made of
  ConnectorProofs  MCConnector
Authoring                  rules/service.py, the draft, learning/service.py, processes/drafts.py
  AuthoringProofs  MCAuthoring
MailLedger                 what mail ingestion promises, abstractly
  Mail                     mail_ingestion/service.py, worker.py, activity.py, admin.py
    MailProofs               types, the cursor, one case per content, the ledger
      MailCompletion         run keys, completed messages, duplicates
    MCMail
Extraction                 ingestion/service.py, store.py, cache.py, ocr/journal.py, ocr/budget.py
  ExtractionProofs  MCExtraction
```

Modules named `...Proofs`, `ProcessHistory` and `MailCompletion` hold theorems, those named
`MC...` the instances for TLC.

**Engine.** One call of `decide`: `rules`, `docs` and `unavailable` are its arguments;
`TakeRule`, `FinishRule` and `Join` are the pool and the transposition; `RunRule` and
`Combine` are `_run_rule` and `_combine`. A rule's code is external: it answers, per document,
that it fires, does not, or fails. A document is the set of required symbols it lacks, that are
unverified or unconfirmed, and whether it is a scan.

**ProcessState.** `cases`, `history`, `executions`, `operations`, `versions`, `active`, `draft`,
`findings`, `loads`, `alerts`, `proposals` are tables. Ids are positions: a decision is its case
and its place in the history, a load its place in `loads`. `world` is what an outside system
says, with the count of its changes; a load remembers it in `at`, which no action reads.
`seen[c]` is the draft of the last response to manager `c`, which is where a manager gets the
revision and validation hash to send. `calls[c]` is what a request remembers between its
transactions; `pc` names the next one.

*Atomicity.* A transaction under the process lock is one step, because every writer of what it
reads takes that lock: run and reprocess after their syncs (`ExecuteRun`, `ExecuteReprocess`),
`Resolve`, `Publish`, `Validate`, `EditDraft`, `Stage`, `CommitLoad`, `LoadWorkbook`, `Upload`,
`Reextract`, `DryRun`. Steps of their own: each `Download`, the re-read of the two last loads
(`Recheck`), the insert of alerts (`InsertAlerts`), the question to the assistant (`Ask`), its
answer with the read of open proposals (`Answer`), and the commit (`Store`). `Crash` drops a
request between any two steps; what it had committed stays.

*Data.* A reading is a value with the set of symbols it has. A snapshot is a value with its
types, required symbols and the sources its rules read. The rules of a snapshot are the
constant operator `RunRules`; `RunRulesAssumption` asks of it what theorem `EngineTypeCorrect`
proves of Engine, an outcome of the process or a failure, which is how the two models meet.
Digests (`inputs_hash`, `snapshot_hash`) are the values they digest.
`names` are the missing symbols in a decision's reason, which validation reads back.

*Folded, and why.* `EditDraft` may set any snapshot and always rebases on the active version:
the code asks for a restore first when the base is old. `Stage` stands for every rule operation
that stages the draft. The optional reviewer asks for a person or not, freely. Accepting a
decision proposal is `Resolve` naming it. A resolution's own read of the open proposals and its
commit are one step, as are a publication's; only the assistant's are split. The gate
`learnable` of rule suggestions is abstracted to its conditions on the history.

**Connector.** One `download`: `page`, `seen` and the totals are the locals of `_all_pages`,
`uses`, `age` and the token those of the session, `attempts` those of `_request`. The source is
external: between any two requests it may append, insert or drop records (`ChangeSource`) and
end a session (`SessionEnds`); a request may be refused or its answer lost. Records are names,
since all `_all_pages` compares is counts.

**Authoring.** A `Snapshot` here is what `Process` takes as a value: a configuration, rules with
the artifact each one has, guidance. `rules` is the table, `compiling` the background
compilations, `request` the one a manager waits for; `norms` and `session` are the two other
paths that publish. A model call takes minutes outside any lock, so a compilation, the
validation of a norm and the preparation of a conversation are each a start and an end, and
anything may happen in between. What the model writes is a number in `codes` and whether its
report is valid. Cases, decisions and loads are one counter, `past`, which is all that
`evidence` compares of them. `removed` remembers what people took out of a candidate; only
`NormsSurvive` reads it.

**Mail.** `account`, `messages`, `rows` are the three tables, `cases` the instances with the
number of their decisions, `operations` the run operations. `workers[w]` is what a worker
process remembers; `requests[w]` its request in the middle of a wait, and it lives on when the
worker dies, which is how an old request meets a new claim. A lease token is the number of the
claim that made it. A request is one transaction and one step but for the two that wait: an
import holds the row of its message while it reads the document (`StartImport`, `Attach`), and
`finish` commits, runs with no row held, and takes the lease again (`Finish`, `Run`,
`Complete`). Time is the steps `LeaseEnds`, `WaitEnds` and `PollDue`, at any moment. A part of a
message is what a download of it may give: a PDF by its content, or a refusal.

**Extraction.** `jobs`, `results` and `cache` are the SQLite store, `journal` the records of paid
calls, `threads` the workers and the requests that read a document themselves, each at one place
of `_extract`: the stripe lock, the cache, a slot, the call of one provider after the other, the
save. `delivered` counts what a provider really did; no action reads it. `Crash` empties the
threads and keeps stores and journal, `Stop` lets workers end, `Start` is `recover`.

**Why Mail, Extraction and Authoring are not in Process.** They meet it at one call each, and
each side is modelled by what the other relies on: Mail's `Run` has the guard and the effect of
`ExecuteRun` on the cases of a selection (key, selection, undecided and read); Extraction's
result is the reading of `Upload` and `Reextract`; Authoring's versions are the snapshots of
`Versions`, whose `Validate` and `Publish` it repeats with the past as a counter. Composed, the
state space would be out of TLC's reach; the shared guards are mapped to the same lines.

## 3. Runs

Twelve runs; `PROJECT.json` names the properties of each. `Ops` or `Faults` in a configuration
selects the operations people may call and the faults that happen, so that a run reaches depth
in what it is about. `CHECK_DEADLOCK` is off where the system may stop: the engine's batch ends,
a download ends, and bounds stop the rest. It is on in `extraction`, where a restart or a queue
with room always leaves something to do.

| Run | Instance | Shows |
|---|---|---|
| `engine_rules` | 3 rules, 2 threads, 1 document, 1 source, two types of equal priority | The outcome depends on no unevaluated rule; a down source escalates only what it leaves open; doubt reaches a person; the batch ends |
| `process_decide` | 1 case, 1 live source that changes once, 2 requests, review on | Replay, the person's word, live sources fresh or down, with outages and failures of the detection |
| `process_keys` | 1 case with 2 readings, 2 requests with one key, proposals, crashes | A DECIDED case has a decision; a key executes at most once; an accepted proposal is the next decision |
| `process_publish` | 2 managers and rule authors, 2 snapshots, 1 case that is run and resolved | Only what the manager saw validated is published; findings blame only automatic decisions |
| `process_alerts` | 1 request at a time, 3 loads, 2 snapshots, workbooks, acknowledgements | No change leaves a turned decision without an alert; a published report still holds |
| `mail` | 2 workers, 2 messages with one PDF, a person who decides | The cursor, one case per content, linked duplicates, writes only under the last claim |
| `mail_recovery` | 1 worker, 1 message of 2 parts, every fault | The message ends; keys keep their selection; Mail implements MailLedger |
| `authoring` | 2 rules, 1 norm, background and requested compilations, the server dies | Published rules are checked; a norm survives what others publish; a compilation ends |
| `authoring_sessions` | 1 conversation, 1 norm that is guidance, created rules | What is previewed is the accepted plan; a norm that is guidance survives |
| `extraction` | 2 workers, 1 request, 2 readings of one page, 1 provider, a restart | Nothing is paid or read twice; what is cached was answered; the queue is bounded; jobs end |
| `connector` | 3 records on 3 pages, up to 3 changes, 3 attempts, a session of 3 uses | A download is whole or fails, uses its session to the last use, and ends |
| `authoring_preview` | 1 conversation, 1 rule recompiled by request | Section 5 |

*Bounds.* Constants `Max...` cap tables that only grow and counters, in the guards. Two requests
and one case reach every window of Process, since a window is two requests about one row; two
readings are needed where a case is read again, three loads because detection compares two of
them. `s2` requires a symbol `s1` does not declare, so that new requirements, old gaps and
changes all occur in validation. In `mail`, two workers and two messages with one content are the
smallest instance where a lease changes hands and a duplicate waits for its owner; `mail_recovery`
gives up the second of each for every fault at once, with two attempts, so that a retry and an
exhausted message both occur. Extraction's two keys share one call, so a record is contended,
and its queue holds one job, so it refuses. The connector's session wears out between pages
and its margin before it expires; pages of one record make every record a page boundary. Each
property has a mutant, a bug one could write in that code, that breaks it within its run: the
bounds reach the case.

*Symmetry* is over requests, cases and mail workers, which no definition tells apart, and is used
only for invariants and step properties.

*Fairness.*

- Engine: `WF_vars(Next)`, for `EveryInstanceDecided`. The pool's threads run and the sandbox
  bounds each rule's time, so a started rule returns.
- Mail: time passes (`PollDue`, `LeaseEnds`, `WaitEnds`), a worker that runs goes on and the
  backend answers it (`WorkerStep`, `RequestStep`). Faults are never forced and never bounded.
  `EveryMessageEnds` therefore has an antecedent: from some point on the account stays active,
  and workers claim messages past the ready ones again and again. Without the first nothing may
  be written; without the second the mailbox may be unreachable for ever, and then nothing is
  read from it. Attempts are counted when a message is claimed, so no other bound on failures is
  needed.
- Authoring: `EndCompile`. The models' calls have timeouts and every exception path writes the
  rule, so a background compilation ends; `CompilingEnds` needs it across restarts.
- Extraction: every thread's own steps, `Stopped` and `Start`. Every wait has the deadline of one
  budget (`ocr/budget.py`), and the service is restarted by its supervisor. The SQLite store is
  assumed to answer (section 6).
- Connector: its own step, since a request times out. The source's changes are not fair.
- Process: none, and no liveness. A request may die at any step and nothing restarts it.

## 4. Proofs

tlapm checks the theorems for every value of the constants that satisfies the assumptions of the
modules (`EngineAssumption`, `ProcessAssumption`, `RunRulesAssumption`, `MailAssumption`,
`ExtractionAssumption`, `ConnectorAssumption`, `AuthoringAssumption`). The headline results are
the `theorems` of `PROJECT.json`; this is the argument behind each group.

**Engine** (`EngineProofs`). `IInv` adds to `TypeOK` that a verdict of a finished batch is
`Combine` of the stored answers of its document (`EngineInductive`).
- `EngineRobust`: by `CombineRobust` and `OutrankedRulesDoNotMatter`. If no rule failed other
  than for its source and the outcome was decided, any set of extra rules firing leaves the
  winners' type: each is below the winners or ties with their only type. Winners exist because
  the set of rules is finite (`WinnersExist`).
- `EngineDoubt`, `EngineEscalation`: from `IInv` and the order of `CombineReason`.

**Process** (`ProcessProofs`). `IInv` is `TypeOK` and `DecidedHasHistory` together; neither is
inductive alone: a dry run reads the last decision of a case because its status is DECIDED, so
its flips are typed only if a DECIDED case has a history, and the insert that follows must find
it still there. Each action has one lemma; parts of `TypeOK` it leaves alone are carried by
lemmas over `UNCHANGED`. `ProcessHumanWord`: only `Decide` writes as the engine; under
`ExecuteRun` its cases are PENDING, so they have no history, and under `ExecuteReprocess` their
last row is not held by a person.

**Process, its history** (`ProcessHistory`). Each theorem adds one invariant to `IInv`.
- `ProcessOneExecutionPerKey`: `KeysInv`, only a run in flight carries a key; the look-up and the
  insert are under one lock.
- `ProcessReplays`: `ReplayInv`, an engine row names an execution whose `Evaluate` gives it. It is
  kept because loads and versions only grow, so the tables an execution names never change.
- `ProcessFindings`: every pair in `findings`, and in the report of a draft that is valid, is
  blamable; the history only grows, so it stays so until publication.
- `ProcessAccepted`: the property is inductive with `IInv`: the person decides and the proposal is
  settled in one transaction, under the lock that every decision takes.
- `ProcessApproved`: `SeenInv`, a draft with a valid report, in the table or in any response, has
  the snapshot the report is about; the hash a manager sends back names that report.
- `ProcessLiveFresh`: `Tracks`, each live source of a request that decides is still to be synced,
  down, synced, or in hand, and what it got is a load that exists.
- `ProcessEvidence`: `Sound`, while no decision, load or version was added since a valid report, an
  inspection with its captured readings gives it again. That lengths and ids are enough to
  compare rests on tables nobody edits, and on a document that is no case having no reading
  (`AbsentUnread`).
- `ProcessNoMissedAlert`: `AlertInv`, either every past decision that would turn is flagged, or
  the one request in flight is `Due`: it is about to compare a load that changed rows, to run
  the detection, or to insert what the detection found. What the engine would say of a case
  depends on its reading and on the last rows of the sources that its rules name
  (`TableIsLast`), so the steps that add neither keep the flags, a load turns cases only if it is
  the last of its name and differs from the one before (`NewLoads`), and a publication always
  runs the detection. The hypotheses say how far the promise goes. `Serial`: one request at a
  time. `NothingFails`: a detection that fails or dies is not repeated. `NobodyResolves`: a
  person's decision may differ from the engine's, and is no change to be looked into.
  `ReadsLoaded`: when there is a decision, every source that the rules in force read, and no run
  syncs, has been loaded. `RulesReadTheirOwn`: a rule reads its own case and the sources it
  names, since neither an upload nor the load of another source is followed by a detection. The
  run `process_alerts` is an instance of all five; section 5 says what happens without the first
  and without the fourth.

**Mail** (`MailProofs`). `IInv` is `TypeOK`, `Holders` (a token is the number of a claim that
was made, and one worker's), `ImportsHold` (an import that waits still holds the last claim of
its message), `FinalIsFinal` (nobody who could open a final message again has its token),
`RequestsFormed`, `AbsentIsNew`, `Boundary`, `CursorIsExact` and `NoSecondCase`. `ImportsHold`
is the heart: a waiting import keeps its message locked, so no claim, failure or retry takes it
over. `MailImplementsLedger` maps each step of Mail to a step of MailLedger or to a stutter:
`Discover` to `Enter`, an import of new content to `Import`, an end to `Close`, a retry or a new
claim to `Reopen`. It needs `FinalIsFinal`: a message that is completed or ignored is never
opened again.

**Mail, its ends** (`MailCompletion`). `CInv` adds to `IInv` what each moment of a message knows
of its parts. `RowsFounded`: a row names a case that exists, decided if the row is completed.
`PhasesHold`: there are no rows before the manifest is saved, nobody who holds the last claim is
before the manifest once it is, an import waits for a part that is still discovered, and a run
is asked for after the last part. `EndsHold`: a message that ended and may be retried has no
part left to a run, and one that completed is what `CompletedIsDecided` says. `RunsHold`: a run,
saved or under way, selects the cases of the parts its key names, or, under the key of the
message alone, of all its parts until the first is completed; so one key has one selection. It
rests on `ImportsHold` and on `FinalIsFinal`: an import or a run is recorded under the
last claim of its message only, whoever else still waits for an answer. `MailKeyKeepsItsSelection`, `MailCompletedIsDecided` and
`MailDuplicatesAreLinked` follow: a completion links the duplicates of the cases it decides in
every message (`LinkedRows`), and a part found to be a duplicate later takes the decision its
case then has.

**Extraction** (`ExtractionProofs`). `IInv` is `TypeOK`, one thread per stripe inside the lock, one
thread per record while calling, an uncached key while reading, `Undelivered` (a record that may be
sent again was never delivered), and `CleanIsAnswered` (a thread that may cache has a complete
record). `QueueBounded` is proved on its own: a restart maps running jobs to queued ones.

**Connector** (`ConnectorProofs`). `CountedByBoth`: the connector never counts more uses left
than the source does, for requests that got no answer count too. `ReadSoFar`: what was on the
pages read so far and is still there was taken. `ConnectorNeverPartial` assumes that records
never leave from before the end of the source; section 5 says what happens otherwise.

**Authoring** (`AuthoringProofs`). Three paths publish, and each hands over artifacts that were
checked in an earlier transaction. `Grows` says why that is enough: rows keep their text, codes
their report, and neither table ever shrinks. `IInv` follows the artifacts: a draft that is
validated has only checked ones (`DraftInv`), a valid norm has a checked code (`NormsInv`), a
preview that compiles something has one (`SessionInv`); `Handed` is what the three have in common
when they publish, and `HandedPublished` ends the argument for `AuthoringPublishesChecked`.
- `AuthoringPreview`: `PreviewInv`, a preparation under way is of the plan of its revision, and
  is saved only over that revision.
- `AuthoringNormsSurvive`: `KeptInv`, an adopted norm is in the active version and in every draft
  or plan that may still be published on it, or somebody took it out. One that is based on an
  older version may lack it, and is refused for its base.

*Only model-checked.* The liveness properties `EveryInstanceDecided`, `EveryMessageEnds`,
`CompilingEnds`, `EveryJobEnds`, `DownloadEnds`: liveness and `ENABLED` are out of the prover's
reach. Every invariant and every action property that a passing run checks is stated by a
theorem.

## 5. Where code and documents disagree

`authoring_preview` is expected to fail and is the finding of `PROJECT.json`: a conversation
keeps a published rule by its id; if a request recompiles the rule while it is retired and lands
when the rule is enforced again, the conversation publishes an artifact its preview did not
have.

Seven more configurations are kept to be run by hand (`tlc -config MCProcessStaleLoad.cfg MCProcess`
and so on; `MCConnector` for the last). TLC finds each violated; each states a sentence of the
repository:

| Configuration, property | What the code does | What it says |
|---|---|---|
| `MCProcessMissedAlert`, `NoMissedAlert` | Two syncs of one source overlap. After both commit, the first compares the two newest loads, not its own with its predecessor, and skips (`alerts/service.py:68`) | "After each change, a dry run; every decision that would change becomes a stored alert" (`docs/adr/detail/0026-stale-decision-alerts.md:24`) |
| `MCProcessAlertRace`, `AlertTellsItsDecision` | The dry run releases the lock, a person resolves, and the alert names the resolution as the decision flagged, with the outcome of the one before (`alerts/service.py:139`) | "stores the instance, the decision flagged (`decision_id`, `before`)" (same ADR, line 43) |
| `MCProcessFirstLoad`, `NoMissedAlert` | A source that was never loaded is down for the decisions that would read it (`decisions/service.py:343-345`); its first load may turn them, and is compared with nothing (`alerts/service.py:70`) | "a first load changes nothing already decided" (same line) |
| `MCProcessStaleLoad`, `NeverOlderThanItsSync` | Rows are downloaded before the lock and loads are ordered by commit; a run may decide on rows older than those it downloaded (`sources/service.py:357`) | "never decides on stale data" (`docs/adr/detail/0028-live-sources-sync-before-run.md:35`) |
| `MCProcessLostEdit`, `NoEditLost` | A new draft counts its revisions from 1, so the revision of a discarded draft is accepted on the next one (`versions/service.py:78`) | "The previous draft was published or discarded; start a new draft" (line 77) |
| `MCProcessSettledTwice`, `SettledOnce` | Open proposals are read without a lock and written by key, so an accepted one may become superseded (`proposals/service.py:52`) | "A settled proposal never changes again" (`docs/reviewer-agent.md:339`) |
| `MCConnectorRemoved`, `NeverPartial` | Between two pages a record leaves an early page and another is appended: the totals agree, and a record that was there all along moved to a page already read (`http_connector.py:309-323`) | "never returns partial data" (line 272) |

So `NoMissedAlert` is a promise of one request at a time, over sources loaded before the first
decision that reads them (`ProcessNoMissedAlert`), `LiveSourcesFresh` is about loads in
commit order and not about the time of their rows, and `NeverPartial` is about sources that grow.

Disagreements read, or seen in a longer run, and not kept as a configuration:

- `Mail` defines `FailureIsFinal` (`docs/mail-ingestion.md:193,246`: a final failure waits for an
  operator). It does not hold: a request that outlives its claim may still complete a message
  whose attempts are spent.
- `resume_compilations` says it takes up what a restart left (`rules/service.py:220-222`);
  `compile_rule` refuses a rule that is `compiling` (113-115), so after a start without its
  database such a rule is left compiling until the next start.
- `_ensure_token` may raise InvalidResponse (`http_connector.py:467,469`), outside what `download`
  promises to turn into SyncError: a manual sync answers 500.
- A mail account halted before it was initialized can neither be initialized nor resumed.
- `_combine` reports UNVERIFIED_DATA before MISSING_DATA, its docstring and ADR 0028 the other way
  round (both escalate).
- ADR 0026 exempts decisions to pay from data alerts; `_detect` flags them and says why.
- A reprocess leaves open proposals about the decision it replaced, which `Acceptable` refuses.

## 6. What is not modelled

Reads (export, queue, dashboards, traces, run history), authentication, use case templates, the
database API, the frontend, tools and deployment change no state a decision depends on, or only
copy it; they and the vendored parts are most of the repository's lines, and the reason that the
map covers a tenth of it. Language models are free choices where their answer matters (review,
suggestions, compilation, norms) and failures are steps; `agents` is otherwise prompts and
parsing.

In the components that are modelled in part:

- Decisions: imports of historical outcomes; the forced recomputation.
- Sources: discovery of new sources and the workbook parser.
- Proposals: the acceptance of a rule suggestion (its two transactions) and the chat channel.
- Learning: the analysis that proposes norms. Workspaces: the first publication of a process.
- Extraction: the parallel reading by several transcribers, the forced call of the journal, the
  layout heuristics of the PDF readers. The store is assumed to answer: if `claim` or the second
  `finish` raises, that worker thread ends for good (`ingestion/service.py:630`) and its job stays
  RUNNING until a restart, outside `EveryJobEnds`.
- Row locks other than the process lock and the message lock: `accept` and `resolve` take two in
  opposite orders, which PostgreSQL answers by aborting one request.
- Payment verification is a pure function over one reading.

## 7. Plan

1. Acceptance of a rule suggestion in its two transactions, with proposal and process locks as
   state, and the chat channel, in Proposals.
2. Parallel readers and the judge's agreement in Extraction; payment verification and the
   export's choice of a decision as functions checked against references.
3. Proofs of the steps that the liveness arguments rest on: a mail's parts only go on
   (`PartsGoOn`), a download's attempts only go down, a job's states only go forward.
4. The first publication of a process in Authoring, and Authoring's versions as a refinement of
   Versions.
