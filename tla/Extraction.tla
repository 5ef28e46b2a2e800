----------------------------- MODULE Extraction -----------------------------
(* Reading documents (ingestion/service.py): a queue of jobs in the store, the *)
(* workers and requests that read, the cache of finished readings, and the     *)
(* journal of the calls to paid providers (ocr/journal.py).                    *)
(*                                                                             *)
(* A key names one reading: a file, its options and the code that reads it.    *)
(* Readings of one page under different options make the same call, which the  *)
(* journal finds by its content. A thread holds the stripe of its key from     *)
(* Enter to Leave, a slot while it reads, and the lock of a journal record     *)
(* while it calls; who holds what follows from where each thread is.           *)
EXTENDS Integers, Sequences, FiniteSets, SequencesExt

CONSTANTS
    Workers,        \* threads that take jobs from the queue
    Requests,       \* threads of requests that read one document at once
    Keys,           \* readings
    Calls,          \* contents of calls to a provider
    CallOf,         \* [Keys -> Calls]
    Stripes,        \* the in-process locks
    StripeOf,       \* [Keys -> Stripes]
    Chain,          \* Seq of providers, asked in this order
    Slots,          \* readings at once
    Lines,          \* calls at once to one provider
    MaxQueued,      \* jobs queued or running
    Faults,         \* "crash", "deadline", "refuse", "lose"
    MaxJobs,        \* bounds: jobs ever submitted,
    MaxAttempts,    \* times a refused call is repeated,
    MaxRestarts     \* times the server goes down

Threads == Workers \union Requests
Providers == ToSet(Chain)

ASSUME ExtractionAssumption ==
    /\ Workers \intersect Requests = {}
    /\ Chain \in Seq(Providers) /\ IsInjective(Chain)
    /\ CallOf \in [Keys -> Calls] /\ StripeOf \in [Keys -> Stripes]
    /\ \A n \in {Slots, Lines, MaxQueued, MaxJobs, MaxAttempts} : n \in Nat \ {0}
    /\ MaxRestarts \in Nat

VARIABLES
    server,         \* "up", "stopping" or "down"
    restarts,       \* how often it went down
    jobs,           \* Seq(Job), table jobs
    results,        \* jobs whose result is saved, table results
    cache,          \* readings in table cache
    threads,        \* [Threads -> Thread]
    journal,        \* [Calls \X Providers -> state of the record]
    cooldown,       \* providers that are left alone for a while
    delivered       \* [Calls \X Providers -> Nat]: how often a provider did the work

storeVars == <<jobs, results, cache>>
vars == <<server, restarts, storeVars, threads, journal, cooldown, delivered>>

Job == [key : Keys, status : {"QUEUED", "RUNNING", "COMPLETED", "FAILED"}]
Unfinished == {n \in DOMAIN jobs : jobs[n].status \in {"QUEUED", "RUNNING"}}

\* A thread reads for a job, or for a request (job 0). `clean' says that a provider answered.
Idle == [pc |-> "idle", job |-> 0]
Thread == [pc : {"lock", "cache", "slot", "call", "started", "sent", "answered", "save", "finish", "failed"},
           job : 0..MaxJobs, key : Keys, link : 1..Len(Chain) + 1, attempt : 1..MaxAttempts,
           answer : {"none", "accepted", "refused"}, clean : BOOLEAN]
Starting(n, key) == [pc |-> "lock", job |-> n, key |-> key, link |-> 1, attempt |-> 1,
                     answer |-> "none", clean |-> FALSE]

At(places) == {t \in Threads : threads[t].pc \in places}
Calling == {"started", "sent", "answered"}
Reading == Calling \union {"call", "save"}
Inside == Reading \union {"cache", "slot"}

Provider(t) == Chain[threads[t].link]
Record(t) == <<CallOf[threads[t].key], Provider(t)>>
Goes(t, pc) == threads' = [threads EXCEPT ![t].pc = pc]
NextLink(t) == [threads[t] EXCEPT !.pc = "call", !.link = @ + 1, !.attempt = 1, !.answer = "none"]

-----------------------------------------------------------------------------
\* The queue

\* Only jobs nobody has taken count against the limit.
Waiting == {n \in DOMAIN jobs : jobs[n].status = "QUEUED"}

\* What counts against the limit of the queue.
Load == Unfinished

\* A batch is queued whole or refused.
Submit(batch) ==
    /\ server = "up"
    /\ Len(jobs) + Len(batch) <= MaxJobs
    /\ Cardinality(Load) + Len(batch) <= MaxQueued
    /\ jobs' = jobs \o [n \in DOMAIN batch |-> [key |-> batch[n], status |-> "QUEUED"]]
    /\ UNCHANGED <<server, restarts, results, cache, threads, journal, cooldown, delivered>>

\* A worker takes the oldest queued job.
Claim(t) ==
    /\ server = "up" /\ t \in Workers /\ threads[t].pc = "idle"
    /\ \E n \in Waiting :
           /\ \A m \in Waiting : n <= m
           /\ jobs' = [jobs EXCEPT ![n].status = "RUNNING"]
           /\ threads' = [threads EXCEPT ![t] = Starting(n, jobs[n].key)]
    /\ UNCHANGED <<server, restarts, results, cache, journal, cooldown, delivered>>

\* A request reads a document itself.
Ask(t, key) ==
    /\ server = "up" /\ t \in Requests /\ threads[t].pc = "idle"
    /\ threads' = [threads EXCEPT ![t] = Starting(0, key)]
    /\ UNCHANGED <<server, restarts, storeVars, journal, cooldown, delivered>>

\* The job ends; a request is answered.
Finish(t) ==
    /\ threads[t].pc \in {"finish", "failed"}
    /\ jobs' = IF threads[t].job = 0 THEN jobs
               ELSE [jobs EXCEPT ![threads[t].job].status =
                        IF threads[t].pc = "finish" THEN "COMPLETED" ELSE "FAILED"]
    /\ threads' = [threads EXCEPT ![t] = Idle]
    /\ UNCHANGED <<server, restarts, results, cache, journal, cooldown, delivered>>

-----------------------------------------------------------------------------
\* One reading

\* Nothing keeps two threads from reading one document at once.
StripeUnlocked(t) == TRUE

\* The stripe of the key; the file lock under it is never contended, one server uses a
\* data directory.
StripeFree(t) ==
    \A u \in At(Inside) : StripeOf[threads[u].key] # StripeOf[threads[t].key]

Enter(t) ==
    /\ threads[t].pc = "lock"
    /\ StripeFree(t)
    /\ Goes(t, "cache")
    /\ UNCHANGED <<server, restarts, storeVars, journal, cooldown, delivered>>

\* A cached reading is saved again under the id that asked for it.
CacheHit(t) ==
    /\ threads[t].pc = "cache" /\ threads[t].key \in cache
    /\ results' = results \union ({threads[t].job} \ {0})
    /\ Goes(t, "finish")
    /\ UNCHANGED <<server, restarts, jobs, cache, journal, cooldown, delivered>>

CacheMiss(t) ==
    /\ threads[t].pc = "cache" /\ threads[t].key \notin cache
    /\ Goes(t, "slot")
    /\ UNCHANGED <<server, restarts, storeVars, journal, cooldown, delivered>>

TakeSlot(t) ==
    /\ threads[t].pc = "slot"
    /\ Cardinality(At(Reading)) < Slots
    /\ Goes(t, "call")
    /\ UNCHANGED <<server, restarts, storeVars, journal, cooldown, delivered>>

\* A lock or a slot was not free before the budget of the extraction was spent.
Overdue(t) ==
    /\ "deadline" \in Faults
    /\ threads[t].pc \in {"lock", "slot"}
    /\ Goes(t, "failed")
    /\ UNCHANGED <<server, restarts, storeVars, journal, cooldown, delivered>>

\* A reading is cached whatever failed in it.
CacheAll(t) == TRUE

\* A reading in which a reader failed is saved and not cached.
Cacheable(t) == threads[t].clean

Save(t) ==
    /\ threads[t].pc = "save"
    /\ results' = results \union ({threads[t].job} \ {0})
    /\ cache' = IF Cacheable(t) THEN cache \union {threads[t].key} ELSE cache
    /\ Goes(t, "finish")
    /\ UNCHANGED <<server, restarts, jobs, journal, cooldown, delivered>>

-----------------------------------------------------------------------------
\* The chain of providers and the journal

\* No provider of the chain answered: the page keeps what other readers saw.
ChainEnds(t) ==
    /\ threads[t].pc = "call" /\ threads[t].link > Len(Chain)
    /\ Goes(t, "save")
    /\ UNCHANGED <<server, restarts, storeVars, journal, cooldown, delivered>>

\* A provider that failed a moment ago is not asked; one that is asked again already is.
OnCooldown(t) == Provider(t) \in cooldown /\ threads[t].attempt = 1

\* The provider is left alone, the record stayed locked, or the budget is spent.
Skip(t) ==
    /\ threads[t].pc = "call" /\ threads[t].link <= Len(Chain)
    /\ OnCooldown(t) \/ "deadline" \in Faults
    /\ threads' = [threads EXCEPT ![t] = NextLink(t)]
    /\ UNCHANGED <<server, restarts, storeVars, journal, cooldown, delivered>>

RecordFree(t) == \A u \in At(Calling) : Record(u) # Record(t)

\* States of a record after which the same request may go out.
\* An uncertain delivery is tried again.
RetriedStates == {"none", "refused", "not_started", "uncertain"}

OpenStates == {"none", "refused", "not_started"}

\* Called with the record locked.
AtRecord(t) ==
    /\ threads[t].pc = "call" /\ threads[t].link <= Len(Chain)
    /\ ~OnCooldown(t)
    /\ RecordFree(t)

Replay(t) ==
    /\ AtRecord(t)
    /\ journal[Record(t)] = "complete"
    /\ threads' = [threads EXCEPT ![t].pc = "save", ![t].clean = TRUE]
    /\ UNCHANGED <<server, restarts, storeVars, journal, cooldown, delivered>>

\* Nobody knows whether the provider got it: the next provider is asked.
Blocked(t) ==
    /\ AtRecord(t)
    /\ journal[Record(t)] \notin OpenStates \union {"complete"}
    /\ threads' = [threads EXCEPT ![t] = NextLink(t)]
    /\ UNCHANGED <<server, restarts, storeVars, journal, cooldown, delivered>>

\* The record says `started' before anything is sent.
StartCall(t) ==
    /\ AtRecord(t)
    /\ journal[Record(t)] \in OpenStates
    /\ journal' = [journal EXCEPT ![Record(t)] = "started"]
    /\ Goes(t, "started")
    /\ UNCHANGED <<server, restarts, storeVars, cooldown, delivered>>

\* A line to the provider, within the budget.
Send(t) ==
    /\ threads[t].pc = "started"
    /\ Cardinality({u \in At({"sent", "answered"}) : Provider(u) = Provider(t)}) < Lines
    /\ Goes(t, "sent")
    /\ UNCHANGED <<server, restarts, storeVars, journal, cooldown, delivered>>

NotSent(t) ==
    /\ "deadline" \in Faults
    /\ threads[t].pc = "started"
    /\ journal' = [journal EXCEPT ![Record(t)] = "not_started"]
    /\ threads' = [threads EXCEPT ![t] = NextLink(t)]
    /\ UNCHANGED <<server, restarts, storeVars, cooldown, delivered>>

\* The provider does the work and charges for it, or refuses.
Deliver(t) ==
    /\ threads[t].pc = "sent"
    /\ \/ /\ threads' = [threads EXCEPT ![t].pc = "answered", ![t].answer = "accepted"]
          /\ delivered' = [delivered EXCEPT ![Record(t)] = @ + 1]
       \/ /\ "refuse" \in Faults
          /\ threads' = [threads EXCEPT ![t].pc = "answered", ![t].answer = "refused"]
          /\ UNCHANGED delivered
    /\ UNCHANGED <<server, restarts, storeVars, journal, cooldown>>

Complete(t) ==
    /\ threads[t].pc = "answered" /\ threads[t].answer = "accepted"
    /\ journal' = [journal EXCEPT ![Record(t)] = "complete"]
    /\ threads' = [threads EXCEPT ![t].pc = "save", ![t].clean = TRUE]
    /\ UNCHANGED <<server, restarts, storeVars, cooldown, delivered>>

\* What the record says when no usable answer came back.
\* A request that was lost is as good as one that was refused.
LostIsRefused(t, lost) == "refused"

Verdict(t, lost) == IF lost THEN "uncertain" ELSE "refused"

\* The answer was lost or is unusable, or it was a refusal.
Fail(t, lost, cools) ==
    /\ threads[t].pc = "answered"
    /\ lost \/ threads[t].answer = "refused"
    /\ lost => "lose" \in Faults
    /\ journal' = [journal EXCEPT ![Record(t)] = Verdict(t, lost)]
    /\ cooldown' = IF cools THEN cooldown \union {Provider(t)} ELSE cooldown
    /\ threads' = [threads EXCEPT ![t] = NextLink(t)]
    /\ UNCHANGED <<server, restarts, storeVars, delivered>>

\* One attempt more than the budget of waiting allows.
RetryOnceMore(t) == threads[t].attempt <= MaxAttempts

MayRetry(t) == threads[t].attempt < MaxAttempts

\* A refusal for load is worth waiting for, a few times.
Retry(t) ==
    /\ threads[t].pc = "answered" /\ threads[t].answer = "refused"
    /\ MayRetry(t)
    /\ journal' = [journal EXCEPT ![Record(t)] = "refused"]
    /\ threads' = [threads EXCEPT ![t].pc = "call", ![t].attempt = @ + 1, ![t].answer = "none"]
    /\ UNCHANGED <<server, restarts, storeVars, cooldown, delivered>>

CooldownEnds(p) ==
    /\ p \in cooldown
    /\ cooldown' = cooldown \ {p}
    /\ UNCHANGED <<server, restarts, storeVars, threads, journal, delivered>>

-----------------------------------------------------------------------------
\* The server

\* The server dies: locks and slots are gone, the store and the journal stay.
Crash ==
    /\ "crash" \in Faults /\ server # "down"
    /\ restarts < MaxRestarts
    /\ server' = "down" /\ restarts' = restarts + 1
    /\ threads' = [t \in Threads |-> Idle]
    /\ cooldown' = {}
    /\ UNCHANGED <<storeVars, journal, delivered>>

\* close: workers end what they are at.
Stop ==
    /\ server = "up" /\ restarts < MaxRestarts
    /\ server' = "stopping" /\ restarts' = restarts + 1
    /\ UNCHANGED <<storeVars, threads, journal, cooldown, delivered>>

Stopped ==
    /\ server = "stopping"
    /\ \A t \in Threads : threads[t].pc = "idle"
    /\ server' = "down" /\ cooldown' = {}
    /\ UNCHANGED <<restarts, storeVars, threads, journal, delivered>>

\* Jobs that ran when the server died stay as they are.
LeftRunning == jobs

\* recover: jobs that ran when the server died are queued again.
Recovered ==
    [n \in DOMAIN jobs |-> IF jobs[n].status = "RUNNING"
                           THEN [jobs[n] EXCEPT !.status = "QUEUED"] ELSE jobs[n]]

Start ==
    /\ server = "down"
    /\ server' = "up"
    /\ jobs' = Recovered
    /\ UNCHANGED <<restarts, results, cache, threads, journal, cooldown, delivered>>

-----------------------------------------------------------------------------
Init ==
    /\ server = "up" /\ restarts = 0
    /\ jobs = <<>> /\ results = {} /\ cache = {}
    /\ threads = [t \in Threads |-> Idle]
    /\ journal = [r \in Calls \X Providers |-> "none"]
    /\ cooldown = {}
    /\ delivered = [r \in Calls \X Providers |-> 0]

\* What a thread does on its own once it has something to read.
Work(t) ==
    \/ Claim(t) \/ Finish(t)
    \/ Enter(t) \/ CacheHit(t) \/ CacheMiss(t) \/ TakeSlot(t) \/ Overdue(t) \/ Save(t)
    \/ ChainEnds(t) \/ Skip(t) \/ Replay(t) \/ Blocked(t) \/ StartCall(t) \/ Send(t) \/ NotSent(t)
    \/ Deliver(t) \/ Complete(t) \/ Retry(t)
    \/ \E lost, cools \in BOOLEAN : Fail(t, lost, cools)

Batches == {<<k>> : k \in Keys} \union {<<k, l>> : k, l \in Keys}

Next ==
    \/ \E batch \in Batches : Submit(batch)
    \/ \E t \in Requests, k \in Keys : Ask(t, k)
    \/ \E t \in Threads : Work(t)
    \/ \E p \in Providers : CooldownEnds(p)
    \/ Crash \/ Stop \/ Stopped \/ Start

\* Threads run, every wait ends by its deadline, and a server that went down starts again.
Fairness ==
    /\ \A t \in Threads : WF_vars(Work(t))
    /\ WF_vars(Stopped) /\ WF_vars(Start)

Spec == Init /\ [][Next]_vars /\ Fairness

-----------------------------------------------------------------------------
TypeOK ==
    /\ server \in {"up", "stopping", "down"} /\ restarts \in 0..MaxRestarts
    /\ jobs \in Seq(Job) /\ Len(jobs) <= MaxJobs
    /\ results \subseteq DOMAIN jobs /\ cache \subseteq Keys
    /\ threads \in [Threads -> Thread \union {Idle}]
    /\ journal \in [Calls \X Providers ->
          {"none", "started", "complete", "refused", "not_started", "uncertain"}]
    /\ cooldown \subseteq Providers
    /\ delivered \in [Calls \X Providers -> Nat]

\* A provider does the work of one call at most once, whatever is lost, refused, repeated or
\* restarted: a call whose delivery is uncertain is never sent again.
NoSecondDelivery == \A r \in Calls \X Providers : delivered[r] <= 1

\* No two threads read one document at once, and none reads what is already cached.
NoDoubleReading ==
    \A t \in At(Reading) :
        /\ threads[t].key \notin cache
        /\ \A u \in At(Reading) \ {t} : threads[u].key # threads[t].key

\* Every cached reading rests on a complete answer in the journal: what a failed reader left
\* out is asked again.
CachedIsAnswered ==
    \A k \in cache : \E p \in Providers : journal[<<CallOf[k], p>>] = "complete"

\* The queue never holds more unfinished jobs than its limit, also after a restart.
QueueBounded == Cardinality(Unfinished) <= MaxQueued

\* A running job belongs to exactly one worker, or waits for the restart of the server.
RunningIsOwned ==
    \A n \in DOMAIN jobs : jobs[n].status = "RUNNING" /\ server # "down" =>
        Cardinality({t \in Workers : threads[t].job = n}) = 1

\* A completed job has its result.
CompletedHasResult == \A n \in DOMAIN jobs : jobs[n].status = "COMPLETED" => n \in results

\* Every job that was queued ends, also when the server dies while it runs.
EveryJobEnds ==
    \A n \in 1..MaxJobs : (n \in Unfinished) ~> (n \in DOMAIN jobs /\ n \notin Unfinished)
=============================================================================
