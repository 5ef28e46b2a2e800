-------------------------- MODULE ExtractionProofs --------------------------
(* Proofs about Extraction, for every set of threads, readings and providers  *)
(* and every bound. IInv says who holds what: threads in a reading hold       *)
(* different stripes, threads in a call different records of the journal, and *)
(* a record is `started' exactly as long as its call is out or its fate is    *)
(* unknown. That no call is delivered twice rests on the last part: a record  *)
(* from which a call may start has never been delivered.                      *)
EXTENDS Extraction, FiniteSetTheorems, SequenceTheorems, TLAPS

Answered(k) == \E p \in Providers : journal[<<CallOf[k], p>>] = "complete"

OwnJob == \A t \in Threads : threads[t].job = 0 \/ threads[t].job \in DOMAIN jobs

OneStripe ==
    \A t, u \in At(Inside) : t # u => StripeOf[threads[t].key] # StripeOf[threads[u].key]

NotCached == \A t \in At(Reading \union {"slot"}) : threads[t].key \notin cache

OneRecord ==
    \A t \in At(Calling) :
        /\ threads[t].link <= Len(Chain)
        /\ journal[Record(t)] = "started"
        /\ \A u \in At(Calling) : t # u => Record(t) # Record(u)

Undelivered ==
    /\ \A r \in Calls \X Providers :
           delivered[r] <= 1 /\ (journal[r] \in OpenStates => delivered[r] = 0)
    /\ \A t \in At(Calling) :
           threads[t].pc \in {"started", "sent"} \/ threads[t].answer = "refused"
           => delivered[Record(t)] = 0

CleanIsAnswered ==
    \A t \in Threads : threads[t].pc # "idle" /\ threads[t].clean => Answered(threads[t].key)

IInv ==
    /\ TypeOK
    /\ OwnJob /\ OneStripe /\ NotCached
    /\ OneRecord /\ Undelivered
    /\ CleanIsAnswered /\ CachedIsAnswered

\* Nobody but t moves.
OnlyMoves(t) ==
    /\ threads' \in [Threads -> Thread \union {Idle}]
    /\ \A u \in Threads \ {t} : threads'[u] = threads[u]

-----------------------------------------------------------------------------
\* What the moves of a thread leave alone

(* A thread that is not idle holds a whole thread record.                     *)
LEMMA Busy ==
    ASSUME TypeOK, NEW t \in Threads, threads[t].pc # "idle"
    PROVE  threads[t] \in Thread
BY DEF TypeOK, Idle

(* A call of a thread is a record of the journal.                             *)
LEMMA RecordType ==
    ASSUME TypeOK, NEW t \in Threads, threads[t].pc # "idle", threads[t].link <= Len(Chain)
    PROVE  Record(t) \in Calls \X Providers /\ Provider(t) \in Providers
<1>1. threads[t] \in Thread
  BY Busy
<1>2. threads[t].link \in DOMAIN Chain /\ CallOf[threads[t].key] \in Calls
  BY <1>1, ExtractionAssumption DEF Thread
<1> QED
  BY <1>2 DEF Record, Provider, Providers, ToSet

(* Goes changes the place of a thread and nothing else.                       *)
LEMMA GoesMoves ==
    ASSUME TypeOK, NEW t \in Threads, threads[t].pc # "idle",
           NEW pc \in Inside \union {"lock", "finish", "failed"}, Goes(t, pc)
    PROVE  /\ OnlyMoves(t) /\ threads'[t] \in Thread
           /\ threads'[t].pc = pc
           /\ threads'[t].job = threads[t].job /\ threads'[t].key = threads[t].key
           /\ threads'[t].link = threads[t].link /\ threads'[t].attempt = threads[t].attempt
           /\ threads'[t].answer = threads[t].answer /\ threads'[t].clean = threads[t].clean
<1> DEFINE new == [threads[t] EXCEPT !.pc = pc]
<1>1. threads[t] \in Thread
  BY Busy
<1>2. threads' = [threads EXCEPT ![t] = new]
  BY DEF Goes
<1>3. new \in Thread
  BY <1>1, SMTT(30) DEF Thread, Inside, Reading, Calling
<1>4. /\ new.pc = pc /\ new.job = threads[t].job /\ new.key = threads[t].key
      /\ new.link = threads[t].link /\ new.attempt = threads[t].attempt
      /\ new.answer = threads[t].answer /\ new.clean = threads[t].clean
  BY <1>1 DEF Thread
<1> HIDE DEF new
<1> QED
  BY <1>2, <1>3, <1>4 DEF OnlyMoves, TypeOK

(* NextLink brings a thread to the next provider of the chain.                *)
LEMMA NextLinkMoves ==
    ASSUME TypeOK, NEW t \in Threads, threads[t].pc # "idle", threads[t].link <= Len(Chain),
           threads' = [threads EXCEPT ![t] = NextLink(t)]
    PROVE  /\ OnlyMoves(t) /\ threads'[t] \in Thread
           /\ threads'[t].pc = "call"
           /\ threads'[t].job = threads[t].job /\ threads'[t].key = threads[t].key
           /\ threads'[t].clean = threads[t].clean
<1> DEFINE new == NextLink(t)
<1>1. threads[t] \in Thread
  BY Busy
<1>2. threads[t].link + 1 \in 1..Len(Chain) + 1 /\ 1 \in 1..MaxAttempts
  <2>1. Len(Chain) \in Nat
    BY ExtractionAssumption
  <2>2. MaxAttempts \in Nat \ {0}
    BY ExtractionAssumption
  <2>3. threads[t].link \in 1..Len(Chain) + 1
    BY <1>1 DEF Thread
  <2> QED
    BY <2>1, <2>2, <2>3
<1>3. /\ new.pc = "call" /\ new.job = threads[t].job /\ new.key = threads[t].key
      /\ new.clean = threads[t].clean
  BY <1>1 DEF Thread, NextLink
<1>4. new \in Thread
  BY <1>1, <1>2, ZenonT(60) DEF Thread, NextLink
<1>5. threads' = [threads EXCEPT ![t] = new]
  OBVIOUS
<1> HIDE DEF new
<1> QED
  BY <1>3, <1>4, <1>5 DEF OnlyMoves, TypeOK

(* Who does not enter a reading takes no stripe.                              *)
LEMMA StripesKept ==
    ASSUME OneStripe, NEW t \in Threads, OnlyMoves(t),
           threads'[t].pc \in Inside
           => threads[t].pc \in Inside /\ threads'[t].key = threads[t].key
    PROVE  OneStripe'
BY DEF OneStripe, OnlyMoves, At

(* Who was past the cache already has still read nothing that is cached.      *)
LEMMA MissesKept ==
    ASSUME NotCached, NEW t \in Threads, OnlyMoves(t), UNCHANGED cache,
           threads'[t].pc \in Reading \union {"slot"}
           => threads[t].pc \in Reading \union {"slot"} /\ threads'[t].key = threads[t].key
    PROVE  NotCached'
BY DEF NotCached, OnlyMoves, At

(* A move that touches neither the journal nor a provider keeps what is known *)
(* about the calls.                                                           *)
LEMMA CallsKept ==
    ASSUME OneRecord, Undelivered, NEW t \in Threads, OnlyMoves(t),
           UNCHANGED <<journal, delivered>>,
           threads'[t].pc \in Calling
           => /\ threads[t].pc = "started" /\ threads'[t].pc = "sent"
              /\ threads'[t].key = threads[t].key /\ threads'[t].link = threads[t].link
    PROVE  OneRecord' /\ Undelivered'
<1>1. \A u \in At(Calling)' : u \in At(Calling) /\ Record(u)' = Record(u)
  BY DEF At, Calling, OnlyMoves, Record, Provider
<1>2. OneRecord'
  <2> SUFFICES ASSUME NEW u \in At(Calling)'
               PROVE  /\ threads'[u].link <= Len(Chain)
                      /\ journal'[Record(u)'] = "started"
                      /\ \A v \in At(Calling)' : u # v => Record(u)' # Record(v)'
    BY DEF OneRecord
  <2>1. threads'[u].link = threads[u].link
    BY DEF At, OnlyMoves
  <2> QED
    BY <1>1, <2>1 DEF OneRecord
<1>3. \A u \in At(Calling)' :
          threads'[u].pc \in {"started", "sent"} \/ threads'[u].answer = "refused"
          => threads[u].pc \in {"started", "sent"} \/ threads[u].answer = "refused"
  BY DEF At, OnlyMoves, Calling
<1> QED
  BY <1>1, <1>2, <1>3 DEF Undelivered, OpenStates

(* An answer in the journal stays there.                                      *)
LEMMA AnswersKept ==
    ASSUME \A r \in Calls \X Providers : journal[r] = "complete" => journal'[r] = "complete"
    PROVE  \A k \in Keys : Answered(k) => Answered(k)'
<1>1. \A k \in Keys : CallOf[k] \in Calls
  BY ExtractionAssumption
<1> QED
  BY <1>1 DEF Answered

(* A thread has an answer only when it had one before or the journal has it.  *)
LEMMA CleanKept ==
    ASSUME TypeOK, CleanIsAnswered, NEW t \in Threads, OnlyMoves(t),
           \A r \in Calls \X Providers : journal[r] = "complete" => journal'[r] = "complete",
           threads'[t].pc # "idle" /\ threads'[t].clean
           => \/ \E p \in Providers : journal'[<<CallOf[threads'[t].key], p>>] = "complete"
              \/ /\ threads[t].pc # "idle" /\ threads[t].clean
                 /\ threads'[t].key = threads[t].key
    PROVE  CleanIsAnswered'
<1> SUFFICES ASSUME NEW u \in Threads, threads'[u].pc # "idle", threads'[u].clean
             PROVE  \E p \in Providers : journal'[<<CallOf[threads'[u].key], p>>] = "complete"
  BY DEF CleanIsAnswered, Answered
<1>1. CASE threads[u].pc # "idle" /\ threads[u].clean /\ threads'[u].key = threads[u].key
  <2>1. threads[u].key \in Keys
    BY <1>1, Busy DEF Thread
  <2>2. CallOf[threads[u].key] \in Calls
    BY <2>1, ExtractionAssumption
  <2>3. PICK p \in Providers : journal[<<CallOf[threads[u].key], p>>] = "complete"
    BY <1>1 DEF CleanIsAnswered, Answered
  <2> QED
    BY <1>1, <2>2, <2>3
<1>2. u # t => threads'[u] = threads[u]
  BY DEF OnlyMoves
<1> QED
  BY <1>1, <1>2

(* A thread that keeps its job has one the queue knows.                       *)
LEMMA JobsKept ==
    ASSUME OwnJob, NEW t \in Threads, OnlyMoves(t), DOMAIN jobs \subseteq DOMAIN jobs',
           \/ threads'[t].job = 0 \/ threads'[t].job = threads[t].job
           \/ threads'[t].job \in DOMAIN jobs'
    PROVE  OwnJob'
BY DEF OwnJob, OnlyMoves

(* What the cache holds stays answered while the journal keeps its answers.   *)
LEMMA CacheKept ==
    ASSUME TypeOK, CachedIsAnswered, UNCHANGED cache,
           \A r \in Calls \X Providers : journal[r] = "complete" => journal'[r] = "complete"
    PROVE  CachedIsAnswered'
<1>1. cache \subseteq Keys /\ \A k \in Keys : CallOf[k] \in Calls
  BY ExtractionAssumption DEF TypeOK
<1> QED
  BY <1>1 DEF CachedIsAnswered

(* A move of a thread by Goes, apart from the journal, the stores and the     *)
(* gates it passes, changes nothing IInv speaks of.                           *)
LEMMA QuietGoes ==
    ASSUME IInv, NEW t \in Threads, threads[t].pc # "idle",
           NEW pc \in Inside \union {"lock", "finish", "failed"}, Goes(t, pc),
           pc \in Calling => pc = "sent" /\ threads[t].pc = "started",
           UNCHANGED <<server, restarts, jobs, journal, cooldown, delivered>>
    PROVE  /\ OwnJob' /\ OneRecord' /\ Undelivered' /\ CleanIsAnswered'
           /\ threads' \in [Threads -> Thread \union {Idle}]
           /\ pc \notin Inside \/ threads[t].pc \in Inside => OneStripe'
           /\ UNCHANGED cache =>
                 /\ CachedIsAnswered'
                 /\ pc \notin Reading \union {"slot"} \/ threads[t].pc \in Reading \union {"slot"}
                    => NotCached'
<1>1. /\ OnlyMoves(t) /\ threads'[t].pc = pc
      /\ threads'[t].job = threads[t].job /\ threads'[t].key = threads[t].key
      /\ threads'[t].link = threads[t].link /\ threads'[t].clean = threads[t].clean
  BY GoesMoves DEF IInv
<1>2. OwnJob'
  BY <1>1, JobsKept DEF IInv
<1>3. OneRecord' /\ Undelivered'
  BY <1>1, CallsKept DEF IInv
<1>4. CleanIsAnswered'
  BY <1>1, CleanKept DEF IInv
<1>5. pc \notin Inside \/ threads[t].pc \in Inside => OneStripe'
  BY <1>1, StripesKept DEF IInv
<1>6. UNCHANGED cache => CachedIsAnswered'
  BY <1>1, CacheKept DEF IInv
<1>7. ASSUME UNCHANGED cache,
             pc \notin Reading \union {"slot"} \/ threads[t].pc \in Reading \union {"slot"}
      PROVE  NotCached'
  BY <1>1, <1>7, MissesKept DEF IInv
<1> QED
  BY <1>1, <1>2, <1>3, <1>4, <1>5, <1>6, <1>7 DEF OnlyMoves

-----------------------------------------------------------------------------
\* The queue

(* A batch is appended; no thread and no call changes.                        *)
LEMMA SubmitStep ==
    ASSUME IInv, NEW batch \in Batches, Submit(batch)
    PROVE  IInv'
<1>1. batch \in Seq(Keys)
  <2>1. CASE \E k \in Keys : batch = <<k>>
    BY <2>1
  <2>2. CASE \E k, l \in Keys : batch = <<k, l>>
    BY <2>2
  <2> QED
    BY <2>1, <2>2 DEF Batches
<1> DEFINE new == [n \in DOMAIN batch |-> [key |-> batch[n], status |-> "QUEUED"]]
<1>2. new \in Seq(Job) /\ Len(new) = Len(batch)
  <2>1. \A n \in DOMAIN batch : new[n] \in Job
    BY <1>1 DEF Job
  <2> QED
    BY <1>1, <2>1
<1>3. jobs' = jobs \o new /\ Len(jobs) + Len(batch) <= MaxJobs
  BY DEF Submit
<1> HIDE DEF new
<1>4. jobs' \in Seq(Job) /\ Len(jobs') <= MaxJobs /\ DOMAIN jobs \subseteq DOMAIN jobs'
  <2>1. jobs \in Seq(Job)
    BY DEF IInv, TypeOK
  <2>2. jobs' \in Seq(Job) /\ Len(jobs') = Len(jobs) + Len(new)
    BY <1>2, <1>3, <2>1, ConcatProperties
  <2>3. DOMAIN jobs = 1..Len(jobs) /\ DOMAIN jobs' = 1..Len(jobs')
    BY <2>1, <2>2
  <2>4. Len(jobs) \in Nat /\ Len(new) \in Nat
    BY <1>2, <2>1
  <2> QED
    BY <1>2, <1>3, <2>2, <2>3, <2>4
<1>5. TypeOK'
  BY <1>4 DEF IInv, TypeOK, Submit
<1>6. OwnJob'
  BY <1>4 DEF IInv, OwnJob, Submit
<1> QED
  BY <1>5, <1>6 DEF IInv, Submit, OneStripe, NotCached, OneRecord, Undelivered, CleanIsAnswered,
                    CachedIsAnswered, Answered, At, Record, Provider

(* A worker or a request starts outside every lock.                           *)
LEMMA StartingStep ==
    ASSUME IInv, NEW t \in Threads, threads[t].pc = "idle",
           NEW n \in {0} \union DOMAIN jobs, NEW key \in Keys,
           threads' = [threads EXCEPT ![t] = Starting(n, key)],
           jobs' \in Seq(Job), Len(jobs') = Len(jobs),
           UNCHANGED <<server, restarts, results, cache, journal, cooldown, delivered>>
    PROVE  IInv'
<1>1. DOMAIN jobs' = DOMAIN jobs
  BY DEF IInv, TypeOK
<1>2. Starting(n, key) \in Thread
  <2>1. Len(Chain) \in Nat
    BY ExtractionAssumption
  <2>2. MaxAttempts \in Nat \ {0}
    BY ExtractionAssumption
  <2>3. MaxJobs \in Nat /\ Len(jobs) \in Nat /\ n \in 0..MaxJobs
    BY ExtractionAssumption DEF IInv, TypeOK
  <2>4. 1 \in 1..Len(Chain) + 1 /\ 1 \in 1..MaxAttempts
    BY <2>1, <2>2
  <2> QED
    BY <2>3, <2>4 DEF Starting, Thread
<1>3. /\ OnlyMoves(t) /\ threads'[t].pc = "lock" /\ threads'[t].job = n /\ ~threads'[t].clean
  BY <1>2 DEF OnlyMoves, IInv, TypeOK, Starting
<1>4. "lock" \notin Inside \union Reading \union Calling
  BY DEF Inside, Reading, Calling
<1>5. TypeOK'
  BY <1>1, <1>3 DEF IInv, TypeOK, OnlyMoves
<1>6. OwnJob'
  BY <1>1, <1>3, JobsKept DEF IInv
<1>7. OneStripe' /\ NotCached'
  BY <1>3, <1>4, StripesKept, MissesKept DEF IInv
<1>8. OneRecord' /\ Undelivered'
  BY <1>3, <1>4, CallsKept DEF IInv
<1>9. CleanIsAnswered' /\ CachedIsAnswered'
  BY <1>3, CleanKept, CacheKept DEF IInv
<1> QED
  BY <1>5, <1>6, <1>7, <1>8, <1>9 DEF IInv

LEMMA ClaimStep ==
    ASSUME IInv, NEW t \in Threads, Claim(t)
    PROVE  IInv'
<1>1. PICK n \in Waiting :
          /\ jobs' = [jobs EXCEPT ![n].status = "RUNNING"]
          /\ threads' = [threads EXCEPT ![t] = Starting(n, jobs[n].key)]
  BY DEF Claim
<1>2. n \in DOMAIN jobs /\ jobs[n] \in Job /\ jobs \in Seq(Job)
  BY DEF Waiting, IInv, TypeOK
<1>3. [jobs[n] EXCEPT !.status = "RUNNING"] \in Job /\ jobs[n].key \in Keys
  BY <1>2 DEF Job
<1>4. jobs' \in Seq(Job) /\ Len(jobs') = Len(jobs)
  BY <1>1, <1>2, <1>3
<1> QED
  BY <1>1, <1>2, <1>3, <1>4, StartingStep DEF Claim

LEMMA AskStep ==
    ASSUME IInv, NEW t \in Requests, NEW key \in Keys, Ask(t, key)
    PROVE  IInv'
<1>1. t \in Threads /\ jobs' \in Seq(Job) /\ Len(jobs') = Len(jobs)
  BY DEF Threads, Ask, storeVars, IInv, TypeOK
<1> QED
  BY <1>1, StartingStep DEF Ask, storeVars

LEMMA FinishStep ==
    ASSUME IInv, NEW t \in Threads, Finish(t)
    PROVE  IInv'
<1>1. threads[t].job = 0 \/ threads[t].job \in DOMAIN jobs
  BY DEF IInv, OwnJob
<1>2. jobs' \in Seq(Job) /\ Len(jobs') = Len(jobs) /\ DOMAIN jobs' = DOMAIN jobs
  <2>1. CASE threads[t].job = 0
    BY <2>1 DEF Finish, IInv, TypeOK
  <2>2. CASE threads[t].job # 0
    <3> DEFINE n == threads[t].job
               status == IF threads[t].pc = "finish" THEN "COMPLETED" ELSE "FAILED"
    <3>1. n \in DOMAIN jobs /\ jobs \in Seq(Job) /\ jobs[n] \in Job
      BY <1>1, <2>2 DEF IInv, TypeOK
    <3>2. [jobs[n] EXCEPT !.status = status] \in Job
      BY <3>1 DEF Job
    <3>3. jobs' = [jobs EXCEPT ![n] = [jobs[n] EXCEPT !.status = status]]
      BY <2>2 DEF Finish
    <3> HIDE DEF n, status
    <3> QED
      BY <3>1, <3>2, <3>3
  <2> QED
    BY <2>1, <2>2
<1>3. OnlyMoves(t) /\ threads'[t].pc = "idle" /\ threads'[t].job = 0
  BY DEF OnlyMoves, IInv, TypeOK, Finish, Idle
<1>4. "idle" \notin Inside \union Reading \union Calling
  BY DEF Inside, Reading, Calling
<1>5. UNCHANGED <<server, restarts, results, cache, journal, cooldown, delivered>>
  BY DEF Finish
<1>6. TypeOK'
  BY <1>2, <1>3, <1>5 DEF IInv, TypeOK, OnlyMoves
<1>7. OwnJob'
  BY <1>2, <1>3, JobsKept DEF IInv
<1>8. OneStripe' /\ NotCached'
  BY <1>3, <1>4, <1>5, StripesKept, MissesKept DEF IInv
<1>9. OneRecord' /\ Undelivered'
  BY <1>3, <1>4, <1>5, CallsKept DEF IInv
<1>10. CleanIsAnswered' /\ CachedIsAnswered'
  BY <1>3, <1>5, CleanKept, CacheKept DEF IInv
<1> QED
  BY <1>6, <1>7, <1>8, <1>9, <1>10 DEF IInv

-----------------------------------------------------------------------------
\* One reading

(* A thread enters a reading only while nobody holds its stripe.              *)
LEMMA EnterStep ==
    ASSUME IInv, NEW t \in Threads, Enter(t)
    PROVE  IInv'
<1>1. /\ threads[t].pc = "lock" /\ StripeFree(t) /\ Goes(t, "cache")
      /\ UNCHANGED <<server, restarts, jobs, results, cache, journal, cooldown, delivered>>
  BY DEF Enter, storeVars
<1>2. "cache" \in Inside /\ "cache" \notin Reading \union {"slot"} \union Calling
  BY DEF Inside, Reading, Calling
<1>3. /\ OwnJob' /\ OneRecord' /\ Undelivered' /\ CleanIsAnswered'
      /\ threads' \in [Threads -> Thread \union {Idle}] /\ CachedIsAnswered' /\ NotCached'
  BY <1>1, <1>2, QuietGoes
<1>4. OneStripe'
  <2> SUFFICES ASSUME NEW v \in At(Inside)', NEW u \in At(Inside)', u # v
               PROVE  StripeOf[threads'[v].key] # StripeOf[threads'[u].key]
    BY DEF OneStripe
  <2>1. OnlyMoves(t) /\ threads'[t].key = threads[t].key
    BY <1>1, <1>2, GoesMoves DEF IInv
  <2>2. \A w \in Threads \ {t} : threads'[w] = threads[w]
    BY <2>1 DEF OnlyMoves
  <2>3. \A w \in At(Inside)' : w # t => w \in At(Inside)
    BY <2>2 DEF At
  <2>4. u \in Threads /\ v \in Threads
    BY DEF At
  <2>5. CASE u = t
    BY <1>1, <2>1, <2>2, <2>3, <2>4, <2>5 DEF StripeFree
  <2>6. CASE v = t
    BY <1>1, <2>1, <2>2, <2>3, <2>4, <2>6 DEF StripeFree
  <2>7. CASE u # t /\ v # t
    BY <2>2, <2>3, <2>4, <2>7 DEF IInv, OneStripe
  <2> QED
    BY <2>5, <2>6, <2>7
<1> QED
  BY <1>1, <1>3, <1>4 DEF IInv, TypeOK

(* Only a job of the queue gets a result.                                     *)
LEMMA CacheHitStep ==
    ASSUME IInv, NEW t \in Threads, CacheHit(t)
    PROVE  IInv'
<1>1. /\ threads[t].pc = "cache" /\ Goes(t, "finish")
      /\ UNCHANGED <<server, restarts, jobs, cache, journal, cooldown, delivered>>
  BY DEF CacheHit
<1>2. "finish" \notin Inside \union Reading \union Calling
  BY DEF Inside, Reading, Calling
<1>3. /\ OwnJob' /\ OneRecord' /\ Undelivered' /\ CleanIsAnswered' /\ OneStripe'
      /\ threads' \in [Threads -> Thread \union {Idle}] /\ CachedIsAnswered' /\ NotCached'
  BY <1>1, <1>2, QuietGoes
<1>4. results' \subseteq DOMAIN jobs
  BY DEF CacheHit, IInv, TypeOK, OwnJob
<1> QED
  BY <1>1, <1>3, <1>4 DEF IInv, TypeOK

(* Past the cache goes only who missed it.                                    *)
LEMMA CacheMissStep ==
    ASSUME IInv, NEW t \in Threads, CacheMiss(t)
    PROVE  IInv'
<1>1. /\ threads[t].pc = "cache" /\ Goes(t, "slot") /\ threads[t].key \notin cache
      /\ UNCHANGED <<server, restarts, jobs, results, cache, journal, cooldown, delivered>>
  BY DEF CacheMiss, storeVars
<1>2. {"cache", "slot"} \subseteq Inside /\ "slot" \notin Calling
  BY DEF Inside, Reading, Calling
<1>3. /\ OwnJob' /\ OneRecord' /\ Undelivered' /\ CleanIsAnswered' /\ OneStripe'
      /\ threads' \in [Threads -> Thread \union {Idle}] /\ CachedIsAnswered'
  BY <1>1, <1>2, QuietGoes
<1>4. NotCached'
  <2>1. OnlyMoves(t) /\ threads'[t].key = threads[t].key
    BY <1>1, <1>2, GoesMoves DEF IInv
  <2> QED
    BY <1>1, <2>1 DEF IInv, NotCached, At, OnlyMoves
<1> QED
  BY <1>1, <1>3, <1>4 DEF IInv, TypeOK

(* A thread takes a slot, gives up waiting, or ends its chain without answer. *)
LEMMA PassStep ==
    ASSUME IInv, NEW t \in Threads, TakeSlot(t) \/ Overdue(t) \/ ChainEnds(t)
    PROVE  IInv'
<1>1. UNCHANGED <<server, restarts, jobs, results, cache, journal, cooldown, delivered>>
  BY DEF TakeSlot, Overdue, ChainEnds, storeVars
<1>2. PICK pc \in {"call", "failed", "save"} :
          /\ threads[t].pc # "idle" /\ Goes(t, pc)
          /\ pc # "failed" => threads[t].pc \in {"slot", "call"}
  BY DEF TakeSlot, Overdue, ChainEnds
<1>3. /\ {"slot", "call", "save"} \subseteq Inside /\ "call" \in Reading
      /\ pc \notin Calling /\ pc \in Inside \union {"failed"} /\ "failed" \notin Inside \union Reading
  BY DEF Inside, Reading, Calling
<1>4. /\ OwnJob' /\ OneRecord' /\ Undelivered' /\ CleanIsAnswered' /\ OneStripe'
      /\ threads' \in [Threads -> Thread \union {Idle}] /\ CachedIsAnswered' /\ NotCached'
  BY <1>1, <1>2, <1>3, QuietGoes
<1> QED
  BY <1>1, <1>4 DEF IInv, TypeOK

(* What is cached is answered, and nobody else who reads asks for it: the     *)
(* others hold other stripes.                                                 *)
LEMMA SaveStep ==
    ASSUME IInv, NEW t \in Threads, Save(t)
    PROVE  IInv'
<1>1. /\ threads[t].pc = "save" /\ Goes(t, "finish")
      /\ UNCHANGED <<server, restarts, jobs, journal, cooldown, delivered>>
  BY DEF Save
<1>2. /\ "finish" \notin Inside \union Reading \union Calling /\ "save" \in Inside
      /\ Reading \union {"slot"} \subseteq Inside
  BY DEF Inside, Reading, Calling
<1>3. /\ OwnJob' /\ OneRecord' /\ Undelivered' /\ CleanIsAnswered' /\ OneStripe'
      /\ threads' \in [Threads -> Thread \union {Idle}]
  BY <1>1, <1>2, QuietGoes
<1>4. OnlyMoves(t) /\ threads'[t].pc = "finish" /\ threads[t] \in Thread
  BY <1>1, GoesMoves, Busy DEF IInv
<1>5. cache' = cache \/ (cache' = cache \union {threads[t].key} /\ threads[t].clean)
  BY DEF Save, Cacheable
<1>6. TypeOK'
  <2>1. results' \subseteq DOMAIN jobs
    BY DEF Save, IInv, TypeOK, OwnJob
  <2>2. cache' \subseteq Keys
    BY <1>4, <1>5 DEF Thread, IInv, TypeOK
  <2> QED
    BY <1>1, <1>3, <2>1, <2>2 DEF IInv, TypeOK
<1>7. NotCached'
  <2> SUFFICES ASSUME NEW u \in At(Reading \union {"slot"})'
               PROVE  threads'[u].key \notin cache'
    BY DEF NotCached
  <2>1. u # t /\ u \in Threads /\ threads'[u] = threads[u]
    BY <1>2, <1>4 DEF At, OnlyMoves
  <2>2. u \in At(Reading \union {"slot"}) /\ u \in At(Inside) /\ t \in At(Inside)
    BY <1>1, <1>2, <2>1 DEF At
  <2>3. threads[u].key # threads[t].key /\ threads[u].key \notin cache
    BY <2>1, <2>2 DEF IInv, OneStripe, NotCached
  <2> QED
    BY <1>5, <2>1, <2>3
<1>8. CachedIsAnswered'
  <2>1. threads[t].clean => Answered(threads[t].key)
    BY <1>1 DEF IInv, CleanIsAnswered
  <2> QED
    BY <1>1, <1>5, <2>1 DEF IInv, CachedIsAnswered, Answered
<1> QED
  BY <1>3, <1>6, <1>7, <1>8 DEF IInv

-----------------------------------------------------------------------------
\* The chain of providers and the journal

(* A thread that turns to the next provider, having asked nothing.            *)
LEMMA TurnStep ==
    ASSUME IInv, NEW t \in Threads, Skip(t) \/ Blocked(t)
    PROVE  IInv'
<1>1. /\ threads[t].pc = "call" /\ threads[t].link <= Len(Chain)
      /\ threads' = [threads EXCEPT ![t] = NextLink(t)]
      /\ UNCHANGED <<server, restarts, jobs, results, cache, journal, cooldown, delivered>>
  BY DEF Skip, Blocked, AtRecord, storeVars
<1>2. "call" \in Inside /\ "call" \in Reading /\ "call" \notin Calling
  BY DEF Inside, Reading, Calling
<1>3. /\ OnlyMoves(t) /\ threads'[t].pc = "call" /\ threads'[t].job = threads[t].job
      /\ threads'[t].key = threads[t].key /\ threads'[t].clean = threads[t].clean
  BY <1>1, NextLinkMoves DEF IInv
<1>4. OwnJob' /\ OneStripe' /\ NotCached'
  BY <1>1, <1>2, <1>3, JobsKept, StripesKept, MissesKept DEF IInv
<1>5. OneRecord' /\ Undelivered'
  BY <1>1, <1>2, <1>3, CallsKept DEF IInv
<1>6. CleanIsAnswered' /\ CachedIsAnswered'
  BY <1>1, <1>3, CleanKept, CacheKept DEF IInv
<1> QED
  BY <1>1, <1>3, <1>4, <1>5, <1>6 DEF IInv, TypeOK, OnlyMoves

(* A thread that takes its answer has it in the journal.                      *)
LEMMA TakesAnswer ==
    ASSUME TypeOK, NEW t \in Threads, threads[t].pc # "idle",
           threads' = [threads EXCEPT ![t].pc = "save", ![t].clean = TRUE]
    PROVE  /\ OnlyMoves(t) /\ threads'[t].pc = "save"
           /\ threads'[t].job = threads[t].job /\ threads'[t].key = threads[t].key
<1> DEFINE new == [threads[t] EXCEPT !.pc = "save", !.clean = TRUE]
<1>1. threads[t] \in Thread
  BY Busy
<1>2. new \in Thread
  BY <1>1, ZenonT(60) DEF Thread
<1>3. new.pc = "save" /\ new.job = threads[t].job /\ new.key = threads[t].key
  BY <1>1 DEF Thread
<1>4. threads' = [threads EXCEPT ![t] = new]
  OBVIOUS
<1> HIDE DEF new
<1> QED
  BY <1>2, <1>3, <1>4 DEF OnlyMoves, TypeOK

(* An answer the journal holds is taken without a call.                       *)
LEMMA ReplayStep ==
    ASSUME IInv, NEW t \in Threads, Replay(t)
    PROVE  IInv'
<1>1. /\ threads[t].pc = "call" /\ threads[t].link <= Len(Chain)
      /\ journal[Record(t)] = "complete"
      /\ threads' = [threads EXCEPT ![t].pc = "save", ![t].clean = TRUE]
      /\ UNCHANGED <<server, restarts, jobs, results, cache, journal, cooldown, delivered>>
  BY DEF Replay, AtRecord, storeVars
<1>2. {"call", "save"} \subseteq Inside \intersect Reading /\ "save" \notin Calling
  BY DEF Inside, Reading, Calling
<1>3. /\ OnlyMoves(t) /\ threads'[t].pc = "save" /\ threads'[t].job = threads[t].job
      /\ threads'[t].key = threads[t].key
  BY <1>1, TakesAnswer DEF IInv
<1>4. OwnJob' /\ OneStripe' /\ NotCached'
  BY <1>1, <1>2, <1>3, JobsKept, StripesKept, MissesKept DEF IInv
<1>5. OneRecord' /\ Undelivered'
  BY <1>1, <1>2, <1>3, CallsKept DEF IInv
<1>6. CleanIsAnswered'
  <2>1. Provider(t) \in Providers
    BY <1>1, RecordType DEF IInv
  <2>2. journal'[<<CallOf[threads'[t].key], Provider(t)>>] = "complete"
    BY <1>1, <1>3 DEF Record
  <2> QED
    BY <1>1, <1>3, <2>1, <2>2, CleanKept DEF IInv
<1>7. CachedIsAnswered'
  BY <1>1, CacheKept DEF IInv
<1> QED
  BY <1>1, <1>3, <1>4, <1>5, <1>6, <1>7 DEF IInv, TypeOK, OnlyMoves

LEMMA SendStep ==
    ASSUME IInv, NEW t \in Threads, Send(t)
    PROVE  IInv'
<1>1. /\ threads[t].pc = "started" /\ Goes(t, "sent")
      /\ UNCHANGED <<server, restarts, jobs, results, cache, journal, cooldown, delivered>>
  BY DEF Send, storeVars
<1>2. {"started", "sent"} \subseteq Inside \intersect Reading
  BY DEF Inside, Reading, Calling
<1>3. /\ OwnJob' /\ OneRecord' /\ Undelivered' /\ CleanIsAnswered' /\ OneStripe'
      /\ threads' \in [Threads -> Thread \union {Idle}] /\ CachedIsAnswered' /\ NotCached'
  BY <1>1, <1>2, QuietGoes
<1> QED
  BY <1>1, <1>3 DEF IInv, TypeOK

(* A call starts only from a record that was never delivered and that nobody  *)
(* else has.                                                                  *)
LEMMA StartCallStep ==
    ASSUME IInv, NEW t \in Threads, StartCall(t)
    PROVE  IInv'
<1>1. /\ threads[t].pc = "call" /\ threads[t].link <= Len(Chain)
      /\ RecordFree(t) /\ journal[Record(t)] \in OpenStates
      /\ journal' = [journal EXCEPT ![Record(t)] = "started"] /\ Goes(t, "started")
      /\ UNCHANGED <<server, restarts, jobs, results, cache, cooldown, delivered>>
  BY DEF StartCall, AtRecord, storeVars
<1>2. {"call", "started"} \subseteq Inside \intersect Reading /\ "started" \in Calling
  BY DEF Inside, Reading, Calling
<1>3. /\ OnlyMoves(t) /\ threads'[t].pc = "started" /\ threads'[t].job = threads[t].job
      /\ threads'[t].key = threads[t].key /\ threads'[t].link = threads[t].link
      /\ threads'[t].clean = threads[t].clean
  BY <1>1, <1>2, GoesMoves DEF IInv
<1>4. Record(t) \in Calls \X Providers
  BY <1>1, RecordType DEF IInv
<1>5. journal \in [Calls \X Providers ->
          {"none", "started", "complete", "refused", "not_started", "uncertain"}]
  BY DEF IInv, TypeOK
<1>6. \A r \in Calls \X Providers : journal[r] = "complete" => journal'[r] = "complete"
  BY <1>1, <1>5 DEF OpenStates
<1>7. OwnJob' /\ OneStripe' /\ NotCached' /\ CleanIsAnswered' /\ CachedIsAnswered'
  BY <1>1, <1>2, <1>3, <1>6, JobsKept, StripesKept, MissesKept, CleanKept, CacheKept DEF IInv
<1>8. /\ \A u \in At(Calling)' : u # t => u \in At(Calling) /\ threads'[u] = threads[u]
      /\ \A u \in At(Calling)' : Record(u)' = Record(u)
  BY <1>3 DEF At, OnlyMoves, Record, Provider
<1>9. \A u \in At(Calling) : u # t => Record(u) # Record(t)
  BY <1>1 DEF RecordFree
<1>10. OneRecord'
  <2> SUFFICES ASSUME NEW u \in At(Calling)'
               PROVE  /\ threads'[u].link <= Len(Chain)
                      /\ journal'[Record(u)] = "started"
                      /\ \A v \in At(Calling)' : u # v => Record(u) # Record(v)
    BY <1>8 DEF OneRecord
  <2>1. CASE u = t
    BY <1>1, <1>3, <1>4, <1>5, <1>8, <1>9, <2>1
  <2>2. CASE u # t
    BY <1>1, <1>4, <1>5, <1>8, <1>9, <2>2 DEF IInv, OneRecord
  <2> QED
    BY <2>1, <2>2
<1>11. Undelivered'
  <2>1. \A r \in Calls \X Providers :
            delivered'[r] <= 1 /\ (journal'[r] \in OpenStates => delivered'[r] = 0)
    BY <1>1, <1>4, <1>5 DEF IInv, Undelivered, OpenStates
  <2>2. \A u \in At(Calling)' :
            threads'[u].pc \in {"started", "sent"} \/ threads'[u].answer = "refused"
            => delivered'[Record(u)] = 0
    BY <1>1, <1>4, <1>8 DEF IInv, Undelivered
  <2> QED
    BY <1>8, <2>1, <2>2 DEF Undelivered, OpenStates
<1>12. TypeOK'
  BY <1>1, <1>3, <1>5 DEF IInv, TypeOK, OnlyMoves
<1> QED
  BY <1>7, <1>10, <1>11, <1>12 DEF IInv

(* A provider does the work for the one thread that has the record.           *)
LEMMA DeliverStep ==
    ASSUME IInv, NEW t \in Threads, Deliver(t)
    PROVE  IInv'
<1>1. /\ threads[t].pc = "sent"
      /\ UNCHANGED <<server, restarts, jobs, results, cache, journal, cooldown>>
  BY DEF Deliver, storeVars
<1>2. PICK answer \in {"accepted", "refused"} :
          /\ threads' = [threads EXCEPT ![t].pc = "answered", ![t].answer = answer]
          /\ delivered' = IF answer = "accepted" THEN [delivered EXCEPT ![Record(t)] = @ + 1]
                          ELSE delivered
  BY DEF Deliver
<1>3. {"sent", "answered"} \subseteq Inside \intersect Reading \intersect Calling
  BY DEF Inside, Reading, Calling
<1>4. /\ OnlyMoves(t) /\ threads'[t].pc = "answered" /\ threads'[t].answer = answer
      /\ threads'[t].job = threads[t].job /\ threads'[t].key = threads[t].key
      /\ threads'[t].link = threads[t].link /\ threads'[t].clean = threads[t].clean
  <2> DEFINE new == [threads[t] EXCEPT !.pc = "answered", !.answer = answer]
  <2>1. threads[t] \in Thread
    BY <1>1, Busy DEF IInv
  <2>2. new \in Thread
    BY <2>1, ZenonT(60) DEF Thread
  <2>3. /\ new.pc = "answered" /\ new.answer = answer /\ new.job = threads[t].job
        /\ new.key = threads[t].key /\ new.link = threads[t].link /\ new.clean = threads[t].clean
    BY <2>1 DEF Thread
  <2>4. threads' = [threads EXCEPT ![t] = new]
    BY <1>2
  <2> HIDE DEF new
  <2> QED
    BY <2>2, <2>3, <2>4 DEF OnlyMoves, IInv, TypeOK
<1>5. t \in At(Calling) /\ Record(t) \in Calls \X Providers
  BY <1>1, <1>3, RecordType DEF At, IInv, OneRecord
<1>6. OwnJob' /\ OneStripe' /\ NotCached' /\ CleanIsAnswered' /\ CachedIsAnswered'
  BY <1>1, <1>3, <1>4, JobsKept, StripesKept, MissesKept, CleanKept, CacheKept DEF IInv
<1>7. /\ \A u \in At(Calling)' : u \in At(Calling) /\ Record(u)' = Record(u)
      /\ \A u \in At(Calling)' : u # t => threads'[u] = threads[u]
  BY <1>4, <1>5 DEF At, OnlyMoves, Record, Provider
<1>8. OneRecord'
  <2>1. \A u \in At(Calling)' : threads'[u].link = threads[u].link
    BY <1>4 DEF At, OnlyMoves
  <2> QED
    BY <1>1, <1>7, <2>1 DEF IInv, OneRecord
<1>9. delivered \in [Calls \X Providers -> Nat] /\ delivered[Record(t)] = 0
      /\ journal[Record(t)] = "started"
  BY <1>1, <1>5 DEF IInv, TypeOK, Undelivered, OneRecord
<1>10. Undelivered'
  <2>1. \A r \in Calls \X Providers : r # Record(t) => delivered'[r] = delivered[r]
    BY <1>2, <1>9
  <2>2. delivered'[Record(t)] <= 1 /\ (answer = "refused" => delivered'[Record(t)] = 0)
    BY <1>2, <1>5, <1>9
  <2>3. \A r \in Calls \X Providers :
            delivered'[r] <= 1 /\ (journal'[r] \in OpenStates => delivered'[r] = 0)
    BY <1>1, <1>9, <2>1, <2>2 DEF IInv, Undelivered, OpenStates
  <2>4. \A u \in At(Calling)' :
            threads'[u].pc \in {"started", "sent"} \/ threads'[u].answer = "refused"
            => delivered'[Record(u)] = 0
    <3> SUFFICES ASSUME NEW u \in At(Calling)',
                        threads'[u].pc \in {"started", "sent"} \/ threads'[u].answer = "refused"
                 PROVE  delivered'[Record(u)] = 0
      OBVIOUS
    <3>1. CASE u = t
      BY <1>4, <2>2, <3>1
    <3>2. CASE u # t
      <4>1. u \in At(Calling) /\ Record(u) # Record(t) /\ threads'[u] = threads[u]
        BY <1>5, <1>7, <3>2 DEF IInv, OneRecord
      <4>2. u \in Threads /\ threads[u].pc # "idle" /\ threads[u].link <= Len(Chain)
        BY <4>1 DEF At, Calling, IInv, OneRecord
      <4>3. Record(u) \in Calls \X Providers
        BY <4>2, RecordType DEF IInv
      <4> QED
        BY <2>1, <4>1, <4>3 DEF IInv, Undelivered
    <3> QED
      BY <3>1, <3>2
  <2> QED
    BY <1>7, <2>3, <2>4 DEF Undelivered, OpenStates
<1>11. TypeOK'
  <2>1. delivered' \in [Calls \X Providers -> Nat]
    <3>1. CASE answer = "accepted"
      <4>1. delivered' = [delivered EXCEPT ![Record(t)] = 1]
        BY <1>2, <1>9, <3>1
      <4> QED
        BY <1>9, <4>1
    <3>2. CASE answer = "refused"
      BY <1>2, <1>9, <3>2
    <3> QED
      BY <3>1, <3>2
  <2> QED
    BY <1>1, <1>4, <2>1 DEF IInv, TypeOK, OnlyMoves
<1> QED
  BY <1>6, <1>8, <1>10, <1>11 DEF IInv

(* A call ends: its record may be opened again only when nothing was          *)
(* delivered, and an answer that came is in the journal.                      *)
LEMMA CallEnds ==
    ASSUME IInv, NEW t \in Threads, threads[t].pc \in Calling,
           NEW s \in {"complete", "refused", "not_started", "uncertain"},
           journal' = [journal EXCEPT ![Record(t)] = s],
           s \in OpenStates => delivered[Record(t)] = 0,
           OnlyMoves(t), threads'[t].pc \in {"call", "save"},
           threads'[t].job = threads[t].job, threads'[t].key = threads[t].key,
           s = "complete" \/ threads'[t].clean = threads[t].clean,
           cooldown' \subseteq Providers,
           UNCHANGED <<server, restarts, jobs, results, cache, delivered>>
    PROVE  IInv'
<1>1. Calling \union {"call", "save"} \subseteq Reading \intersect Inside
      /\ "call" \notin Calling /\ "save" \notin Calling /\ "idle" \notin Calling
  BY DEF Inside, Reading, Calling
<1>2. t \in At(Calling) /\ threads[t].pc # "idle" /\ threads[t].link <= Len(Chain)
      /\ journal[Record(t)] = "started"
  BY <1>1 DEF At, IInv, OneRecord
<1>3. Record(t) \in Calls \X Providers /\ Provider(t) \in Providers
  BY <1>2, RecordType DEF IInv
<1>4. journal \in [Calls \X Providers ->
          {"none", "started", "complete", "refused", "not_started", "uncertain"}]
  BY DEF IInv, TypeOK
<1>5. \A r \in Calls \X Providers : journal[r] = "complete" => journal'[r] = "complete"
  BY <1>2, <1>4
<1>6. OwnJob' /\ OneStripe' /\ NotCached' /\ CachedIsAnswered'
  BY <1>1, <1>5, JobsKept, StripesKept, MissesKept, CacheKept DEF IInv
<1>7. CleanIsAnswered'
  <2>1. CASE s = "complete"
    <3>1. journal'[<<CallOf[threads'[t].key], Provider(t)>>] = "complete"
      BY <1>3, <1>4, <2>1 DEF Record
    <3> QED
      BY <1>3, <1>5, <3>1, CleanKept DEF IInv
  <2>2. CASE threads'[t].clean = threads[t].clean
    BY <1>2, <1>5, <2>2, CleanKept DEF IInv
  <2> QED
    BY <2>1, <2>2
<1>8. \A u \in At(Calling)' :
          /\ u # t /\ u \in At(Calling) /\ threads'[u] = threads[u]
          /\ Record(u)' = Record(u) /\ Record(u) # Record(t)
  <2> SUFFICES ASSUME NEW u \in At(Calling)'
               PROVE  /\ u # t /\ u \in At(Calling) /\ threads'[u] = threads[u]
                      /\ Record(u)' = Record(u) /\ Record(u) # Record(t)
    OBVIOUS
  <2>1. u # t /\ u \in Threads
    BY <1>1 DEF At
  <2>2. threads'[u] = threads[u] /\ u \in At(Calling)
    BY <2>1 DEF At, OnlyMoves
  <2> QED
    BY <1>2, <2>1, <2>2 DEF IInv, OneRecord, Record, Provider
<1>9. \A r \in Calls \X Providers : r # Record(t) => journal'[r] = journal[r]
  BY <1>4
<1>10. \A u \in At(Calling) : Record(u) \in Calls \X Providers
  BY <1>1, RecordType DEF At, IInv, OneRecord
<1>11. OneRecord'
  <2> SUFFICES ASSUME NEW u \in At(Calling)'
               PROVE  /\ threads'[u].link <= Len(Chain)
                      /\ journal'[Record(u)] = "started"
                      /\ \A v \in At(Calling)' : u # v => Record(u) # Record(v)
    BY <1>8 DEF OneRecord
  <2> QED
    BY <1>8, <1>9, <1>10 DEF IInv, OneRecord
<1>12. Undelivered'
  <2>1. \A r \in Calls \X Providers :
            delivered'[r] <= 1 /\ (journal'[r] \in OpenStates => delivered'[r] = 0)
    BY <1>3, <1>4, <1>9 DEF IInv, Undelivered, OpenStates
  <2>2. \A u \in At(Calling)' :
            threads'[u].pc \in {"started", "sent"} \/ threads'[u].answer = "refused"
            => delivered'[Record(u)] = 0
    BY <1>8 DEF IInv, Undelivered
  <2> QED
    BY <1>8, <2>1, <2>2 DEF Undelivered, OpenStates
<1>13. TypeOK'
  BY <1>4 DEF IInv, TypeOK, OnlyMoves
<1> QED
  BY <1>6, <1>7, <1>11, <1>12, <1>13 DEF IInv

LEMMA NotSentStep ==
    ASSUME IInv, NEW t \in Threads, NotSent(t)
    PROVE  IInv'
<1>1. /\ threads[t].pc = "started"
      /\ journal' = [journal EXCEPT ![Record(t)] = "not_started"]
      /\ threads' = [threads EXCEPT ![t] = NextLink(t)]
      /\ UNCHANGED <<server, restarts, jobs, results, cache, cooldown, delivered>>
  BY DEF NotSent, storeVars
<1>2. threads[t].pc \in Calling /\ t \in At(Calling)
  BY <1>1 DEF At, Calling
<1>3. threads[t].link <= Len(Chain) /\ delivered[Record(t)] = 0
  BY <1>1, <1>2 DEF IInv, OneRecord, Undelivered
<1>4. /\ OnlyMoves(t) /\ threads'[t].pc = "call" /\ threads'[t].job = threads[t].job
      /\ threads'[t].key = threads[t].key /\ threads'[t].clean = threads[t].clean
  BY <1>1, <1>3, NextLinkMoves DEF IInv
<1>5. cooldown' \subseteq Providers
  BY <1>1 DEF IInv, TypeOK
<1> QED
  BY <1>1, <1>2, <1>3, <1>4, <1>5, CallEnds

LEMMA CompleteStep ==
    ASSUME IInv, NEW t \in Threads, Complete(t)
    PROVE  IInv'
<1>1. /\ threads[t].pc = "answered"
      /\ journal' = [journal EXCEPT ![Record(t)] = "complete"]
      /\ threads' = [threads EXCEPT ![t].pc = "save", ![t].clean = TRUE]
      /\ UNCHANGED <<server, restarts, jobs, results, cache, cooldown, delivered>>
  BY DEF Complete, storeVars
<1>2. threads[t].pc \in Calling /\ "complete" \notin OpenStates
  BY <1>1 DEF Calling, OpenStates
<1>3. /\ OnlyMoves(t) /\ threads'[t].pc = "save" /\ threads'[t].job = threads[t].job
      /\ threads'[t].key = threads[t].key
  BY <1>1, TakesAnswer DEF IInv
<1>4. cooldown' \subseteq Providers
  BY <1>1 DEF IInv, TypeOK
<1> QED
  BY <1>1, <1>2, <1>3, <1>4, CallEnds

(* Only a refusal opens the record again; whatever is lost stays uncertain.   *)
LEMMA FailStep ==
    ASSUME IInv, NEW t \in Threads, NEW lost \in BOOLEAN, NEW cools \in BOOLEAN,
           Fail(t, lost, cools)
    PROVE  IInv'
<1>1. /\ threads[t].pc = "answered" /\ (lost \/ threads[t].answer = "refused")
      /\ journal' = [journal EXCEPT ![Record(t)] = Verdict(t, lost)]
      /\ threads' = [threads EXCEPT ![t] = NextLink(t)]
      /\ cooldown' = cooldown \/ cooldown' = cooldown \union {Provider(t)}
      /\ UNCHANGED <<server, restarts, jobs, results, cache, delivered>>
  BY DEF Fail, storeVars
<1>2. threads[t].pc \in Calling /\ t \in At(Calling) /\ threads[t].pc # "idle"
  BY <1>1 DEF At, Calling
<1>3. threads[t].link <= Len(Chain)
  BY <1>2 DEF IInv, OneRecord
<1>4. /\ Verdict(t, lost) \in {"complete", "refused", "not_started", "uncertain"}
      /\ Verdict(t, lost) \in OpenStates => delivered[Record(t)] = 0
  BY <1>1, <1>2 DEF Verdict, OpenStates, IInv, Undelivered
<1>5. /\ OnlyMoves(t) /\ threads'[t].pc = "call" /\ threads'[t].job = threads[t].job
      /\ threads'[t].key = threads[t].key /\ threads'[t].clean = threads[t].clean
  BY <1>1, <1>2, <1>3, NextLinkMoves DEF IInv
<1>6. cooldown' \subseteq Providers
  BY <1>1, <1>2, <1>3, RecordType DEF IInv, TypeOK
<1> QED
  BY <1>1, <1>2, <1>4, <1>5, <1>6, CallEnds

LEMMA RetryStep ==
    ASSUME IInv, NEW t \in Threads, Retry(t)
    PROVE  IInv'
<1>1. /\ threads[t].pc = "answered" /\ threads[t].answer = "refused" /\ MayRetry(t)
      /\ journal' = [journal EXCEPT ![Record(t)] = "refused"]
      /\ UNCHANGED <<server, restarts, jobs, results, cache, cooldown, delivered>>
  BY DEF Retry, storeVars
<1>2. threads[t].pc \in Calling /\ t \in At(Calling) /\ threads[t] \in Thread
  BY <1>1, Busy DEF At, Calling, IInv
<1>3. delivered[Record(t)] = 0
  BY <1>1, <1>2 DEF IInv, Undelivered
<1> DEFINE new == [threads[t] EXCEPT !.pc = "call", !.attempt = @ + 1, !.answer = "none"]
<1>4. threads[t].attempt + 1 \in 1..MaxAttempts
  <2>1. MaxAttempts \in Nat
    BY ExtractionAssumption
  <2>2. threads[t].attempt \in 1..MaxAttempts /\ threads[t].attempt < MaxAttempts
    BY <1>1, <1>2 DEF Thread, MayRetry
  <2> QED
    BY <2>1, <2>2
<1>5. new \in Thread
  BY <1>2, <1>4, ZenonT(60) DEF Thread
<1>6. /\ new.pc = "call" /\ new.job = threads[t].job /\ new.key = threads[t].key
      /\ new.clean = threads[t].clean
  BY <1>2 DEF Thread
<1>7. threads' = [threads EXCEPT ![t] = new]
  BY DEF Retry
<1> HIDE DEF new
<1>8. /\ OnlyMoves(t) /\ threads'[t].pc = "call" /\ threads'[t].job = threads[t].job
      /\ threads'[t].key = threads[t].key /\ threads'[t].clean = threads[t].clean
  BY <1>5, <1>6, <1>7 DEF OnlyMoves, IInv, TypeOK
<1>9. cooldown' \subseteq Providers
  BY <1>1 DEF IInv, TypeOK
<1> QED
  BY <1>1, <1>2, <1>3, <1>8, <1>9, CallEnds

-----------------------------------------------------------------------------
\* The server

LEMMA CooldownEndsStep ==
    ASSUME IInv, NEW p \in Providers, CooldownEnds(p)
    PROVE  IInv'
BY ZenonT(30) DEF IInv, TypeOK, CooldownEnds, storeVars, OwnJob, OneStripe, NotCached, OneRecord, Undelivered,
       CleanIsAnswered, CachedIsAnswered, Answered, At, Record, Provider

(* A crash frees every lock and keeps the journal.                            *)
LEMMA CrashStep ==
    ASSUME IInv, Crash
    PROVE  IInv'
<1>1. /\ threads' = [t \in Threads |-> Idle]
      /\ UNCHANGED <<jobs, results, cache, journal, delivered>>
  BY DEF Crash, storeVars
<1>2. \A t \in Threads : threads'[t].pc = "idle" /\ threads'[t].job = 0
  BY <1>1 DEF Idle
<1>3. At(Inside)' = {} /\ At(Calling)' = {} /\ At(Reading \union {"slot"})' = {}
  BY <1>2 DEF At, Inside, Reading, Calling
<1>4. TypeOK'
  BY <1>1, ExtractionAssumption DEF IInv, TypeOK, Crash
<1> QED
  BY <1>1, <1>2, <1>3, <1>4 DEF IInv, OwnJob, OneStripe, NotCached, OneRecord, Undelivered,
                               OpenStates, CleanIsAnswered, CachedIsAnswered, Answered

LEMMA StopStep ==
    ASSUME IInv, Stop \/ Stopped
    PROVE  IInv'
<1>1. UNCHANGED <<jobs, results, cache, threads, journal, delivered>>
  BY DEF Stop, Stopped, storeVars
<1>2. TypeOK'
  BY <1>1, ExtractionAssumption DEF IInv, TypeOK, Stop, Stopped
<1> QED
  BY <1>1, <1>2, SMTT(30) DEF IInv, OwnJob, OneStripe, NotCached, OneRecord, Undelivered,
                   CleanIsAnswered, CachedIsAnswered, Answered, At, Record, Provider

LEMMA StartStep ==
    ASSUME IInv, Start
    PROVE  IInv'
<1>1. /\ jobs' = Recovered /\ server' = "up"
      /\ UNCHANGED <<restarts, results, cache, threads, journal, cooldown, delivered>>
  BY DEF Start
<1>2. jobs \in Seq(Job) /\ \A n \in DOMAIN jobs : jobs[n] \in Job
  BY DEF IInv, TypeOK
<1>3. \A n \in DOMAIN jobs : Recovered[n] \in Job
  BY <1>2 DEF Recovered, Job
<1>4. jobs' \in Seq(Job) /\ Len(jobs') = Len(jobs) /\ DOMAIN jobs' = DOMAIN jobs
  BY <1>1, <1>2, <1>3 DEF Recovered
<1>5. TypeOK'
  BY <1>1, <1>4 DEF IInv, TypeOK
<1>6. OwnJob'
  BY <1>1, <1>4 DEF IInv, OwnJob
<1> QED
  BY <1>1, <1>5, <1>6 DEF IInv, OneStripe, NotCached, OneRecord, Undelivered,
                         CleanIsAnswered, CachedIsAnswered, Answered, At, Record, Provider

-----------------------------------------------------------------------------
\* The invariant

LEMMA InitInv == Init => IInv
<1> SUFFICES ASSUME Init PROVE IInv
  OBVIOUS
<1>1. \A t \in Threads : threads[t].pc = "idle" /\ threads[t].job = 0
  BY DEF Init, Idle
<1>2. At(Inside) = {} /\ At(Calling) = {} /\ At(Reading \union {"slot"}) = {}
  BY <1>1 DEF At, Inside, Reading, Calling
<1>3. TypeOK
  <2>1. MaxJobs \in Nat /\ MaxRestarts \in Nat
    BY ExtractionAssumption
  <2> QED
    BY <2>1 DEF Init, TypeOK
<1> QED
  BY <1>1, <1>2, <1>3 DEF Init, IInv, OwnJob, OneStripe, NotCached, OneRecord, Undelivered,
                         CleanIsAnswered, CachedIsAnswered

LEMMA StepInv == IInv /\ [Next]_vars => IInv'
<1> SUFFICES ASSUME IInv, [Next]_vars PROVE IInv'
  OBVIOUS
<1>1. CASE \E batch \in Batches : Submit(batch)
  BY <1>1, SubmitStep
<1>2. CASE \E t \in Requests, k \in Keys : Ask(t, k)
  BY <1>2, AskStep
<1>3. CASE \E t \in Threads : Work(t)
  <2> PICK t \in Threads : Work(t)
    BY <1>3
  <2>1. CASE Claim(t) \/ Finish(t)
    BY <2>1, ClaimStep, FinishStep
  <2>2. CASE Enter(t) \/ CacheHit(t) \/ CacheMiss(t) \/ TakeSlot(t) \/ Overdue(t) \/ Save(t)
    BY <2>2, EnterStep, CacheHitStep, CacheMissStep, PassStep, SaveStep
  <2>3. CASE ChainEnds(t) \/ Skip(t) \/ Replay(t) \/ Blocked(t) \/ StartCall(t) \/ Send(t)
    BY <2>3, PassStep, TurnStep, ReplayStep, StartCallStep, SendStep
  <2>4. CASE NotSent(t) \/ Deliver(t) \/ Complete(t) \/ Retry(t)
    BY <2>4, NotSentStep, DeliverStep, CompleteStep, RetryStep
  <2>5. CASE \E lost, cools \in BOOLEAN : Fail(t, lost, cools)
    BY <2>5, FailStep
  <2> QED
    BY <2>1, <2>2, <2>3, <2>4, <2>5 DEF Work
<1>4. CASE \E p \in Providers : CooldownEnds(p)
  BY <1>4, CooldownEndsStep
<1>5. CASE Crash \/ Stop \/ Stopped \/ Start
  BY <1>5, CrashStep, StopStep, StartStep
<1>6. CASE UNCHANGED vars
  BY <1>6, ZenonT(30) DEF vars, storeVars, IInv, TypeOK, OwnJob, OneStripe, NotCached, OneRecord, Undelivered,
              CleanIsAnswered, CachedIsAnswered, Answered, At, Record, Provider
<1> QED
  BY <1>1, <1>2, <1>3, <1>4, <1>5, <1>6 DEF Next

(* Whatever crashes, is lost or refused, the stores, the threads and the      *)
(* journal hold what their types say: a result belongs to a job of the queue. *)
THEOREM ExtractionTypeCorrect == Spec => []TypeOK
<1>1. IInv => TypeOK
  BY DEF IInv
<1> QED
  BY <1>1, InitInv, StepInv, PTL DEF Spec

(* A provider does the work of one call at most once (journal.py).            *)
THEOREM ExtractionNoSecondDelivery == Spec => []NoSecondDelivery
<1>1. IInv => NoSecondDelivery
  BY DEF IInv, Undelivered, NoSecondDelivery
<1> QED
  BY <1>1, InitInv, StepInv, PTL DEF Spec

(* No two threads read one document at once, and none reads what is cached.   *)
THEOREM ExtractionNoDoubleReading == Spec => []NoDoubleReading
<1>1. IInv => NoDoubleReading
  <2> SUFFICES ASSUME IInv, NEW t \in At(Reading)
               PROVE  /\ threads[t].key \notin cache
                      /\ \A u \in At(Reading) \ {t} : threads[u].key # threads[t].key
    BY DEF NoDoubleReading
  <2>1. At(Reading) \subseteq At(Inside) /\ At(Reading) \subseteq At(Reading \union {"slot"})
    BY DEF At, Inside
  <2> QED
    BY <2>1 DEF IInv, OneStripe, NotCached
<1> QED
  BY <1>1, InitInv, StepInv, PTL DEF Spec

(* Every cached reading rests on a complete answer in the journal.            *)
THEOREM ExtractionCachedIsAnswered == Spec => []CachedIsAnswered
<1>1. IInv => CachedIsAnswered
  BY DEF IInv
<1> QED
  BY <1>1, InitInv, StepInv, PTL DEF Spec

-----------------------------------------------------------------------------
\* The limit of the queue

LEMMA UnfinishedFinite ==
    ASSUME TypeOK
    PROVE  IsFiniteSet(Unfinished) /\ Unfinished \subseteq 1..Len(jobs) /\ Len(jobs) \in Nat
<1>1. DOMAIN jobs = 1..Len(jobs) /\ Len(jobs) \in Nat
  BY DEF TypeOK
<1>2. IsFiniteSet(1..Len(jobs))
  BY <1>1, FS_Interval
<1>3. Unfinished \subseteq 1..Len(jobs)
  BY <1>1 DEF Unfinished
<1> QED
  BY <1>1, <1>2, <1>3, FS_Subset

(* Nothing but a submission makes an unfinished job.                          *)
LEMMA NoNewJobs ==
    ASSUME TypeOK, QueueBounded, Unfinished' \subseteq Unfinished
    PROVE  QueueBounded'
<1>1. Cardinality(Unfinished') <= Cardinality(Unfinished) /\ Cardinality(Unfinished') \in Nat
  BY UnfinishedFinite, FS_Subset, FS_CardinalityType
<1>2. Cardinality(Unfinished) \in Nat /\ MaxQueued \in Nat
  BY UnfinishedFinite, FS_CardinalityType, ExtractionAssumption
<1> QED
  BY <1>1, <1>2 DEF QueueBounded

(* A batch is refused when the limit would be passed.                         *)
LEMMA SubmitBounded ==
    ASSUME TypeOK, NEW batch \in Batches, Submit(batch)
    PROVE  QueueBounded'
<1> DEFINE n == Len(jobs)
           m == Len(batch)
           fresh == (n + 1)..(n + m)
<1>1. batch \in Seq(Keys)
  <2>1. CASE \E k \in Keys : batch = <<k>>
    BY <2>1
  <2>2. CASE \E k, l \in Keys : batch = <<k, l>>
    BY <2>2
  <2> QED
    BY <2>1, <2>2 DEF Batches
<1>2. n \in Nat /\ m \in Nat /\ IsFiniteSet(Unfinished) /\ Unfinished \subseteq 1..n
  BY <1>1, UnfinishedFinite
<1>3. Cardinality(Unfinished) + m <= MaxQueued
  BY DEF Submit, Load
<1> DEFINE new == [i \in DOMAIN batch |-> [key |-> batch[i], status |-> "QUEUED"]]
<1>4. new \in Seq(Job) /\ Len(new) = m
  <2>1. \A i \in DOMAIN batch : new[i] \in Job
    BY <1>1 DEF Job
  <2> QED
    BY <1>1, <2>1
<1>5. jobs' = jobs \o new /\ jobs \in Seq(Job)
  BY DEF Submit, TypeOK
<1> HIDE DEF new
<1>6. /\ DOMAIN jobs' = 1..(n + m)
      /\ \A i \in 1..n : jobs'[i] = jobs[i]
  <2>1. /\ Len(jobs') = n + m /\ jobs' \in Seq(Job)
        /\ \A i \in 1..(n + m) : jobs'[i] = IF i <= n THEN jobs[i] ELSE new[i - n]
    <3>1. /\ jobs \o new \in Seq(Job) /\ Len(jobs \o new) = Len(jobs) + Len(new)
          /\ \A i \in 1..Len(jobs) + Len(new) :
                 (jobs \o new)[i] = IF i <= Len(jobs) THEN jobs[i] ELSE new[i - Len(jobs)]
      BY <1>4, <1>5, ConcatProperties, Zenon
    <3> QED
      BY <1>4, <1>5, <3>1
  <2> QED
    BY <1>2, <2>1
<1>7. Unfinished' \subseteq Unfinished \union fresh
  <2> SUFFICES ASSUME NEW i \in Unfinished', i \notin fresh PROVE i \in Unfinished
    OBVIOUS
  <2>1. i \in 1..n
    BY <1>2, <1>6 DEF Unfinished
  <2>2. i \in DOMAIN jobs
    BY <1>5, <2>1
  <2> QED
    BY <1>6, <2>1, <2>2 DEF Unfinished
<1>8. IsFiniteSet(fresh) /\ Cardinality(fresh) = m
  <2>1. n + 1 \in Int /\ n + m \in Int
    BY <1>2
  <2>2. /\ IsFiniteSet((n + 1)..(n + m))
        /\ Cardinality((n + 1)..(n + m)) = IF n + 1 > n + m THEN 0 ELSE (n + m) - (n + 1) + 1
    BY <2>1, FS_Interval, Zenon
  <2> QED
    BY <1>2, <2>2
<1>9. Unfinished \intersect fresh = {}
  BY <1>2
<1> HIDE DEF fresh, m, n
<1>10. Cardinality(Unfinished \union fresh) = Cardinality(Unfinished) + m
       /\ IsFiniteSet(Unfinished \union fresh)
  <2>1. Cardinality(Unfinished \intersect fresh) = 0
    BY <1>9, FS_EmptySet
  <2>2. Cardinality(Unfinished) \in Nat
    BY <1>2, FS_CardinalityType
  <2>3. /\ IsFiniteSet(Unfinished \union fresh)
        /\ Cardinality(Unfinished \union fresh)
           = Cardinality(Unfinished) + Cardinality(fresh) - Cardinality(Unfinished \intersect fresh)
    BY <1>2, <1>8, FS_Union, Zenon
  <2> QED
    BY <1>2, <1>8, <2>1, <2>2, <2>3
<1>11. Cardinality(Unfinished') <= Cardinality(Unfinished \union fresh)
       /\ Cardinality(Unfinished') \in Nat
  BY <1>7, <1>10, FS_Subset, FS_CardinalityType
<1>12. Cardinality(Unfinished) \in Nat /\ MaxQueued \in Nat
  BY <1>2, FS_CardinalityType, ExtractionAssumption
<1> QED
  BY <1>2, <1>3, <1>10, <1>11, <1>12 DEF QueueBounded

(* The queue never holds more unfinished jobs than its limit: a restart only  *)
(* turns running jobs back into queued ones.                                  *)
THEOREM ExtractionQueueBounded == Spec => []QueueBounded
<1>1. Init => QueueBounded
  <2> SUFFICES ASSUME Init PROVE QueueBounded
    OBVIOUS
  <2>1. Unfinished = {}
    BY DEF Init, Unfinished
  <2>2. MaxQueued \in Nat
    BY ExtractionAssumption
  <2> QED
    BY <2>1, <2>2, FS_EmptySet DEF QueueBounded
<1>2. IInv /\ QueueBounded /\ [Next]_vars => QueueBounded'
  <2> SUFFICES ASSUME TypeOK, QueueBounded, [Next]_vars PROVE QueueBounded'
    BY DEF IInv
  <2>1. CASE \E batch \in Batches : Submit(batch)
    BY <2>1, SubmitBounded
  <2>2. CASE \E t \in Threads : Claim(t)
    <3>1. PICK n \in Waiting : jobs' = [jobs EXCEPT ![n].status = "RUNNING"]
      BY <2>2 DEF Claim
    <3>2. DOMAIN jobs' = DOMAIN jobs /\ \A i \in DOMAIN jobs : i # n => jobs'[i] = jobs[i]
      BY <3>1
    <3>3. Unfinished' \subseteq Unfinished
      BY <3>2 DEF Unfinished, Waiting
    <3> QED
      BY <3>3, NoNewJobs
  <2>3. CASE \E t \in Threads : Finish(t)
    <3>1. PICK t \in Threads : Finish(t)
      BY <2>3
    <3>2. CASE threads[t].job = 0
      <4>1. UNCHANGED jobs
        BY <3>1, <3>2 DEF Finish
      <4> QED
        BY <4>1, NoNewJobs DEF Unfinished
    <3>3. CASE threads[t].job # 0
      <4> DEFINE n == threads[t].job
                 status == IF threads[t].pc = "finish" THEN "COMPLETED" ELSE "FAILED"
      <4>1. jobs' = [jobs EXCEPT ![n].status = status]
        BY <3>1, <3>3 DEF Finish
      <4>2. status \notin {"QUEUED", "RUNNING"}
        OBVIOUS
      <4> HIDE DEF n, status
      <4>3. \A i \in DOMAIN jobs :
                /\ i # n => jobs'[i] = jobs[i]
                /\ i = n => jobs'[i] = [jobs[i] EXCEPT !.status = status]
        BY <4>1
      <4>4. DOMAIN jobs' = DOMAIN jobs /\ \A i \in DOMAIN jobs : jobs[i] \in Job
        BY <4>1 DEF TypeOK
      <4>5. \A i \in DOMAIN jobs : i = n => jobs'[i].status = status
        BY <4>3, <4>4 DEF Job
      <4>6. Unfinished' \subseteq Unfinished
        BY <4>2, <4>3, <4>4, <4>5 DEF Unfinished
      <4> QED
        BY <4>6, NoNewJobs
    <3> QED
      BY <3>2, <3>3
  <2>4. CASE Start
    <3>1. jobs' = Recovered
      BY <2>4 DEF Start
    <3>2. DOMAIN jobs' = DOMAIN jobs
          /\ \A i \in DOMAIN jobs : jobs[i].status # "RUNNING" => jobs'[i] = jobs[i]
      BY <3>1 DEF Recovered
    <3>3. Unfinished' \subseteq Unfinished
      BY <3>2 DEF Unfinished
    <3> QED
      BY <3>3, NoNewJobs
  <2>5. CASE UNCHANGED jobs
    BY <2>5, NoNewJobs DEF Unfinished
  <2>6. \/ \E batch \in Batches : Submit(batch)
        \/ \E t \in Threads : Claim(t) \/ Finish(t)
        \/ Start \/ UNCHANGED jobs
    BY ZenonT(30) DEF Next, Work, vars, storeVars, Ask, Enter, CacheHit, CacheMiss, TakeSlot, Overdue, Save,
           ChainEnds, Skip, Replay, Blocked, StartCall, Send, NotSent, Deliver, Complete, Retry,
           Fail, CooldownEnds, Crash, Stop, Stopped
  <2> QED
    BY <2>1, <2>2, <2>3, <2>4, <2>5, <2>6
<1> QED
  BY <1>1, <1>2, InitInv, StepInv, PTL DEF Spec
=============================================================================
