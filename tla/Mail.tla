-------------------------------- MODULE Mail --------------------------------
(* Mail ingestion (features/mail_ingestion): workers poll a mailbox, enter the *)
(* messages past the cursor, claim one at a time under a lease, import its PDF  *)
(* parts as cases, run them under an idempotency key and record an outcome.     *)
(* Workers and requests die at any step; a request may outlive its worker.      *)
(*                                                                              *)
(* A request is one transaction and one step, except the two that wait: an      *)
(* import reads the document while it holds the row of the message, and a       *)
(* finish commits, runs the process with no row held and takes the lease again. *)
(* Time is the steps that end a lease or a wait, at any moment.                 *)
EXTENDS Integers, Sequences, FiniteSets

CONSTANTS
    LastUid,        \* UIDs the mailbox gives out: 1..LastUid
    Parts,          \* [Uids -> Seq of what a download of the part may give]
    Contents,       \* contents of valid PDFs, what a digest tells apart
    Workers,
    PageSize,       \* max_messages_per_poll
    MaxAttempts,    \* MAX_ATTEMPTS, of a message and of polls in a row
    MaxUploads,     \* bounds: cases people upload,
    MaxDecisions,   \* decisions of a case,
    Faults          \* and which faults happen

Uids == 1..LastUid

\* A download gives a valid PDF, or is refused: for good, or so that it may be retried.
Invalid == "invalid_pdf"
Refused == "size_limit"

ASSUME MailAssumption ==
    /\ \A n \in {LastUid, PageSize, MaxAttempts} : n \in Nat \ {0}
    /\ \A n \in {MaxUploads, MaxDecisions} : n \in Nat
    /\ Parts \in [Uids -> Seq(SUBSET (Contents \union {Invalid, Refused}))]
    /\ Contents \intersect {Invalid, Refused} = {}

VARIABLES
    mailbox,        \* [next, renumbered]: UIDNEXT, and whether UIDVALIDITY changed
    account,        \* table mail_accounts
    messages,       \* [Uids -> Message], table mail_messages
    rows,           \* [Uids -> Seq(Row)], table mail_attachments
    cases,          \* Seq(Case), the instances with the count of their decisions
    operations,     \* table run_operations: {[key, selection]}
    workers,        \* what each worker process remembers
    requests        \* [Workers -> Request], its request in the middle of a wait

mailVars == <<messages, rows>>
processVars == <<cases, operations>>
vars == <<mailbox, account, mailVars, processVars, workers, requests>>

-----------------------------------------------------------------------------
\* Rows

Terminal == {"completed", "partial", "ignored", "failed"}
MessageStates == Terminal \union {"absent", "discovered", "importing", "evaluating", "retry_wait"}

\* A lease token is the number of the claim it was made by, 0 when there is none.
Message == [state : MessageStates, saved : BOOLEAN, attempts : Nat, token : Nat,
            leased : BOOLEAN, waiting : BOOLEAN]
NoMessage == [state |-> "absent", saved |-> FALSE, attempts |-> 0, token |-> 0,
              leased |-> FALSE, waiting |-> FALSE]

\* "discovered" stands for "reading" too: no guard tells them apart.
RowStates == {"discovered", "failed", "imported", "duplicate", "completed"}
Row == [state : RowStates, error : {"none", "manual_pending_conflict", "retryable", "final"},
        case : Nat, decision : Nat]
NewRow == [state |-> "discovered", error |-> "none", case |-> 0, decision |-> 0]

Case == [content : Contents, decided : BOOLEAN, read : BOOLEAN, decisions : Nat,
         mail : BOOLEAN]

\* The key of a run is the message, with the parts it selects once a part is completed.
Key == [uid : Uids, parts : SUBSET Nat]
Operation == [key : Key, selection : SUBSET Nat]

Worker == [pc : {"idle", "ready", "poll", "discover", "claim", "manifest", "parts", "await", "fail"},
           loop : {"ready", "claim"}, uid : 0..LastUid, token : Nat, left : 0..PageSize, cursor : Nat, through : Int,
           permanent : BOOLEAN, polls : BOOLEAN]
IdleWorker == [pc |-> "idle", loop |-> "ready", uid |-> 0, token |-> 0, left |-> 0, cursor |-> 0, through |-> 0,
               permanent |-> FALSE, polls |-> FALSE]

Request == [pc : {"none", "attach", "run", "complete"}, uid : 0..LastUid, token : Nat,
            part : Nat, content : Contents \union {"none"}, key : Key \union {[uid |-> 0, parts |-> {}]},
            selection : SUBSET Nat, match : Nat]
NoRequest == [pc |-> "none", uid |-> 0, token |-> 0, part |-> 0, content |-> "none",
              key |-> [uid |-> 0, parts |-> {}], selection |-> {}, match |-> 0]

-----------------------------------------------------------------------------
\* Reads

\* require_active
IsActive == account.state = "active"

\* An import holds the row of its message until it commits.
Locked(u) == \E w \in Workers : requests[w].pc = "attach" /\ requests[w].uid = u

\* A holder whose message another claim took over goes on as if nothing happened.
LeasedByAnyone(u, token) == IsActive /\ token # 0

\* leased, with the row of the message locked and its token still the caller's.
Leased(u, token) == IsActive /\ token # 0 /\ messages[u].token = token

Discovered(u) == {k \in DOMAIN rows[u] : rows[u][k].state = "discovered"}
Imported(u) == {k \in DOMAIN rows[u] : rows[u][k].state = "imported"}

\* The oldest case of a content, 0 when there is none.
CaseOf(f) ==
    LET same == {n \in DOMAIN cases : cases[n].content = f}
    IN  IF same = {} THEN 0 ELSE CHOOSE n \in same : \A m \in same : n <= m

\* A row owns the case its import created.
Owns(row, n) == row.case = n /\ row.state \in {"imported", "completed"}
OwnedCase(n) == \E u \in Uids : \E k \in DOMAIN rows[u] : Owns(rows[u][k], n)

-----------------------------------------------------------------------------
\* The mailbox and time

Arrive ==
    /\ mailbox.next <= LastUid
    /\ mailbox' = [mailbox EXCEPT !.next = @ + 1]
    /\ UNCHANGED <<account, mailVars, processVars, workers, requests>>

Renumber ==
    /\ "renumber" \in Faults
    /\ mailbox' = [mailbox EXCEPT !.renumbered = TRUE]
    /\ UNCHANGED <<account, mailVars, processVars, workers, requests>>

LeaseEnds(u) ==
    /\ messages[u].leased /\ messages[u].state \notin Terminal
    /\ messages' = [messages EXCEPT ![u].leased = FALSE]
    /\ UNCHANGED <<mailbox, account, rows, processVars, workers, requests>>

WaitEnds(u) ==
    /\ messages[u].waiting /\ messages[u].state \notin Terminal
    /\ messages' = [messages EXCEPT ![u].waiting = FALSE]
    /\ UNCHANGED <<mailbox, account, rows, processVars, workers, requests>>

PollDue ==
    /\ account.waiting
    /\ account' = [account EXCEPT !.waiting = FALSE]
    /\ UNCHANGED <<mailbox, mailVars, processVars, workers, requests>>

-----------------------------------------------------------------------------
\* The account

Initialize ==
    /\ account.state = "uninitialized"
    /\ account' = [account EXCEPT !.state = "active", !.first = mailbox.next, !.next = mailbox.next]
    /\ UNCHANGED <<mailbox, mailVars, processVars, workers, requests>>

\* poll_failure: credentials and a renumbered mailbox halt the account, an outage after
\* too many in a row.
PollFailed(error) ==
    account' = [account EXCEPT !.failures = @ + 1, !.waiting = TRUE, !.error = error,
                   !.state = IF error # "imap_unavailable" \/ account.failures + 1 >= MaxAttempts
                             THEN "halted" ELSE @]

Halt ==
    /\ "operator" \in Faults
    /\ account' = [account EXCEPT !.state = "halted", !.error = "operator_halt"]
    /\ UNCHANGED <<mailbox, mailVars, processVars, workers, requests>>

\* Only a mailbox whose UIDs still mean the same is resumed.
ResumeAccount ==
    /\ "operator" \in Faults
    /\ account.state = "halted" /\ account.error # "uidvalidity_changed" /\ account.next # 0
    /\ account' = [account EXCEPT !.state = "active", !.error = "none", !.waiting = FALSE,
                                  !.failures = 0]
    /\ UNCHANGED <<mailbox, mailVars, processVars, workers, requests>>

-----------------------------------------------------------------------------
\* One cycle of a worker: what is ready, then the mailbox, then what it discovered

At(w, pc) == workers[w].pc = pc
Goes(w, pc) == workers' = [workers EXCEPT ![w].pc = pc]
Rests(w) == workers' = [workers EXCEPT ![w] = IdleWorker]

\* The worker is done with a message and claims the next one of its loop.
Unburdened(w) == [IdleWorker EXCEPT !.pc = workers[w].loop, !.loop = workers[w].loop,
                       !.left = workers[w].left, !.cursor = workers[w].cursor,
                       !.polls = workers[w].polls]
ClaimsNext(w) == workers' = [workers EXCEPT ![w] = Unburdened(w)]

StartCycle(w) ==
    /\ At(w, "idle") /\ IsActive
    /\ workers' = [workers EXCEPT ![w] =
          [IdleWorker EXCEPT !.pc = "ready", !.left = PageSize, !.cursor = account.next,
                             !.polls = ~account.waiting]]
    /\ UNCHANGED <<mailbox, account, mailVars, processVars, requests>>

\* The end of a lease is never seen.
NeverTakenOver(u, readyOnly) ==
    /\ messages[u].state \notin Terminal \union {"absent"}
    /\ ~messages[u].waiting
    /\ messages[u].token = 0 \/ messages[u].state = "retry_wait"
    /\ ~Locked(u)
    /\ readyOnly => messages[u].saved /\ Discovered(u) = {}

Claimable(u, readyOnly) ==
    /\ messages[u].state \notin Terminal \union {"absent"}
    /\ ~messages[u].waiting
    /\ ~messages[u].leased
    /\ ~Locked(u)
    /\ readyOnly => messages[u].saved /\ Discovered(u) = {}

\* One attempt more.
ExhaustedLater(u) == messages[u].attempts > MaxAttempts

Exhausted(u) == messages[u].attempts >= MaxAttempts

\* fail_unimported
Unimported(u, error) ==
    [k \in DOMAIN rows[u] |->
        IF rows[u][k].state = "discovered"
        THEN [rows[u][k] EXCEPT !.state = "failed", !.error = error] ELSE rows[u][k]]

\* Where a worker goes when a claim gives it nothing.
Unclaimed(w) == IF At(w, "ready") THEN [workers[w] EXCEPT !.pc = "poll"]
                ELSE IdleWorker

\* The message of the claim that made it, in the phase its saved state asks for.
Working(w, u) ==
    [workers[w] EXCEPT !.uid = u, !.token = messages[u].attempts + 1, !.left = @ - 1,
        !.pc = IF messages[u].saved THEN "parts" ELSE "manifest"]

Claim(w) ==
    /\ At(w, "ready") \/ At(w, "claim")
    /\ LET able == {u \in Uids : IsActive /\ workers[w].left > 0 /\ Claimable(u, At(w, "ready"))}
       IN  IF able = {}
           THEN workers' = [workers EXCEPT ![w] = Unclaimed(w)] /\ UNCHANGED mailVars
           ELSE LET u == CHOOSE v \in able : \A x \in able : v <= x
                IN  IF Exhausted(u)
                    THEN /\ messages' = [messages EXCEPT ![u].state = "failed"]
                         /\ rows' = [rows EXCEPT ![u] = Unimported(u, "final")]
                         /\ workers' = [workers EXCEPT ![w] = Unclaimed(w)]
                    ELSE /\ messages' = [messages EXCEPT ![u] =
                               [@ EXCEPT !.state = "importing", !.attempts = messages[u].attempts + 1,
                                         !.token = messages[u].attempts + 1,
                                         !.leased = TRUE, !.waiting = FALSE]]
                         /\ workers' = [workers EXCEPT ![w] = Working(w, u)]
                         /\ UNCHANGED rows
    /\ UNCHANGED <<mailbox, account, processVars, requests>>

\* Connected: the folder is opened, or the connection or the login fails. A poll that is not
\* due ends the cycle.
Poll(w) ==
    /\ At(w, "poll")
    /\ \/ /\ ~workers[w].polls
          /\ Rests(w) /\ UNCHANGED account
       \/ /\ workers[w].polls /\ ~mailbox.renumbered
          /\ LET through == IF mailbox.next - 1 < workers[w].cursor THEN workers[w].cursor - 1
                            ELSE IF mailbox.next - 1 < workers[w].cursor + PageSize - 1
                            THEN mailbox.next - 1 ELSE workers[w].cursor + PageSize - 1
             IN  workers' = [workers EXCEPT ![w].pc = "discover", ![w].through = through]
          /\ UNCHANGED account
       \/ /\ workers[w].polls /\ mailbox.renumbered
          /\ PollFailed("uidvalidity_changed") /\ Rests(w)
       \/ /\ workers[w].polls
          /\ \E error \in {"imap_unavailable", "invalid_credentials"} \intersect Faults :
                PollFailed(error)
          /\ Rests(w)
    /\ UNCHANGED <<mailbox, mailVars, processVars, requests>>

\* The cursor moves to the end of the mailbox though one page was entered.
DiscoverToTheEnd(w) ==
    /\ At(w, "discover")
    /\ IF IsActive /\ workers[w].cursor = account.next
       THEN /\ messages' = [u \in Uids |->
                  IF account.next <= u /\ u <= workers[w].through
                  THEN [NoMessage EXCEPT !.state = "discovered"] ELSE messages[u]]
            /\ account' = [account EXCEPT !.next = mailbox.next, !.failures = 0,
                                          !.waiting = FALSE, !.error = "none"]
            /\ workers' = [workers EXCEPT ![w] =
                  [IdleWorker EXCEPT !.pc = "claim", !.loop = "claim", !.left = PageSize]]
       ELSE Rests(w) /\ UNCHANGED <<messages, account>>
    /\ UNCHANGED <<mailbox, rows, processVars, requests>>

\* Every message of the page is entered and the cursor moves past the page, in one
\* transaction, unless another worker moved the cursor meanwhile.
Discover(w) ==
    /\ At(w, "discover")
    /\ IF IsActive /\ workers[w].cursor = account.next
       THEN /\ messages' = [u \in Uids |->
                  IF account.next <= u /\ u <= workers[w].through /\ messages[u] = NoMessage
                  THEN [NoMessage EXCEPT !.state = "discovered"] ELSE messages[u]]
            /\ account' = [account EXCEPT !.next = workers[w].through + 1, !.failures = 0,
                                          !.waiting = FALSE, !.error = "none"]
            /\ workers' = [workers EXCEPT ![w] =
                  [IdleWorker EXCEPT !.pc = "claim", !.loop = "claim", !.left = PageSize]]
       ELSE Rests(w) /\ UNCHANGED <<messages, account>>
    /\ UNCHANGED <<mailbox, rows, processVars, requests>>


-----------------------------------------------------------------------------
\* Processing one message

\* The request of the worker passes `leased', or it gets a conflict and reports a failure.
May(w) == Leased(workers[w].uid, workers[w].token)
GivesUp(w) == workers' = [workers EXCEPT ![w].pc = "fail", ![w].permanent = FALSE]

\* A message that is gone from the mailbox, too large or malformed fails for good.
MissManifest(w) ==
    /\ "missing" \in Faults
    /\ At(w, "manifest")
    /\ workers' = [workers EXCEPT ![w].pc = "fail", ![w].permanent = TRUE]
    /\ UNCHANGED <<mailbox, account, mailVars, processVars, requests>>

\* manifest: saved once; without PDF parts the message is ignored.
Manifest(w) ==
    /\ At(w, "manifest") /\ ~Locked(workers[w].uid)
    /\ LET u == workers[w].uid
       IN  IF ~May(w) THEN GivesUp(w) /\ UNCHANGED mailVars
           ELSE /\ messages' = [messages EXCEPT ![u].saved = TRUE, ![u].leased = TRUE,
                       ![u].state = IF Parts[u] = <<>> THEN "ignored" ELSE "importing"]
                /\ rows' = [rows EXCEPT ![u] = [k \in DOMAIN Parts[u] |-> NewRow]]
                /\ IF Parts[u] = <<>> THEN ClaimsNext(w) ELSE Goes(w, "parts")
    /\ UNCHANGED <<mailbox, account, processVars, requests>>

NextPart(u) == CHOOSE k \in Discovered(u) : \A j \in Discovered(u) : k <= j

\* A part whose download is refused fails; its error says whether a manager may retry it.
RejectPart(w) ==
    /\ At(w, "parts") /\ ~Locked(workers[w].uid) /\ Discovered(workers[w].uid) # {}
    /\ LET u == workers[w].uid
           k == NextPart(u)
       IN  \E error \in Parts[u][k] \intersect {Invalid, Refused} :
              IF ~May(w) THEN GivesUp(w) /\ UNCHANGED mailVars
              ELSE /\ rows' = [rows EXCEPT ![u][k].state = "failed",
                          ![u][k].error = IF error = Invalid THEN "retryable" ELSE "final"]
                   /\ messages' = [messages EXCEPT ![u].leased = TRUE]
                   /\ UNCHANGED workers
    /\ UNCHANGED <<mailbox, account, processVars, requests>>

\* import_pdf up to the process lock: the look-up, then the reading of the document. The
\* row of the message stays locked.
StartImport(w) ==
    /\ At(w, "parts") /\ ~Locked(workers[w].uid) /\ Discovered(workers[w].uid) # {}
    /\ requests[w] = NoRequest
    /\ LET u == workers[w].uid
           k == NextPart(u)
       IN  \E f \in Parts[u][k] \intersect Contents :
              IF ~May(w) THEN GivesUp(w) /\ UNCHANGED requests
              ELSE /\ requests' = [requests EXCEPT ![w] =
                          [NoRequest EXCEPT !.pc = "attach", !.uid = u, !.token = workers[w].token,
                                            !.part = k, !.content = f, !.match = CaseOf(f)]]
                   /\ Goes(w, "await")
    /\ UNCHANGED <<mailbox, account, mailVars, processVars>>

\* The answer of a request reaches its worker if that still waits for it.
Answered(w, worker) ==
    /\ requests' = [requests EXCEPT ![w] = NoRequest]
    /\ workers' = IF At(w, "await") THEN [workers EXCEPT ![w] = worker] ELSE workers
Answers(w, pc) == Answered(w, [workers[w] EXCEPT !.pc = pc])

\* The case looked up before the document was read.
SeenBefore(w) == requests[w].match

\* The look-up is made again under the process lock.
SeenNow(w) == CaseOf(requests[w].content)

\* A known content: the row points to the case and to its latest decision. A case that waits
\* for a person who uploaded it is left to that person.
DuplicateOf(n) ==
    [state |-> "duplicate", case |-> n, decision |-> cases[n].decisions,
     error |-> IF ~cases[n].decided /\ ~OwnedCase(n) THEN "manual_pending_conflict" ELSE "none"]

Attach(w) ==
    /\ requests[w].pc = "attach"
    /\ LET u == requests[w].uid
           k == requests[w].part
           n == SeenNow(w)
       IN  /\ IF n # 0
              THEN /\ rows' = [rows EXCEPT ![u][k] = DuplicateOf(n)]
                   /\ UNCHANGED cases
              ELSE /\ \E read \in {TRUE} \union (IF "unread" \in Faults THEN {FALSE} ELSE {}) :
                         cases' = Append(cases, [content |-> requests[w].content, decided |-> FALSE,
                                                 read |-> read, decisions |-> 0, mail |-> TRUE])
                   /\ rows' = [rows EXCEPT ![u][k] =
                         [NewRow EXCEPT !.state = "imported", !.case = Len(cases) + 1]]
           /\ messages' = [messages EXCEPT ![u].leased = TRUE]
    /\ Answers(w, "parts")
    /\ UNCHANGED <<mailbox, account, operations>>

-----------------------------------------------------------------------------
\* finish

\* One key for a message, whatever parts a retry added.
OneKeyPerMessage(u) == [uid |-> u, parts |-> {}]

\* The operation key of a run over the imported parts of a message.
RunKey(u) ==
    [uid |-> u,
     parts |-> IF \E k \in DOMAIN rows[u] : rows[u][k].state = "completed"
               THEN Imported(u) ELSE {}]

\* A part left to a person is no failure.
OutcomeWithoutConflicts(parts) ==
    IF \E k \in DOMAIN parts : parts[k].state = "failed" THEN "failed"
    ELSE IF parts # <<>> THEN "completed" ELSE "ignored"

\* The outcome of a message from its parts.
Outcome(parts) ==
    LET failures == \E k \in DOMAIN parts :
                       parts[k].state = "failed" \/ parts[k].error = "manual_pending_conflict"
        successes == \E k \in DOMAIN parts : parts[k].state \in {"completed", "duplicate"}
    IN  IF failures THEN IF successes THEN "partial" ELSE "failed"
        ELSE IF parts # <<>> THEN "completed" ELSE "ignored"

Closed(u, parts) ==
    [messages EXCEPT ![u] = [@ EXCEPT !.state = Outcome(parts), !.leased = FALSE]]

\* A finish with nothing to run ends the message; one with imported parts commits
\* "evaluating" and goes on to the run.
Finish(w) ==
    /\ At(w, "parts") /\ ~Locked(workers[w].uid) /\ Discovered(workers[w].uid) = {}
    /\ requests[w] = NoRequest
    /\ LET u == workers[w].uid
       IN  IF ~May(w) THEN GivesUp(w) /\ UNCHANGED <<messages, requests>>
           ELSE IF messages[u].state \in Terminal
           THEN ClaimsNext(w) /\ UNCHANGED <<messages, requests>>
           ELSE IF Imported(u) = {}
           THEN /\ messages' = Closed(u, rows[u])
                /\ ClaimsNext(w)
                /\ UNCHANGED requests
           ELSE /\ messages' = [messages EXCEPT ![u].state = "evaluating", ![u].leased = TRUE]
                /\ requests' = [requests EXCEPT ![w] =
                      [NoRequest EXCEPT !.pc = "run", !.uid = u, !.token = workers[w].token,
                                        !.key = RunKey(u),
                                        !.selection = {rows[u][k].case : k \in Imported(u)}]]
                /\ Goes(w, "await")
    /\ UNCHANGED <<mailbox, account, rows, processVars>>

\* decisions.run: a saved operation answers, another selection under its key is refused,
\* and else every undecided case of the selection that was read is decided.
Saved(key) == {op \in operations : op.key = key}

Run(w) ==
    /\ requests[w].pc = "run"
    /\ LET chosen == requests[w].selection
           saved == Saved(requests[w].key)
       IN  IF \E op \in saved : op.selection # chosen
           THEN Answers(w, "fail") /\ UNCHANGED processVars
           ELSE /\ requests' = [requests EXCEPT ![w].pc = "complete"]
                /\ UNCHANGED workers
                /\ IF saved # {} THEN UNCHANGED processVars
                   ELSE /\ operations' = operations \union
                              {[key |-> requests[w].key, selection |-> chosen]}
                        /\ cases' = [n \in DOMAIN cases |->
                              IF n \in chosen /\ cases[n].read /\ ~cases[n].decided
                              THEN [cases[n] EXCEPT !.decided = TRUE, !.decisions = @ + 1]
                              ELSE cases[n]]
    /\ UNCHANGED <<mailbox, account, mailVars>>

\* The parts of the message alone.
LinkOwnParts(u) ==
    [rows EXCEPT ![u] = [k \in DOMAIN rows[u] |->
        IF rows[u][k].state = "imported"
        THEN [rows[u][k] EXCEPT !.state = "completed", !.decision = 1] ELSE rows[u][k]]]

\* The lease is taken again. The cases the message owns are complete with their first
\* decision, and so are the rows of other messages that wait for the same cases.
LinkOwned(u) ==
    LET own == {rows[u][k].case : k \in Imported(u)}
    IN  [v \in Uids |-> [k \in DOMAIN rows[v] |->
            IF v = u /\ rows[v][k].state = "imported"
            THEN [rows[v][k] EXCEPT !.state = "completed", !.decision = 1]
            ELSE IF rows[v][k].case \in own /\ rows[v][k].state = "duplicate"
                    /\ rows[v][k].decision = 0
            THEN [rows[v][k] EXCEPT !.decision = 1]
            ELSE rows[v][k]]]

Complete(w) ==
    /\ requests[w].pc = "complete" /\ ~Locked(requests[w].uid)
    /\ LET u == requests[w].uid
       IN  IF ~Leased(u, requests[w].token)
              \/ \E k \in Imported(u) : cases[rows[u][k].case].decisions = 0
           THEN Answers(w, "fail") /\ UNCHANGED mailVars
           ELSE /\ rows' = LinkOwned(u)
                /\ messages' = Closed(u, LinkOwned(u)[u])
                /\ Answered(w, Unburdened(w))
    /\ UNCHANGED <<mailbox, account, processVars>>

-----------------------------------------------------------------------------
\* Failures

\* fail_message, the report of a worker that could not go on.
Fail(w) ==
    /\ At(w, "fail") /\ ~Locked(workers[w].uid)
    /\ LET u == workers[w].uid
           final == workers[w].permanent \/ Exhausted(u)
       IN  IF ~May(w) \/ messages[u].state \in Terminal THEN UNCHANGED mailVars
           ELSE /\ messages' = [messages EXCEPT ![u] =
                      [@ EXCEPT !.state = IF final THEN "failed" ELSE "retry_wait",
                                !.waiting = TRUE, !.leased = FALSE]]
                /\ rows' = IF final THEN [rows EXCEPT ![u] = Unimported(u, "retryable")] ELSE rows
    /\ ClaimsNext(w)
    /\ UNCHANGED <<mailbox, account, processVars, requests>>

\* The mailbox, the network or the backend fails a worker in the middle of a message.
GiveUp(w) ==
    /\ "network" \in Faults
    /\ workers[w].pc \in {"manifest", "parts", "await"}
    /\ GivesUp(w)
    /\ UNCHANGED <<mailbox, account, mailVars, processVars, requests>>

\* A worker process dies, or the answer to a claim or to a failure report is lost.
Die(w) ==
    /\ "crash" \in Faults
    /\ ~At(w, "idle")
    /\ Rests(w)
    /\ UNCHANGED <<mailbox, account, mailVars, processVars, requests>>

\* The backend dies in a request, or the reading or the run fails: nothing more commits.
RequestFails(w) ==
    /\ "backend" \in Faults
    /\ requests[w].pc # "none"
    /\ Answers(w, "fail")
    /\ UNCHANGED <<mailbox, account, mailVars, processVars>>

-----------------------------------------------------------------------------
\* People

\* A manager retries one failed part of a message that ended: its row and its message
\* start again, without a token, so no request in flight may write to them.
Retryable(u, k) ==
    /\ IsActive
    /\ messages[u].state \in {"failed", "partial"}
    /\ messages[u].attempts < MaxAttempts
    /\ ~messages[u].leased
    /\ rows[u][k].state = "failed" /\ rows[u][k].error = "retryable"

Retry(u, k) ==
    /\ "retry" \in Faults
    /\ ~Locked(u) /\ Retryable(u, k)
    /\ rows' = [rows EXCEPT ![u][k] = NewRow]
    /\ messages' = [messages EXCEPT ![u] =
          [@ EXCEPT !.state = "retry_wait", !.waiting = FALSE, !.token = 0, !.leased = FALSE]]
    /\ UNCHANGED <<mailbox, account, processVars, workers, requests>>

\* An upload under another name is another case, even of the same content.
Upload(f) ==
    /\ "upload" \in Faults
    /\ Cardinality({n \in DOMAIN cases : ~cases[n].mail}) < MaxUploads
    /\ cases' = Append(cases, [content |-> f, decided |-> FALSE, read |-> TRUE, decisions |-> 0,
                               mail |-> FALSE])
    /\ UNCHANGED <<mailbox, account, mailVars, operations, workers, requests>>

\* A person runs, reprocesses or resolves a case, or has it read again.
DecideByHand(n) ==
    /\ "decide" \in Faults
    /\ cases[n].decisions < MaxDecisions
    /\ cases' = [cases EXCEPT ![n].decided = TRUE, ![n].decisions = @ + 1]
    /\ UNCHANGED <<mailbox, account, mailVars, operations, workers, requests>>

ReadAgain(n) ==
    /\ ~cases[n].decided /\ ~cases[n].read
    /\ cases' = [cases EXCEPT ![n].read = TRUE]
    /\ UNCHANGED <<mailbox, account, mailVars, operations, workers, requests>>

-----------------------------------------------------------------------------

Init ==
    /\ mailbox = [next |-> 1, renumbered |-> FALSE]
    /\ account = [state |-> "uninitialized", first |-> 0, next |-> 0, failures |-> 0,
                  waiting |-> FALSE, error |-> "none"]
    /\ messages = [u \in Uids |-> NoMessage]
    /\ rows = [u \in Uids |-> <<>>]
    /\ cases = <<>>
    /\ operations = {}
    /\ workers = [w \in Workers |-> IdleWorker]
    /\ requests = [w \in Workers |-> NoRequest]

\* What a live worker does, and what the backend does for it.
WorkerStep(w) ==
    \/ StartCycle(w) \/ Claim(w) \/ Poll(w) \/ Discover(w)
    \/ Manifest(w) \/ RejectPart(w) \/ StartImport(w) \/ Finish(w) \/ Fail(w)
RequestStep(w) == Attach(w) \/ Run(w) \/ Complete(w)

Next ==
    \/ Arrive \/ Renumber \/ PollDue
    \/ Initialize \/ Halt \/ ResumeAccount
    \/ \E u \in Uids : \/ LeaseEnds(u) \/ WaitEnds(u)
                       \/ \E k \in DOMAIN rows[u] : Retry(u, k)
    \/ \E w \in Workers : \/ WorkerStep(w) \/ RequestStep(w)
                          \/ GiveUp(w) \/ MissManifest(w) \/ Die(w) \/ RequestFails(w)
    \/ \E f \in Contents : Upload(f)
    \/ \E n \in DOMAIN cases : DecideByHand(n) \/ ReadAgain(n)

\* Time passes, a worker that runs goes on and the backend answers it.
Fairness ==
    /\ WF_vars(PollDue)
    /\ \A u \in Uids : WF_vars(LeaseEnds(u)) /\ WF_vars(WaitEnds(u))
    /\ \A w \in Workers : WF_vars(WorkerStep(w)) /\ WF_vars(RequestStep(w))

Spec == Init /\ [][Next]_vars /\ Fairness

-----------------------------------------------------------------------------
\* The tables hold rows of their kind, and a claim counts its attempts.
TypeOK ==
    /\ mailbox \in [next : 1..LastUid + 1, renumbered : BOOLEAN]
    /\ account \in [state : {"uninitialized", "active", "halted"}, first : Nat, next : Nat,
                    failures : Nat, waiting : BOOLEAN,
                    error : {"none", "imap_unavailable", "invalid_credentials",
                             "uidvalidity_changed", "operator_halt"}]
    /\ messages \in [Uids -> Message]
    /\ \A u \in Uids : messages[u].attempts <= MaxAttempts
    /\ rows \in [Uids -> Seq(Row)]
    /\ cases \in Seq(Case)
    /\ operations \subseteq Operation
    /\ workers \in [Workers -> Worker]
    /\ requests \in [Workers -> Request]

\* The cursor is exact: the messages entered are those of the mailbox between the activation
\* boundary and the cursor, whichever workers poll, crash or race.
CursorIsExact ==
    \A u \in Uids :
        messages[u].state # "absent" <=> account.first <= u /\ u < account.next

\* Mail never makes a second case of a content the process has: neither of two messages with
\* one PDF, nor of an upload that arrives while the document is being read.
NoSecondCase ==
    \A n \in DOMAIN cases : cases[n].mail => CaseOf(cases[n].content) = n

\* A key is only ever used again with the selection it ran with, so the answer to a lost run
\* is always found and no retry of a message is refused for ever.
KeyKeepsItsSelection ==
    \A w \in Workers : requests[w].pc = "run" =>
        \A op \in Saved(requests[w].key) : op.selection = requests[w].selection

\* Once the message that owns a case is complete, every other message that carried the same
\* PDF points to a decision too, whichever order they were imported and decided in.
DuplicatesAreLinked ==
    \A u, v \in Uids : \A j \in DOMAIN rows[u], k \in DOMAIN rows[v] :
        rows[u][j].state = "completed" /\ rows[v][k].state = "duplicate"
        /\ rows[v][k].case = rows[u][j].case => rows[v][k].decision # 0

\* What a message says it completed is decided: a completed message has no part left
\* unread, failed or undecided, but for a duplicate of a case still to be decided.
CompletedIsDecided ==
    \A u \in Uids : messages[u].state = "completed" =>
        /\ rows[u] # <<>>
        /\ \A k \in DOMAIN rows[u] :
              \/ rows[u][k].state = "completed" /\ cases[rows[u][k].case].decisions > 0
              \/ rows[u][k].state = "duplicate" /\ rows[u][k].error = "none"

\* Only the holder of the lease writes to a message: what a request of a worker changes is
\* under the token of the last claim. (A claim and the clock write without one.)
OnlyTheHolderWrites ==
    [][\A u \in Uids, w \in Workers :
          (Attach(w) \/ Complete(w)) /\ requests[w].uid = u /\ messages'[u] # messages[u]
          => messages[u].token = requests[w].token]_vars

\* A final failure stays: the message waits for an operator.
FailureIsFinal ==
    [][\A u \in Uids :
          messages[u].state = "failed" /\ messages[u].attempts >= MaxAttempts
          => messages'[u].state = "failed"]_vars

\* Every message entered ends, however workers and requests die, as long as the account stays
\* active and workers keep claiming: attempts are bounded and each is ended by its lease.
EveryMessageEnds ==
    <>[]IsActive /\ []<><<\E w \in Workers : At(w, "claim") /\ Claim(w)>>_vars =>
        \A u \in Uids : messages[u].state # "absent" ~> messages[u].state \in Terminal

\* The abstract ledger: a terminal state is an outcome, a content is known by its cases.
Ledger ==
    INSTANCE MailLedger WITH
        book <- [u \in Uids |->
                    IF messages[u].state = "absent" THEN "unknown"
                    ELSE IF messages[u].state \in Terminal THEN messages[u].state ELSE "open"],
        next <- account.next,
        known <- {cases[n].content : n \in DOMAIN cases},
        imports <- [f \in Contents |->
                       Cardinality({n \in DOMAIN cases : cases[n].mail /\ cases[n].content = f})]
LedgerSpec == Ledger!Spec
=============================================================================
