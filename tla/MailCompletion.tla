--------------------------- MODULE MailCompletion ---------------------------
(* More proofs about Mail: a run key is only ever used with one selection, a  *)
(* message that says it completed is decided, and a duplicate is linked to    *)
(* the decision of the case that was completed. They rest on what the tokens  *)
(* of MailProofs guard: how the parts of a message may go on, and when none   *)
(* of them is left to be downloaded.                                          *)
EXTENDS MailProofs

Completed(u) == {k \in DOMAIN rows[u] : rows[u][k].state = "completed"}

\* A part that was imported has a case, which is decided once the part is complete; a
\* duplicate is nobody's failure.
RowsFounded ==
    \A u \in Uids : \A k \in DOMAIN rows[u] :
        /\ rows[u][k].state \in {"imported", "completed"} => rows[u][k].case \in DOMAIN cases
        /\ rows[u][k].state = "completed" => cases[rows[u][k].case].decisions > 0
        /\ rows[u][k].state = "duplicate" => rows[u][k].error \in {"none", "manual_pending_conflict"}

\* Parts come with the manifest, and who has the token and comes before it knows of none.
RowsSaved == \A u \in Uids : ~messages[u].saved => rows[u] = <<>>
Early(w) == workers[w].pc = "manifest" \/ workers[w].permanent
EarlyIsUnsaved ==
    \A w \in Workers :
        /\ workers[w].permanent => workers[w].pc = "fail"
        /\ Early(w) /\ Current(workers[w].uid, WClaim(w)) => ~messages[workers[w].uid].saved

\* The part an import waits for waits too, and a run under the token comes after the last part.
ImportsWait ==
    \A w \in Workers : requests[w].pc = "attach" => requests[w].part \in Discovered(requests[w].uid)
RunsAreLast ==
    \A w \in Workers :
        requests[w].pc \in {"run", "complete"} /\ Current(requests[w].uid, RClaim(w))
        => Discovered(requests[w].uid) = {}

\* A message that ended and may be retried has no part a run has still to decide.
Ended(u) ==
    messages[u].state \in {"failed", "partial"} /\ messages[u].attempts < MaxAttempts
    => Discovered(u) = {} /\ Imported(u) = {}
Decided(u) ==
    messages[u].state = "completed" =>
        /\ rows[u] # <<>>
        /\ \A k \in DOMAIN rows[u] :
              \/ rows[u][k].state = "completed" /\ cases[rows[u][k].case].decisions > 0
              \/ rows[u][k].state = "duplicate" /\ rows[u][k].error = "none"
EndsHold == \A u \in Uids : Ended(u) /\ Decided(u)

\* The runs that were saved or may still be, each with what it says of the parts: under the
\* key of the message alone, that they stay as they were until the first is complete.
RunOf(w) == [key |-> requests[w].key, selection |-> requests[w].selection]
Runs == operations \union {RunOf(w) : w \in {v \in Workers : requests[v].pc = "run"}}
CasesOf(u, parts) == {rows[u][k].case : k \in parts}
RunIsKnown(op) ==
    LET u == op.key.uid
    IN  IF op.key.parts = {}
        THEN \/ Completed(u) # {}
             \/ Discovered(u) = {} /\ Imported(u) # {} /\ op.selection = CasesOf(u, Imported(u))
        ELSE /\ op.key.parts \subseteq Imported(u) \union Completed(u)
             /\ op.selection = CasesOf(u, op.key.parts)
RunsAreKnown == \A op \in Runs : RunIsKnown(op)
OneSelection == \A a, b \in Runs : a.key = b.key => a.selection = b.selection

RowsHold == RowsFounded /\ DuplicatesAreLinked
PhasesHold == RowsSaved /\ EarlyIsUnsaved /\ ImportsWait /\ RunsAreLast
RunsHold == RunsAreKnown /\ OneSelection
CInv == RowsHold /\ PhasesHold /\ EndsHold /\ RunsHold

-----------------------------------------------------------------------------
\* How the parts of a message go on

\* Cases are only added, and a decided case stays decided.
CasesStay ==
    /\ DOMAIN cases \subseteq DOMAIN cases'
    /\ \A n \in DOMAIN cases : cases[n].decisions > 0 => cases'[n].decisions > 0

\* The parts of u are where they were.
SameParts(u) ==
    /\ DOMAIN rows'[u] = DOMAIN rows[u]
    /\ \A k \in DOMAIN rows[u] : /\ rows'[u][k].state = rows[u][k].state
                                 /\ rows'[u][k].case = rows[u][k].case
                                 /\ rows'[u][k].error = rows[u][k].error

\* An imported part keeps its case until it is complete, and no part joins those of a run.
PartsGoOn(u) ==
    /\ \A k \in DOMAIN rows[u] :
          /\ rows[u][k].state \in {"imported", "completed"} =>
                 /\ k \in DOMAIN rows'[u] /\ rows'[u][k].case = rows[u][k].case
                 /\ rows'[u][k].state \in {"imported", "completed"}
          /\ rows[u][k].state = "completed" => rows'[u][k].state = "completed"
    /\ Discovered(u) = {} /\ Imported(u) # {} =>
          \/ Completed(u)' # {}
          \/ Discovered(u)' = {} /\ Imported(u)' = Imported(u)

LEMMA SamePartsGoOn ==
    ASSUME NEW u, SameParts(u)
    PROVE  /\ PartsGoOn(u) /\ Discovered(u)' = Discovered(u) /\ Imported(u)' = Imported(u)
           /\ Completed(u)' = Completed(u)
<1>1. /\ Discovered(u)' = Discovered(u) /\ Imported(u)' = Imported(u)
      /\ Completed(u)' = Completed(u)
  BY DEF SameParts, Discovered, Imported, Completed
<1> QED
  BY <1>1 DEF SameParts, PartsGoOn

LEMMA EmptyParts ==
    ASSUME NEW parts \in Seq(Row) PROVE parts = <<>> <=> DOMAIN parts = {}
<1>1. DOMAIN parts = 1..Len(parts) /\ Len(parts) \in Nat
  OBVIOUS
<1>2. parts = <<>> <=> Len(parts) = 0
  BY EmptySeq
<1>3. \A n \in Nat : n = 0 <=> 1..n = {}
  OBVIOUS
<1> QED
  BY <1>1, <1>2, <1>3, Zenon

(* Rows that stay where they were keep what they say of their cases.          *)
LEMMA RowsStay ==
    ASSUME RowsHold, UNCHANGED rows, CasesStay PROVE RowsHold'
<1>1. RowsFounded'
  BY DEF RowsHold, RowsFounded, CasesStay
<1>2. DuplicatesAreLinked'
  BY DEF RowsHold, DuplicatesAreLinked
<1> QED
  BY <1>1, <1>2 DEF RowsHold

(* A message whose parts and state stay keeps what its end says.              *)
LEMMA EndStays ==
    ASSUME TypeOK, TypeOK', RowsFounded, CasesStay, NEW u \in Uids, SameParts(u), Ended(u) /\ Decided(u),
           \/ messages'[u].state \notin {"failed", "partial", "completed"}
           \/ /\ messages'[u].state = messages[u].state
              /\ messages'[u].attempts = messages[u].attempts
    PROVE  Ended(u)' /\ Decided(u)'
<1>1. Ended(u)'
  BY SamePartsGoOn DEF Ended
<1>2. Decided(u)'
  <2> SUFFICES ASSUME messages'[u].state = "completed"
               PROVE  /\ rows'[u] # <<>>
                      /\ \A k \in DOMAIN rows'[u] :
                            \/ rows'[u][k].state = "completed" /\ cases'[rows'[u][k].case].decisions > 0
                            \/ rows'[u][k].state = "duplicate" /\ rows'[u][k].error = "none"
    BY DEF Decided
  <2>1. messages[u].state = "completed" /\ rows[u] # <<>>
    BY DEF Decided
  <2>2. rows'[u] # <<>>
    <3>1. DOMAIN rows'[u] # {}
      BY <2>1, EmptyParts DEF SameParts, TypeOK
    <3>2. DOMAIN <<>> = {}
      OBVIOUS
    <3> QED
      BY <3>1, <3>2
  <2>3. ASSUME NEW k \in DOMAIN rows'[u]
        PROVE  \/ rows'[u][k].state = "completed" /\ cases'[rows'[u][k].case].decisions > 0
               \/ rows'[u][k].state = "duplicate" /\ rows'[u][k].error = "none"
    <3>1. k \in DOMAIN rows[u] /\ rows'[u][k].state = rows[u][k].state
          /\ rows'[u][k].case = rows[u][k].case /\ rows'[u][k].error = rows[u][k].error
      BY <2>3 DEF SameParts
    <3>2. CASE rows[u][k].state = "completed"
      BY <3>1, <3>2 DEF RowsFounded, CasesStay
    <3>3. CASE rows[u][k].state # "completed"
      BY <2>1, <3>1, <3>3 DEF Decided
    <3> QED
      BY <3>2, <3>3
  <2> QED
    BY <2>2, <2>3
<1> QED
  BY <1>1, <1>2

LEMMA RunKeys ==
    ASSUME IInv PROVE \A op \in Runs : op.key.uid \in Uids
<1>1. \A op \in operations : op.key \in Key
  BY DEF IInv, TypeOK, Operation
<1>2. \A w \in Workers : requests[w].pc = "run" => RunOf(w).key \in Key
  BY DEF IInv, RequestsFormed, RunOf
<1>3. \A key \in Key : key.uid \in Uids
  BY DEF Key
<1> QED
  BY <1>1, <1>2, <1>3 DEF Runs

(* What is known of a run stays known while the parts of its message go on.   *)
LEMMA KnownStays ==
    ASSUME NEW op, NEW u, u = op.key.uid, RunIsKnown(op), PartsGoOn(u)
    PROVE  RunIsKnown(op)'
<1>1. /\ Completed(u) # {} => Completed(u)' # {}
      /\ \A k \in Imported(u) \union Completed(u) :
             k \in (Imported(u) \union Completed(u))' /\ rows'[u][k].case = rows[u][k].case
  BY DEF PartsGoOn, Completed, Imported
<1>2. CASE op.key.parts # {}
  <2>1. /\ op.key.parts \subseteq Imported(u) \union Completed(u)
        /\ op.selection = CasesOf(u, op.key.parts)
    BY <1>2 DEF RunIsKnown
  <2>2. op.key.parts \subseteq (Imported(u) \union Completed(u))'
    BY <1>1, <2>1
  <2>3. CasesOf(u, op.key.parts)' = CasesOf(u, op.key.parts)
    BY <1>1, <2>1 DEF CasesOf
  <2> QED
    BY <1>2, <2>1, <2>2, <2>3 DEF RunIsKnown
<1>3. CASE op.key.parts = {} /\ Completed(u)' # {}
  BY <1>3 DEF RunIsKnown
<1>4. CASE op.key.parts = {} /\ Completed(u)' = {}
  <2>1. Discovered(u) = {} /\ Imported(u) # {} /\ op.selection = CasesOf(u, Imported(u))
    BY <1>1, <1>4 DEF RunIsKnown
  <2>2. Discovered(u)' = {} /\ Imported(u)' = Imported(u)
    BY <1>4, <2>1 DEF PartsGoOn
  <2>3. \A k \in Imported(u) : rows'[u][k].case = rows[u][k].case
    BY <1>1
  <2>4. CasesOf(u, Imported(u))' = CasesOf(u, Imported(u))
    BY <2>2, <2>3 DEF CasesOf
  <2> QED
    BY <1>4, <2>1, <2>2, <2>4 DEF RunIsKnown
<1> QED
  BY <1>2, <1>3, <1>4

LEMMA RunsStay ==
    ASSUME IInv, RunsHold, \A u \in Uids : PartsGoOn(u), Runs' \subseteq Runs
    PROVE  RunsHold'
<1>1. RunsAreKnown'
  <2> SUFFICES ASSUME NEW op \in Runs' PROVE RunIsKnown(op)'
    BY DEF RunsAreKnown
  <2>1. op \in Runs /\ op.key.uid \in Uids /\ RunIsKnown(op)
    BY RunKeys DEF RunsHold, RunsAreKnown
  <2> QED
    BY <2>1, KnownStays
<1>2. OneSelection'
  BY DEF RunsHold, OneSelection
<1> QED
  BY <1>1, <1>2 DEF RunsHold

-----------------------------------------------------------------------------
\* How workers and requests go on

WorkerGoesOn(v) ==
    /\ workers'[v].permanent => workers'[v].pc = "fail"
    /\ Early(v)' => Early(v) /\ WClaim(v)' = WClaim(v)
RequestGoesOn(v) ==
    /\ requests'[v].pc = "attach" => requests'[v].part \in Discovered(requests[v].uid)'
    /\ requests'[v].pc \in {"run", "complete"} =>
          \/ requests[v].pc \in {"run", "complete"} /\ RClaim(v)' = RClaim(v)
          \/ Discovered(requests[v].uid)' = {}

(* A step that lets nobody come before the manifest again and adds no part to *)
(* download keeps the phases.                                                 *)
LEMMA PhasesStay ==
    ASSUME IInv, PhasesHold, SameTokens,
           \A u \in Uids : /\ messages'[u].saved = messages[u].saved
                           /\ rows[u] = <<>> => rows'[u] = <<>>
                           /\ Discovered(u)' \subseteq Discovered(u),
           \A v \in Workers : WorkerGoesOn(v) /\ RequestGoesOn(v)
    PROVE  PhasesHold'
<1>1. RowsSaved'
  BY DEF PhasesHold, RowsSaved
<1>2. EarlyIsUnsaved'
  <2> SUFFICES ASSUME NEW v \in Workers
               PROVE  /\ workers'[v].permanent => workers'[v].pc = "fail"
                      /\ Early(v)' /\ Current(workers[v].uid, WClaim(v))' => ~messages'[workers'[v].uid].saved
    BY DEF EarlyIsUnsaved
  <2>1. WorkerGoesOn(v)
    OBVIOUS
  <2>2. ASSUME Early(v)', Current(workers[v].uid, WClaim(v))' PROVE ~messages'[workers'[v].uid].saved
    <3>1. Early(v) /\ WClaim(v)' = WClaim(v)
      BY <2>1, <2>2 DEF WorkerGoesOn
    <3>2. workers[v].pc \in {"manifest", "fail"}
      BY <3>1 DEF Early, PhasesHold, EarlyIsUnsaved
    <3>3. workers[v].uid \in Uids /\ workers'[v].uid = workers[v].uid
      BY <3>1, <3>2, BusyFields DEF WClaim
    <3>4. Current(workers[v].uid, WClaim(v))
      BY <2>2, <3>1, <3>3 DEF Current, SameTokens
    <3> QED
      BY <3>1, <3>3, <3>4 DEF PhasesHold, EarlyIsUnsaved
  <2> QED
    BY <2>1, <2>2 DEF WorkerGoesOn
<1>3. ImportsWait'
  BY DEF ImportsWait, RequestGoesOn
<1>4. RunsAreLast'
  <2> SUFFICES ASSUME NEW v \in Workers, requests'[v].pc \in {"run", "complete"},
                      Current(requests[v].uid, RClaim(v))'
               PROVE  Discovered(requests[v].uid)' = {}
    BY DEF RunsAreLast
  <2>1. CASE requests[v].pc \in {"run", "complete"} /\ RClaim(v)' = RClaim(v)
    <3>1. requests[v].uid \in Uids /\ requests'[v].uid = requests[v].uid
      BY <2>1, AskingFields DEF RClaim
    <3>2. Current(requests[v].uid, RClaim(v))
      BY <2>1, <3>1 DEF Current, SameTokens
    <3>3. Discovered(requests[v].uid) = {}
      BY <2>1, <3>2 DEF PhasesHold, RunsAreLast
    <3>4. Discovered(requests[v].uid)' \subseteq Discovered(requests[v].uid)
      BY <3>1 DEF Discovered
    <3> QED
      BY <3>3, <3>4
  <2> QED
    BY <2>1 DEF RequestGoesOn
<1> QED
  BY <1>1, <1>2, <1>3, <1>4 DEF PhasesHold

LEMMA WorkersGoOn ==
    ASSUME PhasesHold, NEW w \in Workers, OnlyWorker(w), WorkerGoesOn(w)
    PROVE  \A v \in Workers : WorkerGoesOn(v)
<1> SUFFICES ASSUME NEW v \in Workers, v # w PROVE WorkerGoesOn(v)
  OBVIOUS
<1>1. workers'[v] = workers[v]
  BY DEF OnlyWorker
<1> QED
  BY <1>1 DEF WorkerGoesOn, Early, WClaim, PhasesHold, EarlyIsUnsaved

LEMMA WorkersRest ==
    ASSUME PhasesHold, UNCHANGED workers PROVE \A v \in Workers : WorkerGoesOn(v)
BY DEF WorkerGoesOn, Early, WClaim, PhasesHold, EarlyIsUnsaved

\* Who waits for an import finds its part where it was.
PartsWait(v) ==
    requests[v].pc = "attach" =>
        LET parts == rows'[requests[v].uid]
        IN  requests[v].part \in DOMAIN parts /\ parts[requests[v].part].state = "discovered"

LEMMA RequestsGoOn ==
    ASSUME NEW w \in Workers, OnlyRequest(w), RequestGoesOn(w),
           \A v \in Workers : v # w => PartsWait(v)
    PROVE  \A v \in Workers : RequestGoesOn(v)
<1> SUFFICES ASSUME NEW v \in Workers, v # w PROVE RequestGoesOn(v)
  OBVIOUS
<1>1. requests'[v] = requests[v]
  BY DEF OnlyRequest
<1>2. PartsWait(v)
  OBVIOUS
<1> QED
  BY <1>1, <1>2 DEF RequestGoesOn, RClaim, PartsWait, Discovered

LEMMA RequestsRest ==
    ASSUME UNCHANGED requests, \A v \in Workers : PartsWait(v)
    PROVE  \A v \in Workers : RequestGoesOn(v)
BY DEF RequestGoesOn, RClaim, PartsWait, Discovered

(* While the rows stay, imports wait for the parts they waited for.           *)
LEMMA SameRowsWait ==
    ASSUME PhasesHold, UNCHANGED rows
    PROVE  /\ \A v \in Workers : PartsWait(v)
           /\ \A u \in Uids : SameParts(u) /\ Discovered(u)' = Discovered(u)
<1>1. \A u \in Uids : SameParts(u) /\ Discovered(u)' = Discovered(u)
  BY DEF SameParts, Discovered
<1>2. \A v \in Workers : PartsWait(v)
  BY DEF PhasesHold, ImportsWait, Discovered, PartsWait
<1> QED
  BY <1>1, <1>2

LEMMA RequestsSame ==
    ASSUME PhasesHold, UNCHANGED <<rows, requests>> PROVE \A v \in Workers : RequestGoesOn(v)
BY SameRowsWait, RequestsRest

LEMMA RequestEnds ==
    ASSUME PhasesHold, UNCHANGED rows, NEW w \in Workers, OnlyRequest(w), requests'[w].pc = "none"
    PROVE  \A v \in Workers : RequestGoesOn(v)
BY SameRowsWait, RequestsGoOn DEF RequestGoesOn

-----------------------------------------------------------------------------
\* Steps that write no part

QuietMessages ==
    \A u \in Uids : /\ messages'[u].saved = messages[u].saved
                    /\ messages'[u].state \in {"failed", "partial", "completed"}
                       => messages'[u].state = messages[u].state

(* Such a step keeps the invariant when it ends no message and keeps what is  *)
(* known of the runs.                                                         *)
LEMMA QuietRuns ==
    ASSUME IInv, IInv', CInv, UNCHANGED rows, CasesStay, SameTokens, QuietMessages,
           \A v \in Workers : WorkerGoesOn(v) /\ RequestGoesOn(v), RunsHold'
    PROVE  CInv'
<1>1. RowsHold'
  BY RowsStay DEF CInv
<1>2. PhasesHold'
  BY PhasesStay, SameRowsWait DEF CInv, QuietMessages
<1>3. EndsHold'
  <2> SUFFICES ASSUME NEW u \in Uids PROVE Ended(u)' /\ Decided(u)'
    BY DEF EndsHold
  <2>1. messages'[u].attempts = messages[u].attempts
    BY DEF SameTokens
  <2> QED
    BY <2>1, EndStays, SameRowsWait DEF IInv, CInv, EndsHold, QuietMessages, RowsHold
<1> QED
  BY <1>1, <1>2, <1>3 DEF CInv

LEMMA QuietKeeps ==
    ASSUME IInv, IInv', CInv, UNCHANGED rows, CasesStay, SameTokens, QuietMessages,
           \A v \in Workers : WorkerGoesOn(v) /\ RequestGoesOn(v), Runs' \subseteq Runs
    PROVE  CInv'
<1>1. RunsHold'
  BY RunsStay, SameRowsWait, SamePartsGoOn DEF CInv
<1> QED
  BY <1>1, QuietRuns

LEMMA SameRuns ==
    ASSUME UNCHANGED <<operations, requests>> PROVE Runs' = Runs
BY DEF Runs, RunOf

(* A request that ends takes its run with it.                                 *)
LEMMA RunsEnd ==
    ASSUME UNCHANGED operations, NEW w \in Workers, OnlyRequest(w), requests'[w].pc # "run"
    PROVE  Runs' \subseteq Runs
<1> SUFFICES ASSUME NEW v \in Workers, requests'[v].pc = "run" PROVE RunOf(v)' \in Runs
  BY DEF Runs
<1>1. requests'[v] = requests[v]
  BY DEF OnlyRequest
<1> QED
  BY <1>1 DEF Runs, RunOf

LEMMA SameMessages == ASSUME UNCHANGED messages PROVE SameTokens /\ QuietMessages
BY DEF SameTokens, QuietMessages

LEMMA CasesUntouched == ASSUME UNCHANGED cases PROVE CasesStay
BY DEF CasesStay

-----------------------------------------------------------------------------
\* The mailbox, time, the account and people

LEMMA OutsideStays ==
    ASSUME IInv, IInv', CInv, UNCHANGED <<messages, rows, cases, operations, workers, requests>>
    PROVE  CInv'
BY QuietKeeps, SameMessages, CasesUntouched, WorkersRest, RequestsSame, SameRuns DEF CInv

LEMMA ClockStays ==
    ASSUME IInv, IInv', CInv, NEW u \in Uids, LeaseEnds(u) \/ WaitEnds(u) PROVE CInv'
<1>1. UNCHANGED <<rows, cases, operations, workers, requests>>
  BY DEF LeaseEnds, WaitEnds, processVars
<1>2. OnlyMessage(u) /\ messages'[u].state = messages[u].state
  BY LeaseMoves, WaitMoves DEF LeaseEnds, WaitEnds, IInv
<1>3. messages'[u].saved = messages[u].saved
  <2>1. messages[u] \in Message /\ messages \in [Uids -> Message]
    BY DEF IInv, TypeOK
  <2> QED
    BY <2>1 DEF LeaseEnds, WaitEnds, Message
<1>4. SameTokens /\ QuietMessages
  BY <1>2, <1>3 DEF SameTokens, QuietMessages, OnlyMessage
<1> QED
  BY <1>1, <1>4, QuietKeeps, CasesUntouched, WorkersRest, RequestsSame, SameRuns DEF CInv

LEMMA PeopleStay ==
    ASSUME IInv, IInv', CInv, \/ \E f \in Contents : Upload(f)
                              \/ \E n \in DOMAIN cases : DecideByHand(n) \/ ReadAgain(n)
    PROVE  CInv'
<1>1. UNCHANGED <<messages, rows, operations, workers, requests>>
  BY DEF Upload, DecideByHand, ReadAgain, mailVars
<1>2. /\ cases \in Seq(Case) /\ Len(cases) \in Nat /\ DOMAIN cases = 1..Len(cases)
      /\ \A n \in DOMAIN cases : cases[n] \in Case /\ cases[n].decisions \in Nat
  BY Cases DEF IInv
<1>3. CasesStay
  <2>1. ASSUME NEW f \in Contents, Upload(f) PROVE CasesStay
    <3>1. PICK new : cases' = Append(cases, new)
      BY <2>1 DEF Upload
    <3>2. DOMAIN cases' = 1..Len(cases) + 1 /\ \A n \in DOMAIN cases : cases'[n] = cases[n]
      BY <1>2, <3>1
    <3> QED
      BY <1>2, <3>2 DEF CasesStay
  <2>2. ASSUME NEW n \in DOMAIN cases, DecideByHand(n) \/ ReadAgain(n) PROVE CasesStay
    <3>1. /\ DOMAIN cases' = DOMAIN cases
          /\ \A m \in DOMAIN cases : m # n => cases'[m] = cases[m]
      BY <2>2 DEF DecideByHand, ReadAgain
    <3>2. cases'[n].decisions \in {cases[n].decisions, cases[n].decisions + 1}
      BY <1>2, <2>2 DEF DecideByHand, ReadAgain, Case
    <3> QED
      BY <1>2, <3>1, <3>2 DEF CasesStay
  <2> QED
    BY <2>1, <2>2
<1> QED
  BY <1>1, <1>3, QuietKeeps, SameMessages, WorkersRest, RequestsSame, SameRuns DEF CInv

-----------------------------------------------------------------------------
\* A worker that moves on

(* A worker that does not come before the manifest goes on.                   *)
LEMMA WorkerGoes ==
    ASSUME IInv, PhasesHold, NEW w \in Workers, NEW new, workers' = [workers EXCEPT ![w] = new],
           new.permanent = FALSE, new.pc # "manifest"
    PROVE  \A v \in Workers : WorkerGoesOn(v)
<1> SUFFICES ASSUME NEW v \in Workers PROVE WorkerGoesOn(v)
  OBVIOUS
<1>1. workers'[v] = IF v = w THEN new ELSE workers[v]
  BY DEF IInv, TypeOK
<1> QED
  BY <1>1 DEF WorkerGoesOn, Early, WClaim, PhasesHold, EarlyIsUnsaved

(* Only a worker that failed has a permanent failure.                         *)
LEMMA NotPermanent ==
    ASSUME IInv, PhasesHold, NEW w \in Workers, workers[w].pc # "fail"
    PROVE  workers[w].permanent = FALSE
BY WorkerFields DEF IInv, PhasesHold, EarlyIsUnsaved

LEMMA GoesGoesOn ==
    ASSUME IInv, PhasesHold, NEW w \in Workers, workers[w].pc # "fail",
           NEW pc \in {"parts", "await"}, Goes(w, pc)
    PROVE  \A v \in Workers : WorkerGoesOn(v)
<1> DEFINE new == [workers[w] EXCEPT !.pc = pc]
<1>1. new.permanent = FALSE /\ new.pc # "manifest"
  BY NotPermanent, WorkerFields DEF IInv, Worker
<1>2. workers' = [workers EXCEPT ![w] = new]
  BY DEF Goes
<1> HIDE DEF new
<1> QED
  BY <1>1, <1>2, WorkerGoes

LEMMA GivesUpGoesOn ==
    ASSUME IInv, PhasesHold, NEW w \in Workers, GivesUp(w)
    PROVE  \A v \in Workers : WorkerGoesOn(v)
<1> DEFINE new == [workers[w] EXCEPT !.pc = "fail", !.permanent = FALSE]
<1>1. new.permanent = FALSE /\ new.pc # "manifest"
  BY WorkerFields DEF IInv, Worker
<1>2. workers' = [workers EXCEPT ![w] = new]
  BY DEF GivesUp
<1> HIDE DEF new
<1> QED
  BY <1>1, <1>2, WorkerGoes

LEMMA RestsGoesOn ==
    ASSUME IInv, PhasesHold, NEW w \in Workers, Rests(w)
    PROVE  \A v \in Workers : WorkerGoesOn(v)
<1>1. IdleWorker.permanent = FALSE /\ IdleWorker.pc # "manifest"
  BY DEF IdleWorker
<1> QED
  BY <1>1, WorkerGoes DEF Rests

LEMMA UnburdenedIsFree ==
    ASSUME IInv, NEW w \in Workers
    PROVE  Unburdened(w).permanent = FALSE /\ Unburdened(w).pc # "manifest"
<1>1. Unburdened(w).permanent = FALSE
  BY DEF Unburdened, IdleWorker
<1> QED
  BY <1>1, UnburdenedType DEF IInv

LEMMA ClaimsNextGoesOn ==
    ASSUME IInv, PhasesHold, NEW w \in Workers, ClaimsNext(w)
    PROVE  \A v \in Workers : WorkerGoesOn(v)
BY UnburdenedIsFree, WorkerGoes DEF ClaimsNext

LEMMA AnswersGoesOn ==
    ASSUME IInv, PhasesHold, NEW w \in Workers, NEW pc \in {"parts", "fail"}, Answers(w, pc)
    PROVE  \A v \in Workers : WorkerGoesOn(v)
<1>1. CASE workers[w].pc = "await"
  <2> DEFINE new == [workers[w] EXCEPT !.pc = pc]
  <2>1. new.permanent = FALSE /\ new.pc # "manifest"
    BY <1>1, NotPermanent, WorkerFields DEF IInv, Worker
  <2>2. workers' = [workers EXCEPT ![w] = new]
    BY <1>1 DEF Answers, Answered, At
  <2> HIDE DEF new
  <2> QED
    BY <2>1, <2>2, WorkerGoes
<1>2. CASE workers[w].pc # "await"
  BY <1>2, WorkersRest DEF Answers, Answered, At
<1> QED
  BY <1>1, <1>2

(* A step of a worker alone.                                                  *)
LEMMA AloneStays ==
    ASSUME IInv, IInv', CInv, \A v \in Workers : WorkerGoesOn(v),
           UNCHANGED <<messages, rows, cases, operations, requests>>
    PROVE  CInv'
BY QuietKeeps, SameMessages, CasesUntouched, RequestsSame, SameRuns DEF CInv

LEMMA LeavingStays ==
    ASSUME IInv, IInv', CInv, NEW w \in Workers, MissManifest(w) \/ GiveUp(w) \/ Die(w) PROVE CInv'
<1>1. UNCHANGED <<messages, rows, cases, operations, requests>>
  BY DEF MissManifest, GiveUp, Die, mailVars, processVars
<1>2. PhasesHold
  BY DEF CInv
<1>3. CASE MissManifest(w)
  <2> DEFINE new == [workers[w] EXCEPT !.pc = "fail", !.permanent = TRUE]
  <2>1. /\ new.pc = "fail" /\ new.uid = workers[w].uid /\ new.token = workers[w].token
    BY WorkerFields DEF IInv, Worker
  <2>2. workers' = [workers EXCEPT ![w] = new] /\ workers[w].pc = "manifest"
    BY <1>3 DEF MissManifest, At
  <2> HIDE DEF new
  <2>3. workers'[w] = new
    BY <2>2 DEF IInv, TypeOK
  <2>4. OnlyWorker(w)
    BY <1>3, GivesUpMoves DEF MissManifest, IInv
  <2>5. WorkerGoesOn(w)
    BY <2>1, <2>2, <2>3 DEF WorkerGoesOn, Early, WClaim
  <2> QED
    BY <1>1, <1>2, <2>4, <2>5, WorkersGoOn, AloneStays
<1>4. CASE GiveUp(w)
  BY <1>1, <1>2, <1>4, GivesUpGoesOn, AloneStays DEF GiveUp
<1>5. CASE Die(w)
  BY <1>1, <1>2, <1>5, RestsGoesOn, AloneStays DEF Die
<1> QED
  BY <1>3, <1>4, <1>5

LEMMA StartCycleStays == ASSUME IInv, IInv', CInv, NEW w \in Workers, StartCycle(w) PROVE CInv'
<1> DEFINE new == [IdleWorker EXCEPT !.pc = "ready", !.left = PageSize, !.cursor = account.next,
                                     !.polls = ~account.waiting]
<1>1. UNCHANGED <<messages, rows, cases, operations, requests>>
  BY DEF StartCycle, mailVars, processVars
<1>2. new.permanent = FALSE /\ new.pc # "manifest"
  BY DEF IdleWorker
<1>3. workers' = [workers EXCEPT ![w] = new]
  BY DEF StartCycle
<1> HIDE DEF new
<1> QED
  BY <1>1, <1>2, <1>3, WorkerGoes, AloneStays DEF CInv

LEMMA PollStays == ASSUME IInv, IInv', CInv, NEW w \in Workers, Poll(w) PROVE CInv'
<1>1. UNCHANGED <<messages, rows, cases, operations, requests>> /\ workers[w].pc = "poll"
  BY DEF Poll, mailVars, processVars, At
<1>2. Rests(w) \/ \E through : workers' = [workers EXCEPT ![w].pc = "discover", ![w].through = through]
  BY DEF Poll
<1>3. ASSUME NEW through, workers' = [workers EXCEPT ![w].pc = "discover", ![w].through = through]
      PROVE  \A v \in Workers : WorkerGoesOn(v)
  <2> DEFINE new == [workers[w] EXCEPT !.pc = "discover", !.through = through]
  <2>1. new.permanent = FALSE /\ new.pc # "manifest"
    BY <1>1, NotPermanent, WorkerFields DEF IInv, Worker, CInv
  <2>2. workers' = [workers EXCEPT ![w] = new]
    BY <1>3
  <2> HIDE DEF new
  <2> QED
    BY <2>1, <2>2, WorkerGoes DEF CInv
<1> QED
  BY <1>1, <1>2, <1>3, RestsGoesOn, AloneStays DEF CInv

LEMMA DiscoverStays == ASSUME IInv, IInv', CInv, NEW w \in Workers, Discover(w) PROVE CInv'
<1>1. UNCHANGED <<rows, cases, operations, requests>>
  BY DEF Discover, processVars
<1>2. CASE Rests(w) /\ UNCHANGED messages
  BY <1>1, <1>2, RestsGoesOn, AloneStays DEF CInv
<1>3. CASE ~(Rests(w) /\ UNCHANGED messages)
  <2> DEFINE new == [IdleWorker EXCEPT !.pc = "claim", !.loop = "claim", !.left = PageSize]
  <2>1. workers' = [workers EXCEPT ![w] = new]
    BY <1>3 DEF Discover
  <2>2. new.permanent = FALSE /\ new.pc # "manifest"
    BY DEF IdleWorker
  <2> HIDE DEF new
  <2>3. \A v \in Workers : WorkerGoesOn(v)
    BY <2>1, <2>2, WorkerGoes DEF CInv
  <2>4. \A u \in Uids :
           \/ messages'[u] = messages[u]
           \/ messages[u] = NoMessage /\ messages'[u] = [NoMessage EXCEPT !.state = "discovered"]
    BY <1>3 DEF Discover
  <2>5. SameTokens /\ QuietMessages
    <3> DEFINE entered == [NoMessage EXCEPT !.state = "discovered"]
    <3>1. /\ entered.state = "discovered" /\ entered.saved = NoMessage.saved
          /\ entered.token = NoMessage.token /\ entered.attempts = NoMessage.attempts
      BY DEF NoMessage
    <3>2. \A u \in Uids : \/ messages'[u] = messages[u]
                          \/ messages[u] = NoMessage /\ messages'[u] = entered
      BY <2>4
    <3> HIDE DEF entered
    <3> QED
      BY <3>1, <3>2 DEF SameTokens, QuietMessages
  <2> QED
    BY <1>1, <2>3, <2>5, QuietKeeps, CasesUntouched, RequestsSame, SameRuns DEF CInv
<1> QED
  BY <1>2, <1>3

-----------------------------------------------------------------------------
\* Requests that write no part

LEMMA RefusedStays ==
    ASSUME IInv, IInv', CInv, NEW w \in Workers, Answers(w, "fail"),
           UNCHANGED <<messages, rows, cases, operations>>
    PROVE  CInv'
<1>1. OnlyRequest(w) /\ requests'[w].pc = "none"
  BY AnswersMoves DEF IInv
<1>2. \A v \in Workers : WorkerGoesOn(v)
  BY AnswersGoesOn DEF CInv
<1>3. \A v \in Workers : RequestGoesOn(v)
  BY <1>1, RequestEnds DEF CInv
<1>4. Runs' \subseteq Runs
  BY <1>1, RunsEnd
<1> QED
  BY <1>2, <1>3, <1>4, QuietKeeps, SameMessages, CasesUntouched

LEMMA RequestFailsStays ==
    ASSUME IInv, IInv', CInv, NEW w \in Workers, RequestFails(w) PROVE CInv'
BY RefusedStays DEF RequestFails, mailVars, processVars

LEMMA NextPartIs ==
    ASSUME IInv, NEW u \in Uids, Discovered(u) # {} PROVE NextPart(u) \in Discovered(u)
<1>1. rows[u] \in Seq(Row)
  BY DEF IInv, TypeOK
<1>2. Discovered(u) \in SUBSET Nat
  BY <1>1 DEF Discovered
<1> QED
  BY <1>2, FirstExists DEF NextPart

LEMMA StartImportStays == ASSUME IInv, IInv', CInv, NEW w \in Workers, StartImport(w) PROVE CInv'
<1> DEFINE u == workers[w].uid
           k == NextPart(u)
<1>1. /\ UNCHANGED <<messages, rows, cases, operations>> /\ workers[w].pc = "parts"
      /\ Discovered(u) # {}
  BY DEF StartImport, processVars, mailVars, At
<1>2. CASE GivesUp(w) /\ UNCHANGED requests
  BY <1>1, <1>2, GivesUpGoesOn, AloneStays DEF CInv
<1>3. CASE ~(GivesUp(w) /\ UNCHANGED requests)
  <2>1. PICK f \in Contents : requests' = [requests EXCEPT ![w] =
            [NoRequest EXCEPT !.pc = "attach", !.uid = u, !.token = workers[w].token,
                              !.part = k, !.content = f, !.match = CaseOf(f)]]
    BY <1>3 DEF StartImport
  <2>2. Goes(w, "await")
    BY <1>3 DEF StartImport
  <2>3. u \in Uids /\ k \in Discovered(u)
    BY <1>1, BusyFields, NextPartIs
  <2> DEFINE match == CaseOf(f)
             new == [NoRequest EXCEPT !.pc = "attach", !.uid = u, !.token = workers[w].token,
                                      !.part = k, !.content = f, !.match = match]
  <2>4. requests' = [requests EXCEPT ![w] = new]
    BY <2>1
  <2> HIDE DEF k, match, u
  <2>5. new.pc = "attach" /\ new.uid = u /\ new.part = k
    BY IdleType DEF Request
  <2> HIDE DEF new
  <2>6. requests'[w] = new /\ \A v \in Workers \ {w} : requests'[v] = requests[v]
    BY <2>4 DEF IInv, TypeOK
  <2>7. OnlyRequest(w)
    BY <2>6 DEF IInv, TypeOK, OnlyRequest
  <2>8. \A v \in Workers : WorkerGoesOn(v)
    BY <1>1, <2>2, GoesGoesOn DEF CInv
  <2>9. RequestGoesOn(w)
    BY <1>1, <2>3, <2>5, <2>6 DEF RequestGoesOn, Discovered
  <2>10. \A v \in Workers : RequestGoesOn(v)
    BY <1>1, <2>7, <2>9, SameRowsWait, RequestsGoOn DEF CInv
  <2>11. Runs' \subseteq Runs
    BY <1>1, <2>5, <2>6, <2>7, RunsEnd
  <2> QED
    BY <1>1, <2>8, <2>10, <2>11, QuietKeeps, SameMessages, CasesUntouched
<1> QED
  BY <1>2, <1>3

LEMMA RunStays == ASSUME IInv, IInv', CInv, NEW w \in Workers, Run(w) PROVE CInv'
<1> DEFINE chosen == requests[w].selection
           key == requests[w].key
           new == [requests[w] EXCEPT !.pc = "complete"]
<1>1. UNCHANGED <<messages, rows>> /\ requests[w].pc = "run"
  BY DEF Run, mailVars
<1>2. CASE Answers(w, "fail") /\ UNCHANGED processVars
  BY <1>1, <1>2, RefusedStays DEF processVars
<1>3. CASE ~(Answers(w, "fail") /\ UNCHANGED processVars)
  <2>1. requests' = [requests EXCEPT ![w] = new] /\ UNCHANGED workers
    BY <1>3 DEF Run
  <2>2. \/ UNCHANGED <<cases, operations>>
        \/ /\ operations' = operations \union {[key |-> key, selection |-> chosen]}
           /\ cases' = [n \in DOMAIN cases |->
                 IF n \in chosen /\ cases[n].read /\ ~cases[n].decided
                 THEN [cases[n] EXCEPT !.decided = TRUE, !.decisions = cases[n].decisions + 1]
                 ELSE cases[n]]
    <3>1. \A n \in DOMAIN cases :
            [cases[n] EXCEPT !.decided = TRUE, !.decisions = @ + 1] =
            [cases[n] EXCEPT !.decided = TRUE, !.decisions = cases[n].decisions + 1]
      BY Cases DEF IInv, Case
    <3> QED
      BY <1>3, <3>1 DEF Run, processVars
  <2>3. CasesStay
    <3>1. CASE UNCHANGED cases
      BY <3>1, CasesUntouched
    <3>2. CASE ~UNCHANGED cases
      <4>1. ASSUME NEW n \in DOMAIN cases
            PROVE  cases'[n].decisions \in {cases[n].decisions, cases[n].decisions + 1}
                   /\ cases[n].decisions \in Nat
        <5>1. cases[n] \in Case /\ cases[n].decisions \in Nat
          BY Cases DEF IInv
        <5>2. [cases[n] EXCEPT !.decided = TRUE, !.decisions = cases[n].decisions + 1].decisions
              = cases[n].decisions + 1
          BY <5>1 DEF Case
        <5> QED
          BY <2>2, <3>2, <5>1, <5>2
      <4>2. DOMAIN cases' = DOMAIN cases
        BY <2>2, <3>2
      <4> QED
        BY <4>1, <4>2 DEF CasesStay
    <3> QED
      BY <3>1, <3>2
  <2>4. /\ new.pc = "complete" /\ new.uid = requests[w].uid /\ new.token = requests[w].token
    BY RequestFields DEF Request, IInv
  <2> HIDE DEF new
  <2>5. requests'[w] = new /\ OnlyRequest(w)
    BY <2>1 DEF IInv, TypeOK, OnlyRequest
  <2>6. \A v \in Workers : WorkerGoesOn(v)
    BY <2>1, WorkersRest DEF CInv
  <2>7. RequestGoesOn(w)
    BY <1>1, <2>4, <2>5 DEF RequestGoesOn, RClaim
  <2>8. \A v \in Workers : RequestGoesOn(v)
    BY <1>1, <2>5, <2>7, SameRowsWait, RequestsGoOn DEF CInv
  <2>9. Runs' \subseteq Runs
    <3>1. operations' \subseteq Runs
      BY <1>1, <2>2 DEF Runs, RunOf
    <3>2. ASSUME NEW v \in Workers, requests'[v].pc = "run" PROVE RunOf(v)' \in Runs
      <4>1. requests'[v] = requests[v]
        BY <2>4, <2>5, <3>2 DEF OnlyRequest
      <4> QED
        BY <3>2, <4>1 DEF Runs, RunOf
    <3> QED
      BY <3>1, <3>2 DEF Runs
  <2> QED
    BY <1>1, <2>3, <2>6, <2>8, <2>9, QuietKeeps, SameMessages
<1> QED
  BY <1>2, <1>3

-----------------------------------------------------------------------------
\* Steps that write the parts of one message

\* The parts of u go on from where they wait for their download; all others stay.
OnlyParts(u) ==
    /\ \A v \in Uids : v # u => rows'[v] = rows[v]
    /\ DOMAIN rows'[u] = DOMAIN rows[u]
    /\ \A k \in DOMAIN rows[u] :
          \/ rows'[u][k] = rows[u][k]
          \/ rows[u][k].state = "discovered" /\ rows'[u][k].state \in {"failed", "imported", "duplicate"}

LEMMA OnlyPartsGoOn ==
    ASSUME TypeOK, TypeOK', NEW u \in Uids, OnlyParts(u)
    PROVE  \A v \in Uids : /\ PartsGoOn(v) /\ Discovered(v)' \subseteq Discovered(v)
                           /\ rows[v] = <<>> => rows'[v] = <<>>
                           /\ v # u => SameParts(v)
<1>1. ASSUME NEW v \in Uids, v # u
      PROVE  PartsGoOn(v) /\ Discovered(v)' \subseteq Discovered(v) /\ SameParts(v) /\ rows'[v] = rows[v]
  <2>1. SameParts(v) /\ rows'[v] = rows[v]
    BY <1>1 DEF OnlyParts, SameParts
  <2> QED
    BY <2>1, SamePartsGoOn
<1>2. Discovered(u)' \subseteq Discovered(u)
  BY DEF OnlyParts, Discovered
<1>3. PartsGoOn(u)
  <2>1. ASSUME Discovered(u) = {}
        PROVE  Discovered(u)' = {} /\ Imported(u)' = Imported(u)
    <3>1. \A k \in DOMAIN rows[u] : rows'[u][k] = rows[u][k]
      BY <2>1 DEF OnlyParts, Discovered
    <3> QED
      BY <1>2, <2>1, <3>1 DEF OnlyParts, Imported
  <2>2. \A k \in DOMAIN rows[u] : rows[u][k].state \in {"imported", "completed"} => rows'[u][k] = rows[u][k]
    BY DEF OnlyParts
  <2> QED
    BY <2>1, <2>2 DEF OnlyParts, PartsGoOn
<1>4. rows[u] = <<>> => rows'[u] = <<>>
  BY EmptyParts DEF OnlyParts, TypeOK
<1> QED
  BY <1>1, <1>2, <1>3, <1>4

LEMMA OthersWait ==
    ASSUME IInv, PhasesHold, NEW u \in Uids, \A v \in Uids : v # u => rows'[v] = rows[v],
           NEW w \in Workers, requests[w].pc = "attach" => requests[w].uid # u
    PROVE  PartsWait(w)
<1> SUFFICES ASSUME requests[w].pc = "attach"
             PROVE  LET parts == rows'[requests[w].uid]
                    IN  requests[w].part \in DOMAIN parts /\ parts[requests[w].part].state = "discovered"
  BY DEF PartsWait
<1>1. requests[w].uid \in Uids
  BY AskingFields
<1> QED
  BY <1>1 DEF PhasesHold, ImportsWait, Discovered

(* Parts that fail have no case and are no duplicates.                        *)
LEMMA FailedParts ==
    ASSUME RowsHold, UNCHANGED cases, NEW u \in Uids, OnlyParts(u),
           \A k \in DOMAIN rows[u] : rows'[u][k] = rows[u][k] \/ rows'[u][k].state = "failed"
    PROVE  RowsHold'
<1>1. \A v \in Uids : \A k \in DOMAIN rows'[v] :
          k \in DOMAIN rows[v] /\ (rows'[v][k] = rows[v][k] \/ rows'[v][k].state = "failed")
  BY DEF OnlyParts
<1>2. RowsFounded'
  BY <1>1 DEF RowsHold, RowsFounded
<1>3. DuplicatesAreLinked'
  <2> SUFFICES ASSUME NEW v \in Uids, NEW x \in Uids, NEW j \in DOMAIN rows'[v], NEW k \in DOMAIN rows'[x],
                      rows'[v][j].state = "completed", rows'[x][k].state = "duplicate",
                      rows'[x][k].case = rows'[v][j].case
               PROVE  rows'[x][k].decision # 0
    BY DEF DuplicatesAreLinked
  <2>1. /\ j \in DOMAIN rows[v] /\ rows'[v][j] = rows[v][j]
        /\ k \in DOMAIN rows[x] /\ rows'[x][k] = rows[x][k]
    BY <1>1
  <2> QED
    BY <2>1 DEF RowsHold, DuplicatesAreLinked
<1> QED
  BY <1>2, <1>3 DEF RowsHold

(* What is left to show of a step that writes the parts of one message.       *)
LEMMA PartsKeep ==
    ASSUME IInv, IInv', CInv, NEW u \in Uids, OnlyParts(u), CasesStay, RowsHold', SameTokens,
           \A v \in Uids : /\ messages'[v].saved = messages[v].saved
                           /\ v # u => messages'[v].state = messages[v].state,
           Ended(u)', Decided(u)', \A v \in Workers : WorkerGoesOn(v) /\ RequestGoesOn(v),
           Runs' \subseteq Runs
    PROVE  CInv'
<1>1. \A v \in Uids : /\ PartsGoOn(v) /\ Discovered(v)' \subseteq Discovered(v)
                      /\ rows[v] = <<>> => rows'[v] = <<>>
                      /\ v # u => SameParts(v)
  BY OnlyPartsGoOn DEF IInv
<1>2. PhasesHold'
  BY <1>1, PhasesStay DEF CInv
<1>3. EndsHold'
  <2> SUFFICES ASSUME NEW v \in Uids, v # u PROVE Ended(v)' /\ Decided(v)'
    BY DEF EndsHold
  <2>1. messages'[v].attempts = messages[v].attempts /\ messages'[v].state = messages[v].state
    BY DEF SameTokens
  <2> QED
    BY <1>1, <2>1, EndStays DEF IInv, CInv, EndsHold, RowsHold
<1>4. RunsHold'
  BY <1>1, RunsStay DEF CInv
<1> QED
  BY <1>2, <1>3, <1>4 DEF CInv

(* A message with a part to download is in no state that speaks of its end.   *)
LEMMA WaitingIsOpen ==
    ASSUME CInv, NEW u \in Uids, Discovered(u) # {},
           messages'[u].state = messages[u].state, messages'[u].attempts = messages[u].attempts
    PROVE  Ended(u)' /\ Decided(u)'
<1>1. Ended(u) /\ Decided(u)
  BY DEF CInv, EndsHold
<1>2. PICK k \in DOMAIN rows[u] : rows[u][k].state = "discovered"
  BY DEF Discovered
<1>3. messages[u].state # "completed"
  BY <1>1, <1>2 DEF Decided
<1> QED
  BY <1>1, <1>3 DEF Ended, Decided

(* The parts of a message that fails before they are downloaded.              *)
LEMMA UnimportedMoves ==
    ASSUME TypeOK, NEW u \in Uids, NEW error \in {"retryable", "final"},
           rows' = [rows EXCEPT ![u] = Unimported(u, error)]
    PROVE  /\ OnlyParts(u)
           /\ \A k \in DOMAIN rows[u] : rows'[u][k] = rows[u][k] \/ rows'[u][k].state = "failed"
<1>1. /\ rows'[u] = Unimported(u, error)
      /\ \A v \in Uids : v # u => rows'[v] = rows[v]
  BY DEF TypeOK
<1>2. DOMAIN rows'[u] = DOMAIN rows[u]
  BY <1>1 DEF Unimported
<1>3. ASSUME NEW k \in DOMAIN rows[u]
      PROVE  \/ rows'[u][k] = rows[u][k]
             \/ rows[u][k].state = "discovered" /\ rows'[u][k].state = "failed"
  <2>1. rows[u][k] \in Row
    BY RowType
  <2>2. [rows[u][k] EXCEPT !.state = "failed", !.error = error].state = "failed"
    BY <2>1 DEF Row
  <2>3. rows'[u][k] = IF rows[u][k].state = "discovered"
                      THEN [rows[u][k] EXCEPT !.state = "failed", !.error = error] ELSE rows[u][k]
    BY <1>1 DEF Unimported
  <2> QED
    BY <2>2, <2>3
<1> QED
  BY <1>1, <1>2, <1>3 DEF OnlyParts

(* While no import holds the row of u, nobody waits for its parts.            *)
LEMMA UnlockedWait ==
    ASSUME IInv, PhasesHold, NEW u \in Uids, ~Locked(u), \A v \in Uids : v # u => rows'[v] = rows[v]
    PROVE  \A w \in Workers : PartsWait(w)
BY OthersWait DEF Locked

LEMMA EndsStays ==
    ASSUME IInv, IInv', CInv, NEW w \in Workers, workers[w].pc \in {"ready", "claim"},
           NEW u \in Uids, Ends(w, u), UNCHANGED <<cases, operations, requests>>
    PROVE  CInv'
<1>1. OnlyParts(u) /\ RowsHold'
  BY UnimportedMoves, FailedParts DEF Ends, IInv, CInv
<1>2. OnlyMessage(u) /\ messages'[u].state = "failed"
  BY StateMoves DEF Ends, IInv, MessageStates, Terminal
<1>3. messages'[u].saved = messages[u].saved
  BY DEF Ends, IInv, TypeOK, Message
<1>4. SameTokens
  BY <1>2 DEF OnlyMessage, SameTokens
<1>5. Ended(u)' /\ Decided(u)'
  <2>1. messages'[u].attempts = messages[u].attempts /\ messages[u].attempts \in Nat
        /\ messages[u].attempts >= MaxAttempts
    BY <1>2, Messages DEF OnlyMessage, Ends, Exhausted, IInv
  <2> QED
    BY <1>2, <2>1, Bounds DEF Ended, Decided
<1>6. \A v \in Workers : WorkerGoesOn(v)
  <2>1. Unclaimed(w).permanent = FALSE /\ Unclaimed(w).pc # "manifest"
    BY NotPermanent, WorkerFields DEF Unclaimed, IdleWorker, IInv, Worker, CInv
  <2> QED
    BY <2>1, WorkerGoes DEF Ends, CInv
<1>7. \A v \in Workers : RequestGoesOn(v)
  <2>1. \A v \in Uids : v # u => rows'[v] = rows[v]
    BY <1>1 DEF OnlyParts
  <2> QED
    BY <2>1, UnlockedWait, RequestsRest DEF Ends, CInv
<1> QED
  BY <1>1, <1>2, <1>3, <1>4, <1>5, <1>6, <1>7, PartsKeep, CasesUntouched, SameRuns DEF OnlyMessage

LEMMA TakesStays ==
    ASSUME IInv, IInv', CInv, NEW w \in Workers, workers[w].pc \in {"ready", "claim"},
           NEW u \in Uids, Takes(w, u), UNCHANGED <<cases, operations, requests>>
    PROVE  CInv'
<1> DEFINE new == [messages[u] EXCEPT !.state = "importing", !.attempts = messages[u].attempts + 1,
                                      !.token = messages[u].attempts + 1, !.leased = TRUE,
                                      !.waiting = FALSE]
<1>1. /\ new.state = "importing" /\ new.token = messages[u].attempts + 1
      /\ new.saved = messages[u].saved
  BY Messages DEF IInv, Message
<1>2. messages' = [messages EXCEPT ![u] = new] /\ UNCHANGED rows
  BY DEF Takes
<1> HIDE DEF new
<1>3. messages'[u] = new /\ \A v \in Uids : v # u => messages'[v] = messages[v]
  BY <1>2 DEF IInv, TypeOK
<1>4. workers'[w] = Working(w, u) /\ \A v \in Workers : v # w => workers'[v] = workers[v]
  BY DEF Takes, IInv, TypeOK
<1>5. /\ Working(w, u).permanent = FALSE /\ Working(w, u).uid = u
      /\ Working(w, u).token = messages[u].attempts + 1
      /\ Working(w, u).pc = IF messages[u].saved THEN "parts" ELSE "manifest"
  BY NotPermanent, WorkerFields DEF Working, IInv, CInv, Worker
<1>6. RowsHold'
  BY <1>2, RowsStay, CasesUntouched DEF CInv
<1>7. RowsSaved'
  BY <1>1, <1>2, <1>3 DEF CInv, PhasesHold, RowsSaved
<1>8. EarlyIsUnsaved'
  <2> SUFFICES ASSUME NEW v \in Workers
               PROVE  /\ workers'[v].permanent => workers'[v].pc = "fail"
                      /\ Early(v)' /\ Current(workers[v].uid, WClaim(v))' => ~messages'[workers'[v].uid].saved
    BY DEF EarlyIsUnsaved
  <2>1. CASE v = w
    BY <1>1, <1>3, <1>4, <1>5, <2>1 DEF Early
  <2>2. CASE v # w
    <3>1. workers'[v] = workers[v]
      BY <1>4, <2>2
    <3>2. ASSUME Early(v), Current(workers[v].uid, WClaim(v))' PROVE ~messages'[workers'[v].uid].saved
      <4>1. /\ workers[v].uid \in Uids /\ workers[v].token <= messages[workers[v].uid].attempts
            /\ workers[v].token \in Nat
        BY <3>2, BusyFields, WorkerFields DEF Early, CInv, PhasesHold, EarlyIsUnsaved, IInv
      <4>2. messages'[workers[v].uid].token = workers[v].token
        BY <3>1, <3>2 DEF Current, WClaim
      <4>3. workers[v].uid # u
        BY <1>1, <1>3, <4>1, <4>2, Messages DEF IInv
      <4>4. messages'[workers[v].uid] = messages[workers[v].uid]
        BY <1>3, <4>1, <4>3
      <4> QED
        BY <3>1, <3>2, <4>2, <4>4 DEF CInv, PhasesHold, EarlyIsUnsaved, Current, WClaim
    <3> QED
      BY <3>1, <3>2 DEF CInv, PhasesHold, EarlyIsUnsaved, Early
  <2> QED
    BY <2>1, <2>2
<1>9. ImportsWait'
  BY <1>2 DEF CInv, PhasesHold, ImportsWait, Discovered
<1>10. RunsAreLast'
  <2> SUFFICES ASSUME NEW v \in Workers, requests[v].pc \in {"run", "complete"},
                      Current(requests[v].uid, RClaim(v))'
               PROVE  Discovered(requests[v].uid) = {}
    BY <1>2 DEF RunsAreLast, Discovered
  <2>1. /\ requests[v].uid \in Uids /\ requests[v].token <= messages[requests[v].uid].attempts
        /\ requests[v].token \in Nat
    BY AskingFields, RequestFields DEF IInv
  <2>2. messages'[requests[v].uid].token = requests[v].token
    BY DEF Current, RClaim
  <2>3. requests[v].uid # u
    BY <1>1, <1>3, <2>1, <2>2, Messages DEF IInv
  <2>4. messages'[requests[v].uid] = messages[requests[v].uid]
    BY <1>3, <2>1, <2>3
  <2> QED
    BY <2>2, <2>4 DEF CInv, PhasesHold, RunsAreLast, Current, RClaim
<1>11. EndsHold'
  <2> SUFFICES ASSUME NEW v \in Uids PROVE Ended(v)' /\ Decided(v)'
    BY DEF EndsHold
  <2>1. SameParts(v)
    BY <1>2 DEF SameParts
  <2>2. \/ messages'[v].state \notin {"failed", "partial", "completed"}
        \/ messages'[v] = messages[v]
    BY <1>1, <1>3
  <2> QED
    BY <2>1, <2>2, EndStays, CasesUntouched DEF IInv, CInv, EndsHold, RowsHold
<1>12. RunsHold'
  BY <1>2, RunsStay, SameRowsWait, SamePartsGoOn, SameRuns DEF CInv
<1> QED
  BY <1>6, <1>7, <1>8, <1>9, <1>10, <1>11, <1>12 DEF CInv, PhasesHold

LEMMA ClaimStays == ASSUME IInv, IInv', CInv, NEW w \in Workers, Claim(w) PROVE CInv'
<1>1. /\ workers[w].pc \in {"ready", "claim"} /\ UNCHANGED <<cases, operations, requests>>
      /\ \/ workers' = [workers EXCEPT ![w] = Unclaimed(w)] /\ UNCHANGED <<messages, rows>>
         \/ \E u \in Uids : Ends(w, u) \/ Takes(w, u)
  BY ClaimCases
<1>2. CASE workers' = [workers EXCEPT ![w] = Unclaimed(w)] /\ UNCHANGED <<messages, rows>>
  <2>1. Unclaimed(w).permanent = FALSE /\ Unclaimed(w).pc # "manifest"
    BY <1>1, NotPermanent, WorkerFields DEF Unclaimed, IdleWorker, IInv, Worker, CInv
  <2> QED
    BY <1>1, <1>2, <2>1, WorkerGoes, AloneStays DEF CInv
<1> QED
  BY <1>1, <1>2, EndsStays, TakesStays

-----------------------------------------------------------------------------
\* Failures, the manifest and a download that is refused

LEMMA FailStays == ASSUME IInv, IInv', CInv, NEW w \in Workers, Fail(w) PROVE CInv'
<1>0. PICK u \in Uids : u = workers[w].uid
  BY BusyFields DEF Fail, At
<1> DEFINE final == workers[w].permanent \/ Exhausted(u)
           state == IF final THEN "failed" ELSE "retry_wait"
<1>1. /\ UNCHANGED <<cases, operations, requests>> /\ workers[w].pc = "fail"
      /\ ~Locked(u) /\ ClaimsNext(w)
  BY <1>0 DEF Fail, processVars, At
<1>2. \A v \in Workers : WorkerGoesOn(v)
  BY <1>1, ClaimsNextGoesOn DEF CInv
<1>3. CASE UNCHANGED <<messages, rows>>
  BY <1>1, <1>2, <1>3, AloneStays
<1>4. CASE ~UNCHANGED <<messages, rows>>
  <2>1. /\ May(w)
        /\ messages' = [messages EXCEPT ![u] =
              [messages[u] EXCEPT !.state = state, !.waiting = TRUE, !.leased = FALSE]]
        /\ rows' = IF final THEN [rows EXCEPT ![u] = Unimported(u, "retryable")] ELSE rows
    BY <1>0, <1>4 DEF Fail, mailVars
  <2>2. Current(u, WClaim(w))
    BY <1>0, <2>1 DEF May, Leased, Current, WClaim
  <2>3. /\ OnlyMessage(u) /\ messages'[u].state = state
        /\ messages'[u].saved = messages[u].saved
    <3>1. state \in MessageStates
      BY DEF MessageStates, Terminal
    <3> HIDE DEF state
    <3>2. OnlyMessage(u) /\ messages'[u].state = state
      BY <2>1, <2>2, <3>1, FailedMoves DEF IInv
    <3>3. messages'[u].saved = messages[u].saved
      BY <2>1, <2>2 DEF IInv, TypeOK, Message
    <3> QED
      BY <3>2, <3>3
  <2>4. SameTokens
    BY <2>3 DEF OnlyMessage, SameTokens
  <2>5. CASE ~final
    <3>1. UNCHANGED rows
      BY <2>1, <2>5
    <3>2. QuietMessages
      <4>1. state = "retry_wait"
        BY <2>5
      <4> HIDE DEF state
      <4> QED
        BY <2>3, <4>1 DEF QuietMessages, OnlyMessage
    <3> QED
      BY <1>1, <1>2, <2>4, <3>1, <3>2, QuietKeeps, CasesUntouched, RequestsSame, SameRuns DEF CInv
  <2>6. CASE final
    <3>1. state = "failed" /\ rows' = [rows EXCEPT ![u] = Unimported(u, "retryable")]
      BY <2>1, <2>6
    <3>2. workers[w].permanent => rows[u] = <<>>
      BY <1>0, <2>2 DEF Early, CInv, PhasesHold, EarlyIsUnsaved, RowsSaved
    <3>3. Exhausted(u) => ~(messages[u].attempts < MaxAttempts)
      BY <2>2, Messages, Bounds DEF Exhausted, IInv
    <3>4. workers[w].permanent \/ Exhausted(u)
      BY <2>6
    <3> HIDE DEF state, final
    <3>5. OnlyParts(u) /\ RowsHold'
      BY <1>1, <2>2, <3>1, UnimportedMoves, FailedParts DEF IInv, CInv
    <3>6. Ended(u)' /\ Decided(u)'
      <4>1. messages'[u].attempts = messages[u].attempts
        BY <2>3 DEF OnlyMessage
      <4>2. rows[u] = <<>> => Discovered(u)' = {} /\ Imported(u)' = {}
        <5>1. DOMAIN <<>> = {}
          OBVIOUS
        <5> QED
          BY <3>5, <5>1 DEF OnlyParts, Discovered, Imported
      <4> QED
        BY <2>3, <3>1, <3>2, <3>3, <3>4, <4>1, <4>2 DEF Ended, Decided
    <3>7. \A v \in Workers : RequestGoesOn(v)
      <4>1. \A v \in Uids : v # u => rows'[v] = rows[v]
        BY <3>5 DEF OnlyParts
      <4> QED
        BY <1>1, <2>2, <4>1, UnlockedWait, RequestsRest DEF CInv
    <3> QED
      BY <1>1, <1>2, <2>2, <2>3, <2>4, <3>5, <3>6, <3>7, PartsKeep, CasesUntouched, SameRuns
      DEF OnlyMessage
  <2> QED
    BY <2>5, <2>6
<1> QED
  BY <1>3, <1>4

LEMMA RejectPartStays == ASSUME IInv, IInv', CInv, NEW w \in Workers, RejectPart(w) PROVE CInv'
<1>0. PICK u \in Uids : u = workers[w].uid
  BY BusyFields DEF RejectPart, At
<1>1. /\ UNCHANGED <<cases, operations, requests>> /\ workers[w].pc = "parts"
      /\ ~Locked(u) /\ Discovered(u) # {}
  BY <1>0 DEF RejectPart, processVars, At
<1>2. CASE ~May(w)
  BY <1>1, <1>2, GivesUpGoesOn, AloneStays DEF RejectPart, mailVars, CInv
<1>3. CASE May(w)
  <2>1. PICK k \in Discovered(u) : k = NextPart(u)
    BY <1>1, NextPartIs
  <2>2. UNCHANGED workers /\ messages' = [messages EXCEPT ![u].leased = TRUE]
    BY <1>0, <1>3, <2>1 DEF RejectPart
  <2>3. PICK error \in {"retryable", "final"} :
           rows' = [rows EXCEPT ![u][k].state = "failed", ![u][k].error = error]
    BY <1>0, <1>3, <2>1 DEF RejectPart
  <2>4. k \in DOMAIN rows[u] /\ rows[u][k].state = "discovered"
    BY <2>1 DEF Discovered
  <2>5. /\ OnlyParts(u)
        /\ \A j \in DOMAIN rows[u] : rows'[u][j] = rows[u][j] \/ rows'[u][j].state = "failed"
    <3> DEFINE new == [rows[u][k] EXCEPT !.state = "failed", !.error = error]
    <3>1. new.state = "failed"
      BY <2>1, <2>4, RowType DEF Row, IInv
    <3>2. rows \in [Uids -> Seq(Row)] /\ rows[u] \in Seq(Row)
      BY <2>1 DEF IInv, TypeOK
    <3>3. rows' = [rows EXCEPT ![u] = [rows[u] EXCEPT ![k] = new]]
      BY <2>1, <2>3, <2>4, <3>2
    <3> HIDE DEF new
    <3>4. rows'[u] = [rows[u] EXCEPT ![k] = new] /\ \A v \in Uids : v # u => rows'[v] = rows[v]
      BY <2>1, <3>2, <3>3
    <3> QED
      BY <2>4, <3>1, <3>4 DEF OnlyParts
  <2>6. /\ OnlyMessage(u) /\ messages'[u].state = messages[u].state
        /\ messages'[u].saved = messages[u].saved
    <3>1. messages'[u].saved = messages[u].saved
      BY <2>1, <2>2 DEF IInv, TypeOK, Message
    <3> QED
      BY <2>1, <2>2, <3>1, LeaseMoves DEF IInv
  <2>7. Ended(u)' /\ Decided(u)'
    BY <1>1, <2>1, <2>6, WaitingIsOpen DEF OnlyMessage
  <2>8. \A v \in Workers : RequestGoesOn(v)
    <3>1. \A v \in Uids : v # u => rows'[v] = rows[v]
      BY <2>5 DEF OnlyParts
    <3> QED
      BY <1>1, <2>1, <3>1, UnlockedWait, RequestsRest DEF CInv
  <2>9. SameTokens
    BY <2>6 DEF OnlyMessage, SameTokens
  <2>10. RowsHold'
    BY <1>1, <2>1, <2>5, FailedParts DEF CInv
  <2> QED
    BY <1>1, <2>1, <2>2, <2>5, <2>6, <2>7, <2>8, <2>9, <2>10, PartsKeep, CasesUntouched, SameRuns,
       WorkersRest DEF OnlyMessage, CInv
<1> QED
  BY <1>2, <1>3

LEMMA ManifestStays == ASSUME IInv, IInv', CInv, NEW w \in Workers, Manifest(w) PROVE CInv'
<1>0. PICK u \in Uids : u = workers[w].uid
  BY BusyFields DEF Manifest, At
<1> DEFINE state == IF Parts[u] = <<>> THEN "ignored" ELSE "importing"
<1>1. /\ UNCHANGED <<cases, operations, requests>> /\ workers[w].pc = "manifest"
      /\ ~Locked(u)
  BY <1>0 DEF Manifest, processVars, At
<1>2. CASE ~May(w)
  BY <1>1, <1>2, GivesUpGoesOn, AloneStays DEF Manifest, mailVars, CInv
<1>3. CASE May(w)
  <2>1. /\ u \in Uids /\ w \in Busy /\ Current(u, WClaim(w))
    BY <1>0, <1>1, <1>3, MayIsCurrent
  <2>2. /\ messages' = [messages EXCEPT ![u].saved = TRUE, ![u].leased = TRUE, ![u].state = state]
        /\ rows' = [rows EXCEPT ![u] = [k \in DOMAIN Parts[u] |-> NewRow]]
        /\ ClaimsNext(w) \/ Goes(w, "parts")
    BY <1>0, <1>3 DEF Manifest
  <2>3. rows[u] = <<>>
    BY <1>0, <1>1, <2>1 DEF Early, CInv, PhasesHold, EarlyIsUnsaved, RowsSaved
  <2>4. state \in {"ignored", "importing"}
    OBVIOUS
  <2>5. \A v \in Workers : WorkerGoesOn(v)
    BY <1>1, <2>2, ClaimsNextGoesOn, GoesGoesOn DEF CInv
  <2>6. OnlyWorker(w) /\ workers'[w].pc \in {"ready", "claim", "parts"}
    BY <2>2, ClaimsNextMoves, GoesMoves DEF IInv, WorkerPlaces
  <2>7. DOMAIN rows[u] = {} /\ Discovered(u) = {} /\ Imported(u) = {} /\ Completed(u) = {}
    BY <2>3 DEF Discovered, Imported, Completed
  <2> HIDE DEF state
  <2>8. /\ messages'[u].state = state /\ messages'[u].saved = TRUE
        /\ messages'[u].token = messages[u].token
        /\ \A v \in Uids : v # u => messages'[v] = messages[v]
    <3> DEFINE new == [messages[u] EXCEPT !.saved = TRUE, !.leased = TRUE, !.state = state]
    <3>1. new.state = state /\ new.saved = TRUE /\ new.token = messages[u].token
      BY Messages DEF IInv, Message
    <3>2. messages' = [messages EXCEPT ![u] = new]
      BY <2>2 DEF IInv, TypeOK
    <3> HIDE DEF new
    <3> QED
      BY <3>1, <3>2 DEF IInv, TypeOK
  <2>9. /\ \A v \in Uids : v # u => rows'[v] = rows[v]
        /\ \A k \in DOMAIN rows'[u] : rows'[u][k].state = "discovered"
    <3> DEFINE parts == [k \in DOMAIN Parts[u] |-> NewRow]
    <3>1. \A k \in DOMAIN parts : parts[k].state = "discovered"
      BY DEF NewRow
    <3>2. rows' = [rows EXCEPT ![u] = parts]
      BY <2>2
    <3> HIDE DEF parts
    <3> QED
      BY <3>1, <3>2 DEF IInv, TypeOK
  <2>10. RowsHold'
    <3>1. \A v \in Uids : \A k \in DOMAIN rows'[v] :
             rows'[v][k].state \in {"imported", "completed", "duplicate"} => v # u /\ rows'[v] = rows[v]
      BY <2>9
    <3>2. RowsFounded'
      BY <1>1, <3>1 DEF CInv, RowsHold, RowsFounded
    <3>3. DuplicatesAreLinked'
      BY <3>1 DEF CInv, RowsHold, DuplicatesAreLinked
    <3> QED
      BY <3>2, <3>3 DEF RowsHold
  <2>11. RowsSaved'
    BY <2>8, <2>9 DEF CInv, PhasesHold, RowsSaved
  <2>12. EarlyIsUnsaved'
    <3> SUFFICES ASSUME NEW v \in Workers
                 PROVE  /\ workers'[v].permanent => workers'[v].pc = "fail"
                        /\ Early(v)' /\ Current(workers[v].uid, WClaim(v))' => ~messages'[workers'[v].uid].saved
      BY DEF EarlyIsUnsaved
    <3>1. WorkerGoesOn(v)
      BY <2>5
    <3>2. ASSUME Early(v)', Current(workers[v].uid, WClaim(v))' PROVE ~messages'[workers'[v].uid].saved
      <4>1. Early(v) /\ WClaim(v)' = WClaim(v) /\ workers'[v].uid = workers[v].uid
        BY <3>1, <3>2 DEF WorkerGoesOn, WClaim
      <4>2. v \in Busy /\ workers[v].uid \in Uids
        BY <4>1, BusyFields DEF Early, CInv, PhasesHold, EarlyIsUnsaved
      <4>3. messages'[workers[v].uid].token = messages[workers[v].uid].token
        BY <2>8, <4>2
      <4>4. Current(workers[v].uid, WClaim(v))
        BY <3>2, <4>1, <4>3 DEF Current
      <4>5. v # w
        BY <2>6, <3>1, <3>2 DEF WorkerGoesOn, Early
      <4>6. workers[v].uid # u
        BY <2>1, <4>2, <4>4, <4>5 DEF Current, IInv, Holders, OneHolder
      <4>7. messages'[workers[v].uid] = messages[workers[v].uid]
        BY <2>8, <4>2, <4>6
      <4> QED
        BY <4>1, <4>4, <4>7 DEF CInv, PhasesHold, EarlyIsUnsaved
    <3> QED
      BY <3>1, <3>2 DEF WorkerGoesOn
  <2>13. ImportsWait'
    <3>1. \A v \in Workers : PartsWait(v)
      BY <1>1, <2>1, <2>9, UnlockedWait DEF CInv
    <3> QED
      BY <1>1, <3>1 DEF ImportsWait, PartsWait, Discovered
  <2>14. RunsAreLast'
    <3> SUFFICES ASSUME NEW v \in Workers, requests[v].pc \in {"run", "complete"},
                        Current(requests[v].uid, RClaim(v))'
                 PROVE  Discovered(requests[v].uid)' = {}
      BY <1>1 DEF RunsAreLast
    <3>1. requests[v].uid \in Uids /\ v \in Asking
      BY AskingFields
    <3>2. messages'[requests[v].uid].token = messages[requests[v].uid].token
      BY <2>8, <3>1
    <3>3. Current(requests[v].uid, RClaim(v))
      BY <1>1, <3>2 DEF Current, RClaim
    <3>4. requests[v].uid # u
      <4> SUFFICES ASSUME requests[v].uid = u PROVE FALSE
        OBVIOUS
      <4>1. WClaim(w) = RClaim(v)
        BY <2>1, <3>3 DEF Current
      <4> QED
        BY <1>1, <2>1, <3>1, <4>1 DEF IInv, Holders, OneHolder
    <3>5. rows'[requests[v].uid] = rows[requests[v].uid]
      BY <2>9, <3>1, <3>4
    <3> QED
      BY <1>1, <3>3, <3>5 DEF CInv, PhasesHold, RunsAreLast, Discovered
  <2>15. EndsHold'
    <3> SUFFICES ASSUME NEW v \in Uids PROVE Ended(v)' /\ Decided(v)'
      BY DEF EndsHold
    <3>1. CASE v = u
      BY <2>4, <2>8, <3>1 DEF Ended, Decided
    <3>2. CASE v # u
      <4>1. SameParts(v) /\ messages'[v] = messages[v]
        BY <2>8, <2>9, <3>2 DEF SameParts
      <4> QED
        BY <1>1, <4>1, EndStays, CasesUntouched DEF IInv, CInv, EndsHold, RowsHold
    <3> QED
      BY <3>1, <3>2
  <2>16. RunsHold'
    <3>1. ASSUME NEW v \in Uids PROVE PartsGoOn(v)
      <4>1. CASE v = u
        BY <2>7, <4>1 DEF PartsGoOn
      <4>2. CASE v # u
        <5>1. SameParts(v)
          BY <2>9, <4>2 DEF SameParts
        <5> QED
          BY <5>1, SamePartsGoOn
      <4> QED
        BY <4>1, <4>2
    <3> QED
      BY <1>1, <3>1, RunsStay, SameRuns DEF CInv
  <2> QED
    BY <2>10, <2>11, <2>12, <2>13, <2>14, <2>15, <2>16 DEF CInv, PhasesHold
<1> QED
  BY <1>2, <1>3

-----------------------------------------------------------------------------
\* A retry

LEMMA RetryStays ==
    ASSUME IInv, IInv', CInv, NEW u \in Uids, NEW k \in DOMAIN rows[u], Retry(u, k) PROVE CInv'
<1> DEFINE new == [messages[u] EXCEPT !.state = "retry_wait", !.waiting = FALSE, !.token = 0,
                                      !.leased = FALSE]
<1>1. UNCHANGED <<cases, operations, workers, requests>> /\ ~Locked(u)
  BY DEF Retry, processVars
<1>2. new.state = "retry_wait" /\ new.token = 0 /\ new.saved = messages[u].saved
  BY Messages DEF IInv, Message
<1>3. messages' = [messages EXCEPT ![u] = new]
  BY DEF Retry
<1> HIDE DEF new
<1>4. messages'[u] = new /\ \A v \in Uids : v # u => messages'[v] = messages[v]
  BY <1>3 DEF IInv, TypeOK
<1>5. /\ messages[u].state \in {"failed", "partial"} /\ messages[u].attempts < MaxAttempts
      /\ rows[u][k].state = "failed" /\ rows' = [rows EXCEPT ![u] = [rows[u] EXCEPT ![k] = NewRow]]
  BY DEF Retry, Retryable
<1>6. /\ \A v \in Uids : v # u => rows'[v] = rows[v]
      /\ DOMAIN rows'[u] = DOMAIN rows[u]
      /\ \A j \in DOMAIN rows[u] : \/ rows'[u][j] = rows[u][j]
                                   \/ j = k /\ rows'[u][j].state = "discovered"
  <2>1. /\ rows'[u] = [rows[u] EXCEPT ![k] = NewRow]
        /\ \A v \in Uids : v # u => rows'[v] = rows[v]
    BY <1>5 DEF IInv, TypeOK
  <2> QED
    BY <2>1 DEF NewRow
<1>7. Imported(u) = {}
  BY <1>5 DEF CInv, EndsHold, Ended
<1>8. RowsHold'
  <2>1. \A v \in Uids : \A j \in DOMAIN rows'[v] :
           rows'[v][j].state \in {"imported", "completed", "duplicate"}
           => j \in DOMAIN rows[v] /\ rows'[v][j] = rows[v][j]
    BY <1>6
  <2>2. RowsFounded'
    BY <1>1, <2>1 DEF CInv, RowsHold, RowsFounded
  <2>3. DuplicatesAreLinked'
    BY <2>1 DEF CInv, RowsHold, DuplicatesAreLinked
  <2> QED
    BY <2>2, <2>3 DEF RowsHold
<1>9. RowsSaved'
  <2>1. rows[u] # <<>>
    <3>1. DOMAIN <<>> = {}
      OBVIOUS
    <3> QED
      BY <3>1
  <2> QED
    BY <1>2, <1>4, <1>6, <2>1 DEF CInv, PhasesHold, RowsSaved
<1>10. EarlyIsUnsaved'
  <2> SUFFICES ASSUME NEW v \in Workers, Early(v), Current(workers[v].uid, WClaim(v))'
               PROVE  ~messages'[workers[v].uid].saved
    BY <1>1 DEF EarlyIsUnsaved, CInv, PhasesHold, Early
  <2>1. workers[v].uid \in Uids /\ workers[v].token # 0
    BY BusyFields DEF Early, CInv, PhasesHold, EarlyIsUnsaved
  <2>2. messages'[workers[v].uid].token = workers[v].token
    BY <1>1 DEF Current, WClaim
  <2>3. messages'[workers[v].uid] = messages[workers[v].uid]
    BY <1>2, <1>4, <2>1, <2>2
  <2> QED
    BY <2>2, <2>3 DEF CInv, PhasesHold, EarlyIsUnsaved, Current, WClaim
<1>11. ImportsWait'
  <2>1. \A v \in Workers : PartsWait(v)
    BY <1>1, <1>6, UnlockedWait DEF CInv
  <2> QED
    BY <1>1, <2>1 DEF ImportsWait, PartsWait, Discovered
<1>12. RunsAreLast'
  <2> SUFFICES ASSUME NEW v \in Workers, requests[v].pc \in {"run", "complete"},
                      Current(requests[v].uid, RClaim(v))'
               PROVE  Discovered(requests[v].uid)' = {}
    BY <1>1 DEF RunsAreLast
  <2>1. requests[v].uid \in Uids /\ requests[v].token # 0
    BY AskingFields
  <2>2. messages'[requests[v].uid].token = requests[v].token
    BY <1>1 DEF Current, RClaim
  <2>3. requests[v].uid # u
    BY <1>2, <1>4, <2>1, <2>2
  <2>4. /\ messages'[requests[v].uid] = messages[requests[v].uid]
        /\ rows'[requests[v].uid] = rows[requests[v].uid]
    BY <1>4, <1>6, <2>1, <2>3
  <2> QED
    BY <1>1, <2>2, <2>4 DEF CInv, PhasesHold, RunsAreLast, Current, RClaim, Discovered
<1>13. EndsHold'
  <2> SUFFICES ASSUME NEW v \in Uids PROVE Ended(v)' /\ Decided(v)'
    BY DEF EndsHold
  <2>1. CASE v = u
    BY <1>2, <1>4, <2>1 DEF Ended, Decided
  <2>2. CASE v # u
    <3>1. SameParts(v) /\ messages'[v] = messages[v]
      BY <1>4, <1>6, <2>2 DEF SameParts
    <3> QED
      BY <1>1, <3>1, EndStays, CasesUntouched DEF IInv, CInv, EndsHold, RowsHold
  <2> QED
    BY <2>1, <2>2
<1>14. RunsHold'
  <2>1. ASSUME NEW v \in Uids PROVE PartsGoOn(v)
    <3>1. CASE v = u
      <4>1. \A j \in DOMAIN rows[u] : rows[u][j].state \in {"imported", "completed"}
                                      => rows'[u][j] = rows[u][j]
        BY <1>5, <1>6
      <4> QED
        BY <1>6, <1>7, <3>1, <4>1 DEF PartsGoOn
    <3>2. CASE v # u
      <4>1. SameParts(v)
        BY <1>6, <3>2 DEF SameParts
      <4> QED
        BY <4>1, SamePartsGoOn
    <3> QED
      BY <3>1, <3>2
  <2> QED
    BY <1>1, <2>1, RunsStay, SameRuns DEF CInv
<1> QED
  BY <1>8, <1>9, <1>10, <1>11, <1>12, <1>13, <1>14 DEF CInv, PhasesHold

-----------------------------------------------------------------------------
\* A finish

(* What an outcome says of the parts it is computed from.                     *)
LEMMA OutcomeCompleted ==
    ASSUME NEW parts, Outcome(parts) = "completed"
    PROVE  /\ parts # <<>>
           /\ \A k \in DOMAIN parts : parts[k].state # "failed"
                                      /\ parts[k].error # "manual_pending_conflict"
BY DEF Outcome

LEMMA ClosedIs ==
    ASSUME TypeOK, NEW u \in Uids, NEW parts, messages' = Closed(u, parts)
    PROVE  /\ messages'[u].state = Outcome(parts) /\ messages'[u].saved = messages[u].saved
           /\ \A v \in Uids : v # u => messages'[v] = messages[v]
<1> DEFINE state == Outcome(parts)
           new == [messages[u] EXCEPT !.state = state, !.leased = FALSE]
<1>1. new.state = state /\ new.saved = messages[u].saved
  BY Messages DEF Message
<1>2. messages' = [messages EXCEPT ![u] = new]
  BY DEF Closed
<1> HIDE DEF new, state
<1>3. messages'[u] = new /\ \A v \in Uids : v # u => messages'[v] = messages[v]
  BY <1>2 DEF TypeOK
<1> QED
  BY <1>1, <1>3 DEF state

(* A message whose parts are all behind it ends as they say.                  *)
LEMMA ClosedEnds ==
    ASSUME TypeOK', RowsFounded', NEW u \in Uids, messages'[u].state = Outcome(rows'[u]),
           Discovered(u)' = {}, Imported(u)' = {}
    PROVE  Ended(u)' /\ Decided(u)'
<1>1. Decided(u)'
  <2> SUFFICES ASSUME messages'[u].state = "completed"
               PROVE  /\ rows'[u] # <<>>
                      /\ \A k \in DOMAIN rows'[u] :
                            \/ rows'[u][k].state = "completed" /\ cases'[rows'[u][k].case].decisions > 0
                            \/ rows'[u][k].state = "duplicate" /\ rows'[u][k].error = "none"
    BY DEF Decided
  <2> DEFINE parts == rows'[u]
  <2>1. parts # <<>> /\ \A k \in DOMAIN parts : parts[k].state # "failed"
                                                /\ parts[k].error # "manual_pending_conflict"
    <3>1. Outcome(parts) = "completed"
      OBVIOUS
    <3> HIDE DEF parts
    <3> QED
      BY <3>1, OutcomeCompleted
  <2>2. ASSUME NEW k \in DOMAIN rows'[u]
        PROVE  \/ rows'[u][k].state = "completed" /\ cases'[rows'[u][k].case].decisions > 0
               \/ rows'[u][k].state = "duplicate" /\ rows'[u][k].error = "none"
    <3>1. rows'[u][k].state \in RowStates
      <4>1. rows'[u] \in Seq(Row)
        BY DEF TypeOK
      <4>2. rows'[u][k] \in Row
        BY <4>1, <2>2
      <4> QED
        BY <4>2 DEF Row
    <3>2. rows'[u][k].state \in {"completed", "duplicate"}
      BY <2>1, <3>1 DEF RowStates, Discovered, Imported
    <3> QED
      BY <2>1, <3>2 DEF RowsFounded
  <2> QED
    BY <2>1, <2>2
<1> QED
  BY <1>1 DEF Ended

(* The run a finish asks for repeats what is known of the runs of its key.    *)
LEMMA NewRun ==
    ASSUME IInv, RunsHold, NEW u \in Uids, Discovered(u) = {}, Imported(u) # {},
           UNCHANGED rows, NEW op, op.key = RunKey(u), op.selection = CasesOf(u, Imported(u)),
           Runs' \subseteq Runs \union {op}
    PROVE  RunsHold'
<1>1. /\ op.key.uid = u
      /\ op.key.parts = IF Completed(u) # {} THEN Imported(u) ELSE {}
  BY DEF RunKey, Completed
<1>2. ASSUME NEW a \in Runs, a.key = op.key PROVE a.selection = op.selection
  <2>1. RunIsKnown(a)
    BY DEF RunsHold, RunsAreKnown
  <2>2. CASE Completed(u) = {}
    BY <1>1, <1>2, <2>1, <2>2 DEF RunIsKnown
  <2>3. CASE Completed(u) # {}
    BY <1>1, <1>2, <2>1, <2>3 DEF RunIsKnown
  <2> QED
    BY <2>2, <2>3
<1>3. RunIsKnown(op)
  BY <1>1 DEF RunIsKnown
<1>4. RunsAreKnown'
  <2> SUFFICES ASSUME NEW a \in Runs' PROVE RunIsKnown(a)'
    BY DEF RunsAreKnown
  <2>1. RunIsKnown(a) /\ a.key.uid \in Uids
    BY <1>1, <1>3, RunKeys DEF RunsHold, RunsAreKnown
  <2> QED
    BY <2>1 DEF RunIsKnown, Completed, Discovered, Imported, CasesOf
<1>5. OneSelection'
  BY <1>2 DEF OneSelection, RunsHold
<1> QED
  BY <1>4, <1>5 DEF RunsHold

LEMMA FinishStays == ASSUME IInv, IInv', CInv, NEW w \in Workers, Finish(w) PROVE CInv'
<1>0. PICK u \in Uids : u = workers[w].uid
  BY BusyFields DEF Finish, At
<1>1. /\ UNCHANGED <<rows, cases, operations>> /\ workers[w].pc = "parts"
      /\ Discovered(u) = {} /\ PhasesHold
  BY <1>0 DEF Finish, processVars, At, CInv
<1>2. CASE GivesUp(w) /\ UNCHANGED <<messages, requests>>
  BY <1>1, <1>2, GivesUpGoesOn, AloneStays
<1>3. CASE ClaimsNext(w) /\ UNCHANGED <<messages, requests>>
  BY <1>1, <1>3, ClaimsNextGoesOn, AloneStays
<1>4. CASE Imported(u) = {} /\ messages' = Closed(u, rows[u]) /\ ClaimsNext(w) /\ UNCHANGED requests
  <2>1. /\ messages'[u].state = Outcome(rows[u]) /\ messages'[u].saved = messages[u].saved
        /\ \A v \in Uids : v # u => messages'[v] = messages[v]
    BY <1>4, ClosedIs DEF IInv
  <2>2. SameTokens
    BY <1>4, ClosedMoves DEF IInv, OnlyMessage, SameTokens
  <2>3. \A v \in Uids : SameParts(v) /\ PartsGoOn(v) /\ Discovered(v)' = Discovered(v)
                        /\ Imported(v)' = Imported(v)
    BY <1>1, SameRowsWait, SamePartsGoOn
  <2>4. RowsHold'
    BY <1>1, RowsStay, CasesUntouched DEF CInv
  <2>5. PhasesHold'
    BY <1>1, <1>4, <2>1, <2>2, <2>3, PhasesStay, ClaimsNextGoesOn, RequestsSame
  <2>6. EndsHold'
    <3> SUFFICES ASSUME NEW v \in Uids PROVE Ended(v)' /\ Decided(v)'
      BY DEF EndsHold
    <3>1. CASE v = u
      BY <1>1, <1>4, <2>1, <2>3, <2>4, <3>1, ClosedEnds DEF IInv, RowsHold
    <3>2. CASE v # u
      <4>1. SameParts(v) /\ messages'[v] = messages[v]
        BY <2>1, <2>3, <3>2
      <4> QED
        BY <1>1, <4>1, EndStays, CasesUntouched DEF IInv, CInv, EndsHold, RowsHold
    <3> QED
      BY <3>1, <3>2
  <2>7. RunsHold'
    BY <1>1, <1>4, <2>3, RunsStay, SameRuns DEF CInv
  <2> QED
    BY <2>4, <2>5, <2>6, <2>7 DEF CInv
<1>5. CASE /\ Imported(u) # {}
           /\ messages' = [messages EXCEPT ![u].state = "evaluating", ![u].leased = TRUE]
           /\ requests' = [requests EXCEPT ![w] =
                 [NoRequest EXCEPT !.pc = "run", !.uid = u, !.token = workers[w].token,
                                   !.key = RunKey(u), !.selection = {rows[u][k].case : k \in Imported(u)}]]
           /\ Goes(w, "await")
  <2> DEFINE key == RunKey(u)
             selection == {rows[u][k].case : k \in Imported(u)}
             new == [NoRequest EXCEPT !.pc = "run", !.uid = u, !.token = workers[w].token,
                                      !.key = key, !.selection = selection]
  <2>1. requests' = [requests EXCEPT ![w] = new]
    BY <1>5
  <2>2. selection = CasesOf(u, Imported(u))
    BY DEF CasesOf
  <2> HIDE DEF key, selection
  <2>3. new.pc = "run" /\ new.uid = u /\ new.key = key /\ new.selection = selection
    BY IdleType DEF Request
  <2> HIDE DEF new
  <2>4. requests'[w] = new /\ OnlyRequest(w)
    BY <2>1 DEF IInv, TypeOK, OnlyRequest
  <2>5. /\ OnlyMessage(u) /\ messages'[u].state = "evaluating"
        /\ messages'[u].saved = messages[u].saved
    <3>1. messages' = [messages EXCEPT ![u] =
              [messages[u] EXCEPT !.state = "evaluating", !.leased = TRUE]]
      BY <1>5 DEF IInv, TypeOK
    <3>2. OnlyMessage(u) /\ messages'[u].state = "evaluating"
      BY <3>1, StateLeaseMoves DEF IInv, MessageStates
    <3>3. messages'[u].saved = messages[u].saved
      BY <1>5 DEF IInv, TypeOK, Message
    <3> QED
      BY <3>2, <3>3
  <2>6. SameTokens /\ QuietMessages
    BY <2>5 DEF OnlyMessage, SameTokens, QuietMessages
  <2>7. \A v \in Workers : WorkerGoesOn(v)
    BY <1>1, <1>5, GoesGoesOn
  <2>8. \A v \in Workers : RequestGoesOn(v)
    <3>1. Discovered(u)' = {}
      BY <1>1 DEF Discovered
    <3>2. RequestGoesOn(w)
      BY <2>3, <2>4, <3>1 DEF RequestGoesOn, Discovered
    <3> QED
      BY <1>1, <2>4, <3>2, SameRowsWait, RequestsGoOn
  <2>9. RunsHold'
    <3> DEFINE op == [key |-> key, selection |-> selection]
    <3>1. Runs' \subseteq Runs \union {op}
      <4>1. operations' \subseteq Runs
        BY <1>1 DEF Runs
      <4>2. ASSUME NEW v \in Workers, requests'[v].pc = "run" PROVE RunOf(v)' \in Runs \union {op}
        <5>1. CASE v = w
          BY <2>3, <2>4, <5>1 DEF RunOf
        <5>2. CASE v # w
          <6>1. requests'[v] = requests[v]
            BY <2>4, <5>2 DEF OnlyRequest
          <6> QED
            BY <4>2, <6>1 DEF Runs, RunOf
        <5> QED
          BY <5>1, <5>2
      <4> QED
        BY <4>1, <4>2 DEF Runs
    <3>2. op.key = RunKey(u) /\ op.selection = CasesOf(u, Imported(u))
      BY <2>2 DEF key
    <3> HIDE DEF op
    <3> QED
      BY <1>1, <1>5, <3>1, <3>2, NewRun DEF CInv
  <2> QED
    BY <1>1, <2>6, <2>7, <2>8, <2>9, QuietRuns, CasesUntouched
<1> QED
  BY <1>0, <1>2, <1>3, <1>4, <1>5 DEF Finish

-----------------------------------------------------------------------------
\* An import

(* What an import writes: the row of one part, and a case if it is the first  *)
(* of its content.                                                            *)
AttachedRow(u, k) ==
    /\ CasesStay /\ DOMAIN rows'[u] = DOMAIN rows[u]
    /\ \A v \in Uids : v # u => rows'[v] = rows[v]
    /\ \A j \in DOMAIN rows[u] : j # k => rows'[u][j] = rows[u][j]
    /\ \/ /\ rows'[u][k].state = "imported" /\ rows'[u][k].case \in DOMAIN cases'
       \/ /\ UNCHANGED cases /\ rows'[u][k].case \in DOMAIN cases
          /\ rows'[u][k].state = "duplicate"
          /\ rows'[u][k].decision = cases[rows'[u][k].case].decisions
          /\ rows'[u][k].error \in {"none", "manual_pending_conflict"}

LEMMA AttachedPart ==
    ASSUME IInv, CInv, NEW w \in Workers, Attach(w), NEW u \in Uids, u = requests[w].uid,
           NEW k \in Discovered(u), k = requests[w].part
    PROVE  AttachedRow(u, k)
<1> DEFINE f == requests[w].content
           n == CaseOf(f)
<1>1. k \in DOMAIN rows[u] /\ rows \in [Uids -> Seq(Row)] /\ rows[u] \in Seq(Row)
  BY DEF Discovered, IInv, TypeOK
<1>2. ASSUME NEW row, rows' = [rows EXCEPT ![u][k] = row]
      PROVE  /\ rows'[u][k] = row /\ DOMAIN rows'[u] = DOMAIN rows[u]
             /\ \A v \in Uids : v # u => rows'[v] = rows[v]
             /\ \A j \in DOMAIN rows[u] : j # k => rows'[u][j] = rows[u][j]
  <2>1. rows' = [rows EXCEPT ![u] = [rows[u] EXCEPT ![k] = row]]
    BY <1>1, <1>2
  <2>2. rows'[u] = [rows[u] EXCEPT ![k] = row] /\ \A v \in Uids : v # u => rows'[v] = rows[v]
    BY <1>1, <2>1
  <2> QED
    BY <1>1, <2>2
<1>3. CASE n # 0
  <2>1. n \in DOMAIN cases
    BY <1>3, CaseOfContent DEF IInv, TypeOK
  <2>2. rows' = [rows EXCEPT ![u][k] = DuplicateOf(n)] /\ UNCHANGED cases
    BY <1>3 DEF Attach, SeenNow
  <2> HIDE DEF n
  <2>3. /\ DuplicateOf(n).state = "duplicate" /\ DuplicateOf(n).case = n
        /\ DuplicateOf(n).decision = cases[n].decisions
        /\ DuplicateOf(n).error \in {"none", "manual_pending_conflict"}
    BY DEF DuplicateOf
  <2> QED
    BY <1>2, <2>1, <2>2, <2>3, CasesUntouched DEF AttachedRow
<1>4. CASE n = 0
  <2> DEFINE row == [NewRow EXCEPT !.state = "imported", !.case = Len(cases) + 1]
  <2>1. rows' = [rows EXCEPT ![u][k] = row]
    BY <1>4 DEF Attach, SeenNow
  <2>2. PICK new : cases' = Append(cases, new)
    BY <1>4 DEF Attach, SeenNow
  <2>3. row.state = "imported" /\ row.case = Len(cases) + 1
    BY DEF NewRow
  <2> HIDE DEF row
  <2>4. /\ cases \in Seq(Case) /\ Len(cases) \in Nat /\ DOMAIN cases = 1..Len(cases)
        /\ \A m \in DOMAIN cases : cases[m].decisions \in Nat
    BY Cases DEF IInv
  <2>5. DOMAIN cases' = 1..Len(cases) + 1 /\ \A m \in DOMAIN cases : cases'[m] = cases[m]
    BY <2>2, <2>4
  <2>6. CasesStay /\ Len(cases) + 1 \in DOMAIN cases'
    BY <2>4, <2>5 DEF CasesStay
  <2> QED
    BY <1>2, <2>1, <2>3, <2>6 DEF AttachedRow
<1> QED
  BY <1>3, <1>4

LEMMA AttachStays == ASSUME IInv, IInv', CInv, NEW w \in Workers, Attach(w) PROVE CInv'
<1>1. /\ UNCHANGED operations /\ requests[w].pc = "attach"
      /\ Answers(w, "parts") /\ messages' = [messages EXCEPT ![requests[w].uid].leased = TRUE]
  BY DEF Attach
<1>2. PICK u \in Uids : u = requests[w].uid /\ w \in Asking /\ Current(u, RClaim(w))
  BY <1>1, AskingFields DEF IInv, ImportsHold
<1>3. PICK k \in Discovered(u) : k = requests[w].part
  BY <1>1, <1>2 DEF CInv, PhasesHold, ImportsWait
<1>4. k \in DOMAIN rows[u] /\ rows[u][k].state = "discovered"
  BY <1>3 DEF Discovered
<1>5. /\ CasesStay /\ DOMAIN rows'[u] = DOMAIN rows[u]
      /\ \A v \in Uids : v # u => rows'[v] = rows[v]
      /\ \A j \in DOMAIN rows[u] : j # k => rows'[u][j] = rows[u][j]
      /\ \/ /\ rows'[u][k].state = "imported" /\ rows'[u][k].case \in DOMAIN cases'
         \/ /\ UNCHANGED cases /\ rows'[u][k].case \in DOMAIN cases
            /\ rows'[u][k].state = "duplicate"
            /\ rows'[u][k].decision = cases[rows'[u][k].case].decisions
            /\ rows'[u][k].error \in {"none", "manual_pending_conflict"}
  <2>1. AttachedRow(u, k)
    BY <1>2, <1>3, AttachedPart
  <2> QED
    BY <2>1 DEF AttachedRow
<1>6. OnlyParts(u)
  BY <1>4, <1>5 DEF OnlyParts
<1>7. RowsHold'
  <2>1. \A v \in Uids : \A j \in DOMAIN rows'[v] :
           \/ j \in DOMAIN rows[v] /\ rows'[v][j] = rows[v][j]
           \/ v = u /\ j = k
    BY <1>5
  <2>2. RowsFounded'
    <3> SUFFICES ASSUME NEW v \in Uids, NEW j \in DOMAIN rows'[v]
                 PROVE  /\ rows'[v][j].state \in {"imported", "completed"} => rows'[v][j].case \in DOMAIN cases'
                        /\ rows'[v][j].state = "completed" => cases'[rows'[v][j].case].decisions > 0
                        /\ rows'[v][j].state = "duplicate" =>
                              rows'[v][j].error \in {"none", "manual_pending_conflict"}
      BY DEF RowsFounded
    <3>1. CASE j \in DOMAIN rows[v] /\ rows'[v][j] = rows[v][j]
      BY <1>5, <3>1 DEF CInv, RowsHold, RowsFounded, CasesStay
    <3>2. CASE v = u /\ j = k
      BY <1>5, <3>2
    <3> QED
      BY <2>1, <3>1, <3>2
  <2>3. DuplicatesAreLinked'
    <3> SUFFICES ASSUME NEW v \in Uids, NEW x \in Uids, NEW j \in DOMAIN rows'[v], NEW i \in DOMAIN rows'[x],
                        rows'[v][j].state = "completed", rows'[x][i].state = "duplicate",
                        rows'[x][i].case = rows'[v][j].case
                 PROVE  rows'[x][i].decision # 0
      BY DEF DuplicatesAreLinked
    <3>1. j \in DOMAIN rows[v] /\ rows'[v][j] = rows[v][j]
      BY <1>5, <2>1
    <3>2. CASE i \in DOMAIN rows[x] /\ rows'[x][i] = rows[x][i]
      BY <3>1, <3>2 DEF CInv, RowsHold, DuplicatesAreLinked
    <3>3. CASE x = u /\ i = k
      <4>1. cases[rows[v][j].case].decisions > 0
        BY <3>1 DEF CInv, RowsHold, RowsFounded
      <4> QED
        BY <1>5, <3>1, <3>3, <4>1
    <3> QED
      BY <2>1, <3>2, <3>3
  <2> QED
    BY <2>2, <2>3 DEF RowsHold
<1>8. /\ OnlyMessage(u) /\ messages'[u].state = messages[u].state
      /\ messages'[u].saved = messages[u].saved
  <2>1. messages'[u].saved = messages[u].saved
    BY <1>1, <1>2 DEF IInv, TypeOK, Message
  <2> QED
    BY <1>1, <1>2, <2>1, LeaseMoves DEF IInv
<1>9. SameTokens
  BY <1>8 DEF OnlyMessage, SameTokens
<1>10. Ended(u)' /\ Decided(u)'
  BY <1>3, <1>8, WaitingIsOpen DEF OnlyMessage
<1>11. OnlyRequest(w) /\ requests'[w].pc = "none"
  BY <1>1, AnswersMoves DEF IInv
<1>12. \A v \in Workers : RequestGoesOn(v)
  <2>1. ASSUME NEW v \in Workers, v # w PROVE PartsWait(v)
    <3>1. requests[v].pc = "attach" => requests[v].uid # u
      <4> SUFFICES ASSUME requests[v].pc = "attach", requests[v].uid = u PROVE FALSE
        OBVIOUS
      <4>1. v \in Asking /\ Current(u, RClaim(v))
        BY AskingFields DEF IInv, ImportsHold
      <4> QED
        BY <1>2, <2>1, <4>1 DEF Current, IInv, Holders, OneHolder
    <3> QED
      BY <1>5, <3>1, OthersWait DEF CInv
  <2> QED
    BY <1>11, <2>1, RequestsGoOn DEF RequestGoesOn
<1>13. \A v \in Workers : WorkerGoesOn(v)
  BY <1>1, AnswersGoesOn DEF CInv
<1>14. Runs' \subseteq Runs
  BY <1>1, <1>11, RunsEnd
<1> QED
  BY <1>5, <1>6, <1>7, <1>8, <1>9, <1>10, <1>12, <1>13, <1>14, PartsKeep DEF OnlyMessage

-----------------------------------------------------------------------------
\* A completion

(* What a completion does to every row: the cases of its message are complete *)
(* and their duplicates are linked.                                           *)
LEMMA LinkedRows ==
    ASSUME TypeOK, NEW u \in Uids, rows' = LinkOwned(u), NEW v \in Uids
    PROVE  /\ DOMAIN rows'[v] = DOMAIN rows[v]
           /\ \A k \in DOMAIN rows[v] :
                 /\ rows'[v][k].case = rows[v][k].case /\ rows'[v][k].error = rows[v][k].error
                 /\ rows'[v][k].state = IF v = u /\ rows[v][k].state = "imported"
                                        THEN "completed" ELSE rows[v][k].state
                 /\ rows[v][k].state = "duplicate"
                    /\ (rows[v][k].decision # 0 \/ rows[v][k].case \in CasesOf(u, Imported(u)))
                    => rows'[v][k].decision # 0
<1> DEFINE own == {rows[u][k].case : k \in Imported(u)}
           new == rows'[v]
<1>1. new = [k \in DOMAIN rows[v] |->
          IF v = u /\ rows[v][k].state = "imported"
          THEN [rows[v][k] EXCEPT !.state = "completed", !.decision = 1]
          ELSE IF rows[v][k].case \in own /\ rows[v][k].state = "duplicate"
                  /\ rows[v][k].decision = 0
          THEN [rows[v][k] EXCEPT !.decision = 1]
          ELSE rows[v][k]]
  BY DEF LinkOwned
<1>2. own = CasesOf(u, Imported(u))
  BY DEF CasesOf
<1> HIDE DEF own, new
<1>3. ASSUME NEW k \in DOMAIN rows[v]
      PROVE  /\ new[k].case = rows[v][k].case /\ new[k].error = rows[v][k].error
             /\ new[k].state = IF v = u /\ rows[v][k].state = "imported"
                               THEN "completed" ELSE rows[v][k].state
             /\ rows[v][k].state = "duplicate" /\ (rows[v][k].decision # 0 \/ rows[v][k].case \in own)
                => new[k].decision # 0
  <2> DEFINE row == rows[v][k]
  <2>1. row \in Row
    BY RowType
  <2> HIDE DEF row
  <2>2. /\ [row EXCEPT !.state = "completed", !.decision = 1].case = row.case
        /\ [row EXCEPT !.state = "completed", !.decision = 1].error = row.error
        /\ [row EXCEPT !.state = "completed", !.decision = 1].state = "completed"
    BY <2>1 DEF Row
  <2>3. /\ [row EXCEPT !.decision = 1].case = row.case
        /\ [row EXCEPT !.decision = 1].error = row.error
        /\ [row EXCEPT !.decision = 1].state = row.state
        /\ [row EXCEPT !.decision = 1].decision = 1
    BY <2>1 DEF Row
  <2>4. new[k] = IF v = u /\ row.state = "imported"
                 THEN [row EXCEPT !.state = "completed", !.decision = 1]
                 ELSE IF row.case \in own /\ row.state = "duplicate" /\ row.decision = 0
                 THEN [row EXCEPT !.decision = 1]
                 ELSE row
    BY <1>1 DEF row
  <2> SUFFICES /\ new[k].case = row.case /\ new[k].error = row.error
               /\ new[k].state = IF v = u /\ row.state = "imported" THEN "completed" ELSE row.state
               /\ row.state = "duplicate" /\ (row.decision # 0 \/ row.case \in own)
                  => new[k].decision # 0
    BY DEF row
  <2> QED
    BY <2>2, <2>3, <2>4
<1>4. DOMAIN new = DOMAIN rows[v]
  BY <1>1
<1> QED
  BY <1>2, <1>3, <1>4 DEF new

LEMMA LinkedHold ==
    ASSUME IInv, RowsHold, UNCHANGED cases, NEW u \in Uids, rows' = LinkOwned(u),
           \A k \in Imported(u) : cases[rows[u][k].case].decisions # 0
    PROVE  RowsHold'
<1>1. RowsFounded'
  <2> SUFFICES ASSUME NEW v \in Uids, NEW k \in DOMAIN rows'[v]
               PROVE  /\ rows'[v][k].state \in {"imported", "completed"} => rows'[v][k].case \in DOMAIN cases
                      /\ rows'[v][k].state = "completed" => cases[rows'[v][k].case].decisions > 0
                      /\ rows'[v][k].state = "duplicate" =>
                            rows'[v][k].error \in {"none", "manual_pending_conflict"}
    BY DEF RowsFounded
  <2>1. /\ k \in DOMAIN rows[v]
        /\ rows'[v][k].case = rows[v][k].case /\ rows'[v][k].error = rows[v][k].error
        /\ rows'[v][k].state = IF v = u /\ rows[v][k].state = "imported"
                               THEN "completed" ELSE rows[v][k].state
    BY LinkedRows DEF IInv
  <2>2. CASE v = u /\ rows[v][k].state = "imported"
    <3>1. k \in Imported(u) /\ rows[u][k].case \in DOMAIN cases
      BY <2>1, <2>2 DEF Imported, RowsHold, RowsFounded
    <3>2. cases[rows[u][k].case].decisions \in Nat
      BY <3>1, Cases DEF IInv
    <3> QED
      BY <2>1, <2>2, <3>1, <3>2
  <2>3. CASE ~(v = u /\ rows[v][k].state = "imported")
    BY <2>1, <2>3 DEF RowsHold, RowsFounded
  <2> QED
    BY <2>2, <2>3
<1>2. DuplicatesAreLinked'
  <2> SUFFICES ASSUME NEW v \in Uids, NEW x \in Uids, NEW j \in DOMAIN rows'[v], NEW k \in DOMAIN rows'[x],
                      rows'[v][j].state = "completed", rows'[x][k].state = "duplicate",
                      rows'[x][k].case = rows'[v][j].case
               PROVE  rows'[x][k].decision # 0
    BY DEF DuplicatesAreLinked
  <2>1. /\ j \in DOMAIN rows[v] /\ rows'[v][j].case = rows[v][j].case
        /\ rows[v][j].state = "completed" \/ (v = u /\ rows[v][j].state = "imported")
    <3>1. /\ j \in DOMAIN rows[v] /\ rows'[v][j].case = rows[v][j].case
          /\ rows'[v][j].state = IF v = u /\ rows[v][j].state = "imported"
                                 THEN "completed" ELSE rows[v][j].state
      BY LinkedRows DEF IInv
    <3> QED
      BY <3>1
  <2>2. /\ k \in DOMAIN rows[x] /\ rows[x][k].state = "duplicate" /\ rows[x][k].case = rows[v][j].case
        /\ rows[x][k].decision # 0 \/ rows[x][k].case \in CasesOf(u, Imported(u))
           => rows'[x][k].decision # 0
    <3>1. /\ k \in DOMAIN rows[x] /\ rows'[x][k].case = rows[x][k].case
          /\ rows'[x][k].state = IF x = u /\ rows[x][k].state = "imported"
                                 THEN "completed" ELSE rows[x][k].state
          /\ rows[x][k].state = "duplicate"
             /\ (rows[x][k].decision # 0 \/ rows[x][k].case \in CasesOf(u, Imported(u)))
             => rows'[x][k].decision # 0
      BY LinkedRows DEF IInv
    <3>2. rows[x][k].state = "duplicate"
      BY <3>1
    <3> QED
      BY <2>1, <3>1, <3>2
  <2>3. CASE rows[v][j].state = "completed"
    BY <2>1, <2>2, <2>3 DEF RowsHold, DuplicatesAreLinked
  <2>4. CASE v = u /\ rows[v][j].state = "imported"
    BY <2>1, <2>2, <2>4 DEF CasesOf, Imported
  <2> QED
    BY <2>1, <2>3, <2>4
<1> QED
  BY <1>1, <1>2 DEF RowsHold

LEMMA CompleteStays == ASSUME IInv, IInv', CInv, NEW w \in Workers, Complete(w) PROVE CInv'
<1>0. PICK u \in Uids : u = requests[w].uid
  BY AskingFields DEF Complete
<1>1. UNCHANGED <<cases, operations>> /\ requests[w].pc = "complete" /\ PhasesHold
  BY DEF Complete, processVars, CInv
<1>2. CASE Answers(w, "fail") /\ UNCHANGED mailVars
  BY <1>1, <1>2, RefusedStays DEF mailVars
<1>3. CASE ~(Answers(w, "fail") /\ UNCHANGED mailVars)
  <2>1. /\ Leased(u, requests[w].token)
        /\ \A k \in Imported(u) : cases[rows[u][k].case].decisions # 0
        /\ rows' = LinkOwned(u) /\ messages' = Closed(u, LinkOwned(u)[u])
        /\ Answered(w, Unburdened(w))
    BY <1>0, <1>3 DEF Complete
  <2>2. Discovered(u) = {}
    <3>1. Current(u, RClaim(w))
      BY <1>0, <2>1 DEF Leased, Current, RClaim
    <3> QED
      BY <1>0, <1>1, <3>1 DEF PhasesHold, RunsAreLast
  <2>3. /\ messages'[u].state = Outcome(rows'[u]) /\ messages'[u].saved = messages[u].saved
        /\ \A v \in Uids : v # u => messages'[v] = messages[v]
    BY <2>1, ClosedIs DEF IInv
  <2>4. SameTokens
    BY <2>1, ClosedMoves DEF IInv, OnlyMessage, SameTokens
  <2>5. RowsHold'
    BY <1>1, <2>1, LinkedHold DEF CInv
  <2>6. ASSUME NEW v \in Uids
        PROVE  /\ PartsGoOn(v) /\ Discovered(v)' = Discovered(v)
               /\ v # u => SameParts(v)
               /\ rows[v] = <<>> => rows'[v] = <<>>
    <3>1. /\ DOMAIN rows'[v] = DOMAIN rows[v]
          /\ \A k \in DOMAIN rows[v] :
                /\ rows'[v][k].case = rows[v][k].case /\ rows'[v][k].error = rows[v][k].error
                /\ rows'[v][k].state = IF v = u /\ rows[v][k].state = "imported"
                                       THEN "completed" ELSE rows[v][k].state
      BY <2>1, LinkedRows DEF IInv
    <3>2. Discovered(v)' = Discovered(v)
      BY <3>1 DEF Discovered
    <3>3. v # u => SameParts(v)
      BY <3>1 DEF SameParts
    <3>4. PartsGoOn(v)
      <4>1. CASE v = u
        <5>1. Imported(u) # {} => Completed(u)' # {}
          BY <3>1, <4>1 DEF Imported, Completed
        <5> QED
          BY <3>1, <4>1, <5>1 DEF PartsGoOn
      <4>2. CASE v # u
        BY <3>3, <4>2, SamePartsGoOn
      <4> QED
        BY <4>1, <4>2
    <3>5. rows[v] = <<>> => rows'[v] = <<>>
      <4>1. rows[v] \in Seq(Row) /\ rows'[v] \in Seq(Row)
        BY DEF IInv, TypeOK
      <4> QED
        BY <3>1, <4>1, EmptyParts
    <3> QED
      BY <3>2, <3>3, <3>4, <3>5
  <2>7. Discovered(u)' = {} /\ Imported(u)' = {}
    <3>1. \A k \in DOMAIN rows'[u] : rows'[u][k].state # "imported"
      BY <2>1, LinkedRows DEF IInv
    <3> QED
      BY <2>2, <2>6, <3>1 DEF Imported
  <2>8. /\ OnlyRequest(w) /\ requests'[w].pc = "none"
        /\ \A v \in Workers : WorkerGoesOn(v)
    <3>1. OnlyRequest(w) /\ requests'[w].pc = "none"
      BY <2>1, UnburdenedType, AnsweredMoves DEF IInv
    <3>2. \A v \in Workers : WorkerGoesOn(v)
      <4>1. CASE workers' = [workers EXCEPT ![w] = Unburdened(w)]
        BY <1>1, <4>1, UnburdenedIsFree, WorkerGoes
      <4>2. CASE UNCHANGED workers
        BY <1>1, <4>2, WorkersRest
      <4> QED
        BY <2>1, <4>1, <4>2 DEF Answered
    <3> QED
      BY <3>1, <3>2
  <2>9. \A v \in Workers : RequestGoesOn(v)
    <3>1. ASSUME NEW v \in Workers, requests[v].pc = "attach"
          PROVE  PartsWait(v)
      <4>1. requests[v].uid \in Uids
        BY <3>1, AskingFields
      <4>2. requests[v].part \in Discovered(requests[v].uid)
        BY <1>1, <3>1 DEF PhasesHold, ImportsWait
      <4>3. /\ DOMAIN rows'[requests[v].uid] = DOMAIN rows[requests[v].uid]
            /\ \A k \in Discovered(requests[v].uid) : rows'[requests[v].uid][k].state = "discovered"
        BY <2>1, <4>1, LinkedRows DEF IInv, Discovered
      <4> QED
        BY <4>2, <4>3 DEF PartsWait, Discovered
    <3>2. \A v \in Workers : PartsWait(v)
      BY <3>1 DEF PartsWait
    <3> QED
      BY <2>8, <3>2, RequestsGoOn DEF RequestGoesOn
  <2>10. PhasesHold'
    <3>1. \A v \in Uids : messages'[v].saved = messages[v].saved
      BY <2>3
    <3> QED
      BY <1>1, <2>4, <2>6, <2>8, <2>9, <3>1, PhasesStay
  <2>11. EndsHold'
    <3> SUFFICES ASSUME NEW v \in Uids PROVE Ended(v)' /\ Decided(v)'
      BY DEF EndsHold
    <3>1. CASE v = u
      BY <2>3, <2>5, <2>7, <3>1, ClosedEnds DEF IInv, RowsHold
    <3>2. CASE v # u
      <4>1. SameParts(v) /\ messages'[v] = messages[v]
        BY <2>3, <2>6, <3>2
      <4> QED
        BY <1>1, <4>1, EndStays, CasesUntouched DEF IInv, CInv, EndsHold, RowsHold
    <3> QED
      BY <3>1, <3>2
  <2>12. RunsHold'
    BY <1>1, <2>6, <2>8, RunsStay, RunsEnd DEF CInv
  <2> QED
    BY <2>5, <2>10, <2>11, <2>12 DEF CInv
<1> QED
  BY <1>2, <1>3

-----------------------------------------------------------------------------
\* The theorems

LEMMA InitCompletes == Init => CInv
<1> SUFFICES ASSUME Init PROVE CInv
  OBVIOUS
<1>1. /\ \A u \in Uids : rows[u] = <<>> /\ messages[u].state = "absent" /\ ~messages[u].saved
      /\ \A w \in Workers : /\ workers[w].pc = "idle" /\ workers[w].permanent = FALSE
                            /\ requests[w].pc = "none"
      /\ operations = {}
  BY DEF Init, NoMessage, IdleWorker, NoRequest
<1>2. \A u \in Uids : DOMAIN rows[u] = {}
  <2>1. DOMAIN <<>> = {}
    OBVIOUS
  <2> QED
    BY <1>1, <2>1
<1>3. RowsHold
  BY <1>2 DEF RowsHold, RowsFounded, DuplicatesAreLinked
<1>4. PhasesHold
  BY <1>1 DEF PhasesHold, RowsSaved, EarlyIsUnsaved, Early, ImportsWait, RunsAreLast
<1>5. EndsHold
  BY <1>1 DEF EndsHold, Ended, Decided
<1>6. Runs = {}
  BY <1>1 DEF Runs
<1>7. RunsHold
  BY <1>6 DEF RunsHold, RunsAreKnown, OneSelection
<1> QED
  BY <1>3, <1>4, <1>5, <1>7 DEF CInv

LEMMA StepStays == IInv /\ IInv' /\ CInv /\ [Next]_vars => CInv'
<1> SUFFICES ASSUME IInv, IInv', CInv, [Next]_vars PROVE CInv'
  OBVIOUS
<1>1. CASE UNCHANGED vars
  BY <1>1, OutsideStays DEF vars, mailVars, processVars
<1>2. ASSUME NEW w \in Workers, WorkerStep(w) PROVE CInv'
  BY <1>2, StartCycleStays, ClaimStays, PollStays, DiscoverStays, ManifestStays, RejectPartStays,
     StartImportStays, FinishStays, FailStays DEF WorkerStep
<1>3. ASSUME NEW w \in Workers, RequestStep(w) PROVE CInv'
  BY <1>3, AttachStays, RunStays, CompleteStays DEF RequestStep
<1>4. ASSUME NEW w \in Workers, GiveUp(w) \/ MissManifest(w) \/ Die(w) \/ RequestFails(w)
      PROVE  CInv'
  BY <1>4, LeavingStays, RequestFailsStays
<1>5. ASSUME NEW u \in Uids,
             LeaseEnds(u) \/ WaitEnds(u) \/ \E k \in DOMAIN rows[u] : Retry(u, k)
      PROVE  CInv'
  BY <1>5, ClockStays, RetryStays
<1>6. CASE Arrive \/ Renumber \/ PollDue \/ Initialize \/ Halt \/ ResumeAccount
  BY <1>6, OutsideStays
  DEF Arrive, Renumber, PollDue, Initialize, Halt, ResumeAccount, mailVars, processVars
<1>7. CASE \/ \E f \in Contents : Upload(f)
           \/ \E n \in DOMAIN cases : DecideByHand(n) \/ ReadAgain(n)
  BY <1>7, PeopleStay
<1> QED
  BY <1>1, <1>2, <1>3, <1>4, <1>5, <1>6, <1>7 DEF Next

LEMMA CompletionHolds == Spec => [](IInv /\ CInv)
<1>1. Init => IInv /\ CInv
  BY InitHolds, InitCompletes
<1>2. (IInv /\ CInv) /\ [Next]_vars => (IInv /\ CInv)'
  BY StepKeeps, StepStays
<1> QED
  BY <1>1, <1>2, PTL DEF Spec

(* A run of a message is answered by what is saved under its key, or is new:  *)
(* nowhere a run under way finds its key with another selection, though the   *)
(* key of the first run says nothing of the parts.                            *)
THEOREM MailKeyKeepsItsSelection == Spec => []KeyKeepsItsSelection
<1>1. CInv => KeyKeepsItsSelection
  <2> SUFFICES ASSUME CInv, NEW w \in Workers, requests[w].pc = "run",
                      NEW op \in Saved(requests[w].key)
               PROVE  op.selection = requests[w].selection
    BY DEF KeyKeepsItsSelection
  <2>1. op \in Runs /\ op.key = requests[w].key
    BY DEF Saved, Runs
  <2>2. RunOf(w) \in Runs /\ RunOf(w).key = requests[w].key
        /\ RunOf(w).selection = requests[w].selection
    BY DEF Runs, RunOf
  <2> QED
    BY <2>1, <2>2 DEF CInv, RunsHold, OneSelection
<1> QED
  BY <1>1, CompletionHolds, PTL

(* A message that says it completed has parts, and each is decided or is the  *)
(* duplicate of a case that no person has to take on first.                   *)
THEOREM MailCompletedIsDecided == Spec => []CompletedIsDecided
<1>1. CInv => CompletedIsDecided
  BY DEF CInv, EndsHold, Decided, CompletedIsDecided
<1> QED
  BY <1>1, CompletionHolds, PTL

(* When the message that owns a case is complete, the duplicates of the case  *)
(* in all messages have a decision, whichever came first.                     *)
THEOREM MailDuplicatesAreLinked == Spec => []DuplicatesAreLinked
<1>1. CInv => DuplicatesAreLinked
  BY DEF CInv, RowsHold
<1> QED
  BY <1>1, CompletionHolds, PTL
=============================================================================
