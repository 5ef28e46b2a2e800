----------------------------- MODULE MailProofs -----------------------------
(* Proofs about Mail, for every mailbox, set of workers and bound: the cursor *)
(* is exact, mail makes no second case of a content, only the holder of a     *)
(* lease writes to a message, and Mail implements MailLedger. All but the     *)
(* second rest on the tokens: of the workers and requests that go on with a   *)
(* message, at most one pair has the token of its last claim.                 *)
EXTENDS Mail, FiniteSetTheorems, SequenceTheorems, NaturalsInduction, WellFoundedInduction, TLAPS

Final == {"completed", "ignored"}

\* Workers in the middle of a message, and requests under way.
Busy == {w \in Workers : workers[w].pc \in {"manifest", "parts", "await", "fail"}}
Asking == {w \in Workers : requests[w].pc # "none"}

\* The claim a worker or a request goes on with.
WClaim(w) == <<workers[w].uid, workers[w].token>>
RClaim(w) == <<requests[w].uid, requests[w].token>>

ClaimsMade ==
    /\ \A u \in Uids : messages[u].token <= messages[u].attempts
    /\ \A w \in Busy : /\ workers[w].uid \in Uids /\ workers[w].token # 0
                       /\ workers[w].token <= messages[workers[w].uid].attempts
    /\ \A w \in Asking : /\ requests[w].uid \in Uids /\ requests[w].token # 0
                         /\ requests[w].token <= messages[requests[w].uid].attempts

OneHolder ==
    /\ \A w, v \in Busy : w # v => WClaim(w) # WClaim(v)
    /\ \A w, v \in Asking : w # v => RClaim(w) # RClaim(v)
    /\ \A w \in Busy, v \in Asking :
           WClaim(w) = RClaim(v) => w = v /\ workers[w].pc \in {"await", "fail"}
    /\ \A w \in Busy : workers[w].pc = "await" => w \in Asking /\ RClaim(w) = WClaim(w)

Holders == ClaimsMade /\ OneHolder

\* The token of a message is the one its last claim made.
Current(u, claim) == claim = <<u, messages[u].token>>

ImportsHold == \A w \in Asking : requests[w].pc = "attach" => Current(requests[w].uid, RClaim(w))

\* An import carries a content, a run its key.
RequestsFormed ==
    /\ \A w \in Workers : requests[w].pc = "attach" => requests[w].content \in Contents
    /\ \A w \in Workers : requests[w].pc = "run" => requests[w].key \in Key

\* Nobody who could open a message again still has its token.
FinalIsFinal ==
    \A u \in Uids : messages[u].state \in Final =>
        /\ \A w \in Busy : workers[w].pc = "manifest" => ~Current(u, WClaim(w))
        /\ \A w \in Asking : requests[w].pc # "attach" => ~Current(u, RClaim(w))

AbsentIsNew == \A u \in Uids : messages[u].state = "absent" => messages[u] = NoMessage

Boundary ==
    /\ account.first <= account.next
    /\ account.state = "uninitialized" => account.next = 0
    /\ account.state = "active" => account.next # 0
    /\ \A w \in Workers : workers[w].pc = "discover" => workers[w].cursor <= workers[w].through + 1

IInv ==
    /\ TypeOK
    /\ Holders /\ ImportsHold /\ FinalIsFinal /\ RequestsFormed
    /\ AbsentIsNew /\ Boundary /\ CursorIsExact
    /\ NoSecondCase

-----------------------------------------------------------------------------
\* Bounds and choices

LEMMA Bounds ==
    /\ LastUid \in Nat \ {0} /\ PageSize \in Nat \ {0} /\ MaxAttempts \in Nat \ {0}
    /\ MaxUploads \in Nat /\ MaxDecisions \in Nat
    /\ Parts \in [Uids -> Seq(SUBSET (Contents \union {Invalid, Refused}))]
    /\ Contents \intersect {Invalid, Refused} = {}
<1>1. \A n \in {LastUid, PageSize, MaxAttempts} : n \in Nat \ {0}
  BY MailAssumption
<1>2. \A n \in {MaxUploads, MaxDecisions} : n \in Nat
  BY MailAssumption
<1> QED
  BY <1>1, <1>2, MailAssumption

(* A set of numbers that is not empty has a first one.                        *)
LEMMA FirstExists ==
    ASSUME NEW S \in SUBSET Nat, S # {}
    PROVE  LET first == CHOOSE n \in S : \A m \in S : n <= m
           IN  first \in S /\ \A m \in S : first <= m
<1>1. IsWellFoundedOn(OpToRel(<, Nat), Nat)
  BY NatLessThanWellFounded
<1>2. PICK n \in S : \A m \in S : ~(<<m, n>> \in OpToRel(<, Nat))
  BY <1>1, WFMin, Zenon
<1>3. \A m \in S : n <= m
  <2> SUFFICES ASSUME NEW m \in S PROVE n <= m
    OBVIOUS
  <2>1. ~(m < n)
    BY <1>2 DEF OpToRel
  <2> QED
    BY <2>1
<1> QED
  BY <1>3

LEMMA FirstIs ==
    ASSUME NEW S \in SUBSET Nat, NEW n \in S, \A m \in S : n <= m
    PROVE  (CHOOSE x \in S : \A m \in S : x <= m) = n
<1> DEFINE first == CHOOSE x \in S : \A m \in S : x <= m
<1>1. first \in S /\ \A m \in S : first <= m
  BY FirstExists
<1> HIDE DEF first
<1>2. first <= n /\ n <= first /\ first \in Nat /\ n \in Nat
  BY <1>1
<1>3. first = n
  BY <1>2
<1> QED
  BY <1>3 DEF first

(* CaseOf finds a case of the content exactly when there is one.              *)
LEMMA CaseOfContent ==
    ASSUME cases \in Seq(Case), NEW f
    PROVE  /\ CaseOf(f) \in Nat
           /\ CaseOf(f) # 0 => /\ CaseOf(f) \in DOMAIN cases /\ cases[CaseOf(f)].content = f
                              /\ \A n \in DOMAIN cases : cases[n].content = f => CaseOf(f) <= n
           /\ CaseOf(f) = 0 <=> \A n \in DOMAIN cases : cases[n].content # f
<1> DEFINE same == {n \in DOMAIN cases : cases[n].content = f}
           first == CHOOSE n \in same : \A m \in same : n <= m
<1>1. DOMAIN cases = 1..Len(cases) /\ Len(cases) \in Nat
  OBVIOUS
<1>2. same \in SUBSET Nat
  BY <1>1
<1>3. CaseOf(f) = IF same = {} THEN 0 ELSE first
  BY DEF CaseOf
<1>4. CASE same = {}
  BY <1>3, <1>4
<1>5. CASE same # {}
  <2>1. first \in same /\ \A n \in same : first <= n
    BY <1>2, <1>5, FirstExists
  <2> HIDE DEF first
  <2> QED
    BY <1>1, <1>3, <1>5, <2>1
<1> QED
  BY <1>4, <1>5

-----------------------------------------------------------------------------
\* The moves of a worker and of its request

\* Only the worker or the request of w changes.
OnlyWorker(w) ==
    /\ workers' \in [Workers -> Worker]
    /\ \A v \in Workers \ {w} : workers'[v] = workers[v]
OnlyRequest(w) ==
    /\ requests' \in [Workers -> Request]
    /\ \A v \in Workers \ {w} : requests'[v] = requests[v]

WorkerPlaces == {"idle", "ready", "poll", "discover", "claim", "manifest", "parts", "await", "fail"}

LEMMA IdleType == IdleWorker \in Worker /\ NoRequest \in Request
<1>1. 0 \in 0..LastUid /\ 0 \in 0..PageSize
  BY Bounds
<1>2. IdleWorker \in Worker
  BY <1>1 DEF IdleWorker, Worker
<1>3. NoRequest \in Request
  BY <1>1 DEF NoRequest, Request
<1> QED
  BY <1>2, <1>3

LEMMA GoesMoves ==
    ASSUME TypeOK, NEW w \in Workers, NEW pc \in WorkerPlaces, Goes(w, pc)
    PROVE  /\ OnlyWorker(w) /\ workers'[w].pc = pc
           /\ workers'[w].uid = workers[w].uid /\ workers'[w].token = workers[w].token
           /\ workers'[w].cursor = workers[w].cursor /\ workers'[w].through = workers[w].through
<1> DEFINE new == [workers[w] EXCEPT !.pc = pc]
<1>1. workers[w] \in Worker
  BY DEF TypeOK
<1>2. new \in Worker
  BY <1>1, ZenonT(60) DEF Worker, WorkerPlaces
<1>3. /\ new.pc = pc /\ new.uid = workers[w].uid /\ new.token = workers[w].token
      /\ new.cursor = workers[w].cursor /\ new.through = workers[w].through
  BY <1>1 DEF Worker
<1>4. workers' = [workers EXCEPT ![w] = new]
  BY DEF Goes
<1> HIDE DEF new
<1> QED
  BY <1>2, <1>3, <1>4 DEF OnlyWorker, TypeOK

LEMMA GivesUpMoves ==
    ASSUME TypeOK, NEW w \in Workers, NEW final \in BOOLEAN,
           workers' = [workers EXCEPT ![w].pc = "fail", ![w].permanent = final]
    PROVE  /\ OnlyWorker(w) /\ workers'[w].pc = "fail"
           /\ workers'[w].uid = workers[w].uid /\ workers'[w].token = workers[w].token
<1> DEFINE new == [workers[w] EXCEPT !.pc = "fail", !.permanent = final]
<1>1. workers[w] \in Worker
  BY DEF TypeOK
<1>2. new \in Worker
  BY <1>1, ZenonT(60) DEF Worker
<1>3. new.pc = "fail" /\ new.uid = workers[w].uid /\ new.token = workers[w].token
  BY <1>1 DEF Worker
<1>4. workers' = [workers EXCEPT ![w] = new]
  OBVIOUS
<1> HIDE DEF new
<1>5. workers \in [Workers -> Worker]
  BY DEF TypeOK
<1>6. workers'[w] = new /\ OnlyWorker(w)
  BY <1>2, <1>4, <1>5, Zenon DEF OnlyWorker
<1> QED
  BY <1>3, <1>6

LEMMA RestsMoves ==
    ASSUME TypeOK, NEW w \in Workers, Rests(w)
    PROVE  OnlyWorker(w) /\ workers'[w].pc = "idle"
<1>1. workers' = [workers EXCEPT ![w] = IdleWorker] /\ IdleWorker.pc = "idle"
  BY DEF Rests, IdleWorker
<1> QED
  BY <1>1, IdleType DEF OnlyWorker, TypeOK

LEMMA UnburdenedType ==
    ASSUME TypeOK, NEW w \in Workers
    PROVE  Unburdened(w) \in Worker /\ Unburdened(w).pc \in {"ready", "claim"}
<1>1. workers[w] \in Worker
  BY DEF TypeOK
<1>2. /\ workers[w].loop \in {"ready", "claim"} /\ workers[w].left \in 0..PageSize
      /\ workers[w].cursor \in Nat /\ workers[w].polls \in BOOLEAN
  BY <1>1 DEF Worker
<1>3. Unburdened(w) \in Worker
  BY <1>2, IdleType, ZenonT(60) DEF Unburdened, Worker
<1>4. Unburdened(w).pc = workers[w].loop
  BY IdleType DEF Unburdened, Worker
<1> QED
  BY <1>2, <1>3, <1>4

LEMMA ClaimsNextMoves ==
    ASSUME TypeOK, NEW w \in Workers, ClaimsNext(w)
    PROVE  OnlyWorker(w) /\ workers'[w].pc \in {"ready", "claim"}
BY UnburdenedType DEF ClaimsNext, OnlyWorker, TypeOK

LEMMA AnsweredMoves ==
    ASSUME TypeOK, NEW w \in Workers, NEW worker \in Worker, Answered(w, worker)
    PROVE  /\ OnlyRequest(w) /\ requests'[w].pc = "none"
           /\ OnlyWorker(w)
           /\ workers'[w] = IF workers[w].pc = "await" THEN worker ELSE workers[w]
BY IdleType DEF Answered, OnlyRequest, OnlyWorker, TypeOK, At, NoRequest

LEMMA AnswersMoves ==
    ASSUME TypeOK, NEW w \in Workers, NEW pc \in {"parts", "fail"}, Answers(w, pc)
    PROVE  /\ OnlyRequest(w) /\ requests'[w].pc = "none"
           /\ OnlyWorker(w)
           /\ workers'[w].pc = IF workers[w].pc = "await" THEN pc ELSE workers[w].pc
           /\ WClaim(w)' = WClaim(w)
           /\ workers'[w].cursor = workers[w].cursor /\ workers'[w].through = workers[w].through
<1> DEFINE new == [workers[w] EXCEPT !.pc = pc]
<1>1. workers[w] \in Worker
  BY DEF TypeOK
<1>2. new \in Worker
  BY <1>1, ZenonT(60) DEF Worker
<1>3. /\ new.pc = pc /\ new.uid = workers[w].uid /\ new.token = workers[w].token
      /\ new.cursor = workers[w].cursor /\ new.through = workers[w].through
  BY <1>1 DEF Worker
<1>4. Answered(w, new)
  BY DEF Answers
<1> HIDE DEF new
<1>5. /\ OnlyRequest(w) /\ requests'[w].pc = "none" /\ OnlyWorker(w)
      /\ workers'[w] = IF workers[w].pc = "await" THEN new ELSE workers[w]
  BY <1>2, <1>4, AnsweredMoves
<1> QED
  BY <1>3, <1>5 DEF WClaim

-----------------------------------------------------------------------------
\* What a step of one worker keeps

\* Claims and tokens are as they were.
SameTokens ==
    \A u \in Uids : messages'[u].token = messages[u].token
                    /\ messages'[u].attempts = messages[u].attempts

LEMMA HoldersKept ==
    ASSUME Holders, NEW w \in Workers, OnlyWorker(w), OnlyRequest(w), SameTokens,
           w \in Busy' => w \in Busy /\ WClaim(w)' = WClaim(w),
           w \in Asking' =>
               \/ w \in Asking /\ RClaim(w)' = RClaim(w)
               \/ w \in Busy /\ workers[w].pc = "parts" /\ RClaim(w)' = WClaim(w),
           w \in Busy' /\ w \in Asking' /\ WClaim(w)' = RClaim(w)'
           => workers'[w].pc \in {"await", "fail"},
           workers'[w].pc = "await" => w \in Asking' /\ RClaim(w)' = WClaim(w)'
    PROVE  Holders'
<1>1. /\ \A v \in Busy' : v # w => v \in Busy /\ workers'[v] = workers[v] /\ WClaim(v)' = WClaim(v)
      /\ \A v \in Asking' : v # w => v \in Asking /\ requests'[v] = requests[v]
                                     /\ RClaim(v)' = RClaim(v)
  BY DEF OnlyWorker, OnlyRequest, Busy, Asking, WClaim, RClaim
<1>2. /\ \A v \in Busy' : v \in Busy /\ WClaim(v)' = WClaim(v)
      /\ \A v \in Asking' : \/ v \in Asking /\ RClaim(v)' = RClaim(v)
                            \/ v = w /\ v \in Busy /\ workers[v].pc = "parts"
                               /\ RClaim(v)' = WClaim(v)
  BY <1>1
<1>3. ClaimsMade'
  <2>1. \A u \in Uids : messages'[u].token <= messages'[u].attempts
    BY DEF SameTokens, Holders, ClaimsMade
  <2>2. ASSUME NEW v \in Busy'
        PROVE  /\ workers'[v].uid \in Uids /\ workers'[v].token # 0
               /\ workers'[v].token <= messages'[workers'[v].uid].attempts
    <3>1. workers'[v].uid = workers[v].uid /\ workers'[v].token = workers[v].token /\ v \in Busy
      BY <1>2 DEF WClaim
    <3> QED
      BY <3>1 DEF SameTokens, Holders, ClaimsMade
  <2>3. ASSUME NEW v \in Asking'
        PROVE  /\ requests'[v].uid \in Uids /\ requests'[v].token # 0
               /\ requests'[v].token <= messages'[requests'[v].uid].attempts
    <3>1. CASE v \in Asking /\ RClaim(v)' = RClaim(v)
      <4>1. requests'[v].uid = requests[v].uid /\ requests'[v].token = requests[v].token
        BY <3>1 DEF RClaim
      <4> QED
        BY <3>1, <4>1 DEF SameTokens, Holders, ClaimsMade
    <3>2. CASE v \in Busy /\ RClaim(v)' = WClaim(v)
      <4>1. requests'[v].uid = workers[v].uid /\ requests'[v].token = workers[v].token
        BY <3>2 DEF RClaim, WClaim
      <4> QED
        BY <3>2, <4>1 DEF SameTokens, Holders, ClaimsMade
    <3> QED
      BY <1>2, <3>1, <3>2
  <2> QED
    BY <2>1, <2>2, <2>3 DEF ClaimsMade
<1>4. \A v, x \in Busy' : v # x => WClaim(v)' # WClaim(x)'
  BY <1>2 DEF Holders, OneHolder
<1>5. \A v, x \in Asking' : v # x => RClaim(v)' # RClaim(x)'
  BY <1>2 DEF Holders, OneHolder
<1>6. \A v \in Busy', x \in Asking' :
          WClaim(v)' = RClaim(x)' => v = x /\ workers'[v].pc \in {"await", "fail"}
  <2> SUFFICES ASSUME NEW v \in Busy', NEW x \in Asking', WClaim(v)' = RClaim(x)'
               PROVE  v = x /\ workers'[v].pc \in {"await", "fail"}
    OBVIOUS
  <2>1. v = x
    BY <1>2 DEF Holders, OneHolder
  <2>2. CASE v = w
    BY <2>1, <2>2
  <2>3. CASE v # w
    BY <1>1, <2>1, <2>3 DEF Holders, OneHolder
  <2> QED
    BY <2>1, <2>2, <2>3
<1>7. \A v \in Busy' : workers'[v].pc = "await" => v \in Asking' /\ RClaim(v)' = WClaim(v)'
  <2> SUFFICES ASSUME NEW v \in Busy', workers'[v].pc = "await", v # w
               PROVE  v \in Asking' /\ RClaim(v)' = WClaim(v)'
    OBVIOUS
  <2>1. v \in Asking /\ RClaim(v) = WClaim(v) /\ v \in Workers
    BY <1>1 DEF Holders, OneHolder, Busy
  <2>2. requests'[v] = requests[v]
    BY <2>1 DEF OnlyRequest
  <2> QED
    BY <1>1, <2>1, <2>2 DEF Asking, RClaim
<1> QED
  BY <1>3, <1>4, <1>5, <1>6, <1>7 DEF Holders, OneHolder

\* w closes u with the token of its last claim, as a worker or through its request.
Closes(w, u) ==
    \/ /\ w \in Busy /\ workers[w].pc \in {"manifest", "parts"} /\ Current(u, WClaim(w))
       /\ workers'[w].pc # "manifest"
    \/ w \in Asking /\ Current(u, RClaim(w)) /\ requests'[w].pc = "none"

LEMMA FinalKept ==
    ASSUME FinalIsFinal, Holders, NEW w \in Workers, OnlyWorker(w), OnlyRequest(w), SameTokens,
           \A u \in Uids : messages'[u].state \in Final
                           => messages[u].state \in Final \/ Closes(w, u),
           workers'[w].pc = "manifest" => workers[w].pc = "manifest" /\ WClaim(w)' = WClaim(w),
           requests'[w].pc \notin {"none", "attach"} =>
               \/ requests[w].pc \notin {"none", "attach"} /\ RClaim(w)' = RClaim(w)
               \/ messages'[requests'[w].uid].state \notin Final
    PROVE  FinalIsFinal'
<1> SUFFICES ASSUME NEW u \in Uids, messages'[u].state \in Final
             PROVE  /\ \A v \in Busy' : workers'[v].pc = "manifest" => ~Current(u, WClaim(v))'
                    /\ \A v \in Asking' : requests'[v].pc # "attach" => ~Current(u, RClaim(v))'
  BY DEF FinalIsFinal
<1>1. messages'[u].token = messages[u].token
  BY DEF SameTokens
<1>2. \A v \in Busy' : workers'[v].pc = "manifest" =>
          v \in Busy /\ workers[v].pc = "manifest" /\ WClaim(v)' = WClaim(v)
  BY DEF OnlyWorker, Busy, WClaim
<1>3. ASSUME NEW v \in Asking', requests'[v].pc # "attach", Current(u, RClaim(v))'
      PROVE  v \in Asking /\ requests[v].pc # "attach" /\ RClaim(v)' = RClaim(v)
  <2>1. requests'[v].uid = u /\ requests'[v].pc \notin {"none", "attach"} /\ v \in Workers
    BY <1>3 DEF Current, RClaim, Asking
  <2>2. CASE v = w
    BY <2>1, <2>2 DEF Asking
  <2>3. CASE v # w
    BY <2>1, <2>3 DEF Asking, OnlyRequest, RClaim
  <2> QED
    BY <2>2, <2>3
<1>4. CASE messages[u].state \in Final
  BY <1>1, <1>2, <1>3, <1>4 DEF FinalIsFinal, Current
<1>5. CASE Closes(w, u)
  <2>1. ASSUME NEW v \in Busy', workers'[v].pc = "manifest" PROVE ~Current(u, WClaim(v))'
    <3>1. v \in Busy /\ workers[v].pc = "manifest" /\ WClaim(v)' = WClaim(v)
      BY <1>2, <2>1
    <3> QED
      BY <1>1, <1>5, <2>1, <3>1 DEF Closes, Current, Holders, OneHolder
  <2>2. ASSUME NEW v \in Asking', requests'[v].pc # "attach", Current(u, RClaim(v))' PROVE FALSE
    <3>1. v \in Asking /\ RClaim(v)' = RClaim(v) /\ requests'[v].pc # "none"
      BY <1>3, <2>2 DEF Asking
    <3> QED
      BY <1>1, <1>5, <2>2, <3>1 DEF Closes, Current, Holders, OneHolder
  <2> QED
    BY <2>1, <2>2
<1> QED
  BY <1>4, <1>5

LEMMA ImportsKept ==
    ASSUME ImportsHold, Holders, NEW w \in Workers, OnlyRequest(w), SameTokens,
           requests'[w].pc = "attach" =>
               \/ requests[w].pc = "attach" /\ RClaim(w)' = RClaim(w)
               \/ w \in Busy /\ RClaim(w)' = WClaim(w) /\ Current(workers[w].uid, WClaim(w))
    PROVE  ImportsHold'
<1> SUFFICES ASSUME NEW v \in Asking', requests'[v].pc = "attach"
             PROVE  Current(requests[v].uid, RClaim(v))'
  BY DEF ImportsHold
<1>1. CASE requests[v].pc = "attach" /\ RClaim(v)' = RClaim(v)
  <2>1. v \in Asking /\ requests'[v].uid = requests[v].uid /\ requests[v].uid \in Uids
    BY <1>1 DEF Asking, RClaim, Holders, ClaimsMade
  <2> QED
    BY <1>1, <2>1 DEF ImportsHold, Current, SameTokens
<1>2. CASE w \in Busy /\ RClaim(w)' = WClaim(w) /\ Current(workers[w].uid, WClaim(w)) /\ v = w
  <2>1. requests'[v].uid = workers[w].uid /\ workers[w].uid \in Uids
    BY <1>2 DEF RClaim, WClaim, Holders, ClaimsMade
  <2> QED
    BY <1>2, <2>1 DEF Current, SameTokens
<1> QED
  BY <1>1, <1>2 DEF OnlyRequest, Asking, RClaim

\* Nothing is entered and nothing leaves the tables; the cursor stays.
SameEntries ==
    /\ \A u \in Uids : /\ messages'[u].state = "absent" <=> messages[u].state = "absent"
                       /\ messages'[u].state = "absent" => messages'[u] = messages[u]
    /\ account'.first = account.first /\ account'.next = account.next
    /\ account'.state = "uninitialized" => account.state = "uninitialized"
    /\ account'.state = "active" => account.state = "active" \/ account.next # 0

LEMMA EntriesKept ==
    ASSUME AbsentIsNew, Boundary, CursorIsExact, SameEntries,
           \A v \in Workers : workers'[v].pc = "discover" =>
               \/ workers[v].pc = "discover" /\ workers'[v].cursor = workers[v].cursor
                  /\ workers'[v].through = workers[v].through
               \/ workers'[v].cursor <= workers'[v].through + 1
    PROVE  AbsentIsNew' /\ Boundary' /\ CursorIsExact'
<1>1. AbsentIsNew'
  BY DEF AbsentIsNew, SameEntries
<1>2. Boundary'
  BY DEF Boundary, SameEntries
<1>3. CursorIsExact'
  BY DEF CursorIsExact, SameEntries
<1> QED
  BY <1>1, <1>2, <1>3

(* Cases keep their content and whether they came by mail.                    *)
LEMMA CasesKept ==
    ASSUME NoSecondCase, DOMAIN cases' = DOMAIN cases,
           \A n \in DOMAIN cases : cases'[n].content = cases[n].content
                                   /\ cases'[n].mail = cases[n].mail
    PROVE  NoSecondCase'
<1>1. \A f : CaseOf(f)' = CaseOf(f)
  <2> SUFFICES ASSUME NEW f PROVE CaseOf(f)' = CaseOf(f)
    OBVIOUS
  <2> DEFINE same == {n \in DOMAIN cases : cases[n].content = f}
             new == {n \in DOMAIN cases' : cases'[n].content = f}
  <2>1. new = same
    OBVIOUS
  <2>2. /\ CaseOf(f) = IF same = {} THEN 0 ELSE CHOOSE n \in same : \A m \in same : n <= m
        /\ CaseOf(f)' = IF new = {} THEN 0 ELSE CHOOSE n \in new : \A m \in new : n <= m
    BY DEF CaseOf
  <2> HIDE DEF new, same
  <2> QED
    BY <2>1, <2>2
<1> QED
  BY <1>1 DEF NoSecondCase

LEMMA CasesUnchanged == ASSUME NoSecondCase, UNCHANGED cases PROVE NoSecondCase'
BY DEF NoSecondCase, CaseOf

\* What TypeOK and NoSecondCase do not say.
Claims ==
    /\ Holders /\ ImportsHold /\ FinalIsFinal /\ RequestsFormed
    /\ AbsentIsNew /\ Boundary /\ CursorIsExact

(* A step of the mailbox, of time or of the account that leaves the workers,  *)
(* their requests and the tokens alone.                                       *)
LEMMA OutsideKeeps ==
    ASSUME IInv, UNCHANGED <<workers, requests>>, SameTokens, SameEntries,
           \A u \in Uids : messages'[u].state \in Final => messages[u].state \in Final
    PROVE  Claims'
<1>1. /\ Busy' = Busy /\ Asking' = Asking
      /\ \A w : WClaim(w)' = WClaim(w) /\ RClaim(w)' = RClaim(w)
  BY DEF Busy, Asking, WClaim, RClaim
<1>2. Holders'
  BY <1>1 DEF IInv, Holders, ClaimsMade, OneHolder, SameTokens
<1>3. ImportsHold'
  <2>1. \A w \in Asking : requests[w].uid \in Uids
    BY DEF IInv, Holders, ClaimsMade
  <2> QED
    BY <1>1, <2>1 DEF IInv, ImportsHold, SameTokens, Current
<1>4. FinalIsFinal'
  BY <1>1 DEF IInv, FinalIsFinal, SameTokens, Current
<1>5. AbsentIsNew' /\ Boundary' /\ CursorIsExact'
  BY EntriesKept DEF IInv
<1>6. RequestsFormed'
  BY DEF IInv, RequestsFormed
<1> QED
  BY <1>2, <1>3, <1>4, <1>5, <1>6 DEF Claims

(* A step of a worker that leaves the requests and the tokens alone.          *)
LEMMA WorkerMoves ==
    ASSUME IInv, NEW w \in Workers, OnlyWorker(w), UNCHANGED requests, SameTokens, SameEntries,
           w \in Busy' => w \in Busy /\ WClaim(w)' = WClaim(w),
           workers'[w].pc \in {"manifest", "parts"} => workers[w].pc \in {"manifest", "parts"},
           workers'[w].pc = "manifest" => workers[w].pc = "manifest",
           workers'[w].pc = "await" => workers[w].pc = "await",
           workers'[w].pc = "discover" => workers'[w].cursor <= workers'[w].through + 1,
           \A u \in Uids : messages'[u].state \in Final =>
               \/ messages[u].state \in Final
               \/ workers[w].pc \in {"manifest", "parts"} /\ Current(u, WClaim(w))
                  /\ workers'[w].pc # "manifest"
    PROVE  Claims'
<1>1. OnlyRequest(w)
  BY DEF IInv, TypeOK, OnlyRequest
<1>2. Asking' = Asking /\ \A v : RClaim(v)' = RClaim(v)
  BY DEF Asking, RClaim
<1>3. Holders'
  <2>1. ASSUME w \in Busy', w \in Asking', WClaim(w)' = RClaim(w)'
        PROVE  workers'[w].pc \in {"await", "fail"}
    BY <1>2, <2>1 DEF IInv, Holders, OneHolder, Busy
  <2>2. ASSUME workers'[w].pc = "await" PROVE w \in Asking' /\ RClaim(w)' = WClaim(w)'
    BY <1>2, <2>2 DEF IInv, Holders, OneHolder, Busy
  <2> QED
    BY <1>1, <1>2, <2>1, <2>2, HoldersKept DEF IInv
<1>4. ImportsHold'
  BY <1>1, <1>2, ImportsKept DEF IInv
<1>5. FinalIsFinal'
  <2>1. \A u \in Uids : messages'[u].state \in Final => messages[u].state \in Final \/ Closes(w, u)
    BY DEF Closes, Busy
  <2>2. workers'[w].pc = "manifest" => workers[w].pc = "manifest" /\ WClaim(w)' = WClaim(w)
    BY DEF Busy
  <2> QED
    BY <1>1, <1>2, <2>1, <2>2, FinalKept DEF IInv
<1>6. RequestsFormed'
  BY DEF IInv, RequestsFormed
<1>7. AbsentIsNew' /\ Boundary' /\ CursorIsExact'
  <2>1. \A v \in Workers : workers'[v].pc = "discover" =>
               \/ workers[v].pc = "discover" /\ workers'[v].cursor = workers[v].cursor
                  /\ workers'[v].through = workers[v].through
               \/ workers'[v].cursor <= workers'[v].through + 1
    BY DEF OnlyWorker
  <2> QED
    BY <2>1, EntriesKept DEF IInv
<1> QED
  BY <1>3, <1>4, <1>5, <1>6, <1>7 DEF Claims

(* A step of a request, which its worker may learn of.                        *)
LEMMA RequestMoves ==
    ASSUME IInv, NEW w \in Workers, OnlyWorker(w), OnlyRequest(w), SameTokens, SameEntries,
           w \in Asking, requests'[w].pc = "none",
           w \in Busy' => /\ w \in Busy /\ WClaim(w)' = WClaim(w)
                          /\ workers'[w].pc # "await",
           workers'[w].pc \in {"manifest", "discover"} => workers'[w] = workers[w],
           \A u \in Uids : messages'[u].state \in Final =>
               messages[u].state \in Final \/ Current(u, RClaim(w))
    PROVE  Claims'
<1>1. w \notin Asking'
  BY DEF Asking
<1>2. Holders'
  BY <1>1, HoldersKept DEF IInv, Busy
<1>3. ImportsHold'
  BY ImportsKept DEF IInv
<1>4. FinalIsFinal'
  <2>1. \A u \in Uids : messages'[u].state \in Final => messages[u].state \in Final \/ Closes(w, u)
    BY DEF Closes
  <2>2. workers'[w].pc = "manifest" => workers[w].pc = "manifest" /\ WClaim(w)' = WClaim(w)
    BY DEF Busy, WClaim
  <2> QED
    BY <2>1, <2>2, FinalKept DEF IInv
<1>5. RequestsFormed'
  BY DEF IInv, RequestsFormed, OnlyRequest
<1>6. AbsentIsNew' /\ Boundary' /\ CursorIsExact'
  <2>1. \A v \in Workers : workers'[v].pc = "discover" =>
               \/ workers[v].pc = "discover" /\ workers'[v].cursor = workers[v].cursor
                  /\ workers'[v].through = workers[v].through
               \/ workers'[v].cursor <= workers'[v].through + 1
    BY DEF OnlyWorker
  <2> QED
    BY <2>1, EntriesKept DEF IInv
<1> QED
  BY <1>2, <1>3, <1>4, <1>5, <1>6 DEF Claims

(* A step in which a worker sends a request and waits for it.                 *)
LEMMA RequestStarts ==
    ASSUME IInv, NEW w \in Workers, OnlyWorker(w), OnlyRequest(w), SameTokens, SameEntries,
           workers[w].pc = "parts", workers'[w].pc = "await", WClaim(w)' = WClaim(w),
           requests'[w].pc \in {"attach", "run"}, RClaim(w)' = WClaim(w),
           Current(workers[w].uid, WClaim(w)),
           requests'[w].pc = "attach" => requests'[w].content \in Contents,
           requests'[w].pc = "run" => requests'[w].key \in Key
                                      /\ messages'[workers[w].uid].state \notin Final,
           \A u \in Uids : messages'[u].state \in Final => messages[u].state \in Final
    PROVE  Claims'
<1>1. w \in Busy /\ w \in Busy' /\ w \in Asking'
  BY DEF Busy, Asking
<1>2. Holders'
  BY <1>1, HoldersKept DEF IInv
<1>3. ImportsHold'
  BY <1>1, ImportsKept DEF IInv
<1>4. FinalIsFinal'
  <2>1. requests'[w].uid = workers[w].uid
    BY DEF RClaim, WClaim
  <2> QED
    BY <2>1, FinalKept DEF IInv
<1>5. RequestsFormed'
  BY DEF IInv, RequestsFormed, OnlyRequest
<1>6. AbsentIsNew' /\ Boundary' /\ CursorIsExact'
  <2>1. \A v \in Workers : workers'[v].pc = "discover" =>
               \/ workers[v].pc = "discover" /\ workers'[v].cursor = workers[v].cursor
                  /\ workers'[v].through = workers[v].through
               \/ workers'[v].cursor <= workers'[v].through + 1
    BY DEF OnlyWorker
  <2> QED
    BY <2>1, EntriesKept DEF IInv
<1> QED
  BY <1>2, <1>3, <1>4, <1>5, <1>6 DEF Claims

-----------------------------------------------------------------------------
\* Messages and rows

LEMMA Messages ==
    ASSUME TypeOK, NEW u \in Uids
    PROVE  /\ messages[u] \in Message /\ messages[u].attempts \in Nat
           /\ messages[u].attempts <= MaxAttempts
           /\ messages[u].state \in MessageStates /\ messages[u].token \in Nat
           /\ messages[u].saved \in BOOLEAN /\ messages[u].leased \in BOOLEAN
           /\ messages[u].waiting \in BOOLEAN
BY DEF TypeOK, Message

(* One message changes to another record of the table.                        *)
LEMMA MessageMoves ==
    ASSUME TypeOK, NEW u \in Uids, NEW new \in Message, new.attempts <= MaxAttempts,
           messages' = [messages EXCEPT ![u] = new]
    PROVE  /\ messages' \in [Uids -> Message]
           /\ \A v \in Uids : messages'[v].attempts <= MaxAttempts
           /\ messages'[u] = new
           /\ \A v \in Uids : v # u => messages'[v] = messages[v]
BY DEF TypeOK

\* The message u changes in its state, its lease and its flags only, and is not absent.
OnlyMessage(u) ==
    /\ messages' \in [Uids -> Message]
    /\ \A v \in Uids : messages'[v].attempts <= MaxAttempts
    /\ \A v \in Uids : v # u => messages'[v] = messages[v]
    /\ messages'[u].token = messages[u].token /\ messages'[u].attempts = messages[u].attempts

(* The changes of one message the actions make, each with what it leaves.     *)
LEMMA LeaseMoves ==
    ASSUME TypeOK, NEW u \in Uids, NEW lease \in BOOLEAN,
           messages' = [messages EXCEPT ![u].leased = lease]
    PROVE  OnlyMessage(u) /\ messages'[u].state = messages[u].state
<1> DEFINE new == [messages[u] EXCEPT !.leased = lease]
<1>1. new \in Message
  BY Messages, ZenonT(60) DEF Message
<1>2. /\ new.attempts = messages[u].attempts /\ new.token = messages[u].token
      /\ new.state = messages[u].state
  BY Messages DEF Message
<1>3. messages' = [messages EXCEPT ![u] = new]
  OBVIOUS
<1> HIDE DEF new
<1> QED
  BY <1>1, <1>2, <1>3, Messages, MessageMoves DEF OnlyMessage

LEMMA WaitMoves ==
    ASSUME TypeOK, NEW u \in Uids, messages' = [messages EXCEPT ![u].waiting = FALSE]
    PROVE  OnlyMessage(u) /\ messages'[u].state = messages[u].state
<1> DEFINE new == [messages[u] EXCEPT !.waiting = FALSE]
<1>1. new \in Message
  BY Messages, ZenonT(60) DEF Message
<1>2. /\ new.attempts = messages[u].attempts /\ new.token = messages[u].token
      /\ new.state = messages[u].state
  BY Messages DEF Message
<1>3. messages' = [messages EXCEPT ![u] = new]
  OBVIOUS
<1> HIDE DEF new
<1> QED
  BY <1>1, <1>2, <1>3, Messages, MessageMoves DEF OnlyMessage

LEMMA StateMoves ==
    ASSUME TypeOK, NEW u \in Uids, NEW state \in MessageStates,
           messages' = [messages EXCEPT ![u].state = state]
    PROVE  OnlyMessage(u) /\ messages'[u].state = state
<1> DEFINE new == [messages[u] EXCEPT !.state = state]
<1>1. new \in Message
  BY Messages, ZenonT(60) DEF Message
<1>2. /\ new.attempts = messages[u].attempts /\ new.token = messages[u].token
      /\ new.state = state
  BY Messages DEF Message
<1>3. messages' = [messages EXCEPT ![u] = new]
  OBVIOUS
<1> HIDE DEF new
<1> QED
  BY <1>1, <1>2, <1>3, Messages, MessageMoves DEF OnlyMessage

LEMMA StateLeaseMoves ==
    ASSUME TypeOK, NEW u \in Uids, NEW state \in MessageStates, NEW lease \in BOOLEAN,
           messages' = [messages EXCEPT ![u] = [messages[u] EXCEPT !.state = state, !.leased = lease]]
    PROVE  OnlyMessage(u) /\ messages'[u].state = state
<1> DEFINE new == [messages[u] EXCEPT !.state = state, !.leased = lease]
<1>1. new \in Message
  BY Messages, ZenonT(60) DEF Message
<1>2. /\ new.attempts = messages[u].attempts /\ new.token = messages[u].token
      /\ new.state = state
  BY Messages DEF Message
<1>3. messages' = [messages EXCEPT ![u] = new]
  OBVIOUS
<1> HIDE DEF new
<1> QED
  BY <1>1, <1>2, <1>3, Messages, MessageMoves DEF OnlyMessage

LEMMA SavedMoves ==
    ASSUME TypeOK, NEW u \in Uids, NEW state \in MessageStates,
           messages' = [messages EXCEPT ![u] =
               [messages[u] EXCEPT !.saved = TRUE, !.leased = TRUE, !.state = state]]
    PROVE  OnlyMessage(u) /\ messages'[u].state = state
<1> DEFINE new == [messages[u] EXCEPT !.saved = TRUE, !.leased = TRUE, !.state = state]
<1>1. new \in Message
  BY Messages, ZenonT(60) DEF Message
<1>2. /\ new.attempts = messages[u].attempts /\ new.token = messages[u].token
      /\ new.state = state
  BY Messages DEF Message
<1>3. messages' = [messages EXCEPT ![u] = new]
  OBVIOUS
<1> HIDE DEF new
<1> QED
  BY <1>1, <1>2, <1>3, Messages, MessageMoves DEF OnlyMessage

LEMMA FailedMoves ==
    ASSUME TypeOK, NEW u \in Uids, NEW state \in MessageStates,
           messages' = [messages EXCEPT ![u] =
               [messages[u] EXCEPT !.state = state, !.waiting = TRUE, !.leased = FALSE]]
    PROVE  OnlyMessage(u) /\ messages'[u].state = state
<1> DEFINE new == [messages[u] EXCEPT !.state = state, !.waiting = TRUE, !.leased = FALSE]
<1>1. new \in Message
  BY Messages, ZenonT(60) DEF Message
<1>2. /\ new.attempts = messages[u].attempts /\ new.token = messages[u].token
      /\ new.state = state
  BY Messages DEF Message
<1>3. messages' = [messages EXCEPT ![u] = new]
  OBVIOUS
<1> HIDE DEF new
<1> QED
  BY <1>1, <1>2, <1>3, Messages, MessageMoves DEF OnlyMessage

(* A change of one message that leaves it in the tables keeps entries and     *)
(* tokens.                                                                    *)
LEMMA OnlyMessageKeeps ==
    ASSUME NEW u \in Uids, OnlyMessage(u), UNCHANGED account,
           messages[u].state # "absent", messages'[u].state # "absent"
    PROVE  SameTokens /\ SameEntries
BY DEF OnlyMessage, SameTokens, SameEntries

LEMMA NothingEntered ==
    ASSUME UNCHANGED messages,
           account'.first = account.first, account'.next = account.next,
           account'.state = "uninitialized" => account.state = "uninitialized",
           account'.state = "active" => account.state = "active" \/ account.next # 0
    PROVE  SameTokens /\ SameEntries
BY DEF SameTokens, SameEntries

LEMMA RowType ==
    ASSUME TypeOK
    PROVE  /\ NewRow \in Row
           /\ \A u \in Uids : \A k \in DOMAIN rows[u] :
                 /\ rows[u][k] \in Row /\ rows[u][k].state \in RowStates
                 /\ rows[u][k].case \in Nat /\ rows[u][k].decision \in Nat
                 /\ rows[u][k].error \in {"none", "manual_pending_conflict", "retryable", "final"}
<1>1. NewRow \in Row
  BY DEF NewRow, Row, RowStates
<1>2. ASSUME NEW u \in Uids, NEW k \in DOMAIN rows[u] PROVE rows[u][k] \in Row
  <2>1. rows[u] \in Seq(Row)
    BY DEF TypeOK
  <2> QED
    BY <2>1
<1> QED
  BY <1>1, <1>2 DEF Row

(* One row, or every row, of a message changes.                               *)
LEMMA OneRow ==
    ASSUME TypeOK, NEW u \in Uids, NEW k, NEW new \in Row, rows' = [rows EXCEPT ![u][k] = new]
    PROVE  rows' \in [Uids -> Seq(Row)]
<1>1. rows[u] \in Seq(Row)
  BY DEF TypeOK
<1>2. [rows[u] EXCEPT ![k] = new] \in Seq(Row)
  <2>1. CASE k \in DOMAIN rows[u]
    BY <1>1, <2>1
  <2>2. CASE k \notin DOMAIN rows[u]
    <3>1. [rows[u] EXCEPT ![k] = new] = rows[u]
      BY <1>1, <2>2
    <3> QED
      BY <1>1, <3>1
  <2> QED
    BY <2>1, <2>2
<1> QED
  BY <1>2 DEF TypeOK

LEMMA MappedRows ==
    ASSUME TypeOK, NEW u \in Uids, NEW new, new = [k \in DOMAIN rows[u] |-> new[k]],
           \A k \in DOMAIN rows[u] : new[k] \in Row
    PROVE  new \in Seq(Row)
<1>1. rows[u] \in Seq(Row)
  BY DEF TypeOK
<1>2. PICK n \in Nat : DOMAIN rows[u] = 1..n
  BY <1>1
<1> QED
  BY <1>2

LEMMA UnimportedType ==
    ASSUME TypeOK, NEW u \in Uids, NEW error \in {"retryable", "final"}
    PROVE  Unimported(u, error) \in Seq(Row)
<1> DEFINE new == Unimported(u, error)
<1>1. ASSUME NEW k \in DOMAIN rows[u]
      PROVE  [rows[u][k] EXCEPT !.state = "failed", !.error = error] \in Row
  BY RowType, ZenonT(60) DEF Row, RowStates
<1>2. /\ new = [k \in DOMAIN rows[u] |-> new[k]]
      /\ \A k \in DOMAIN rows[u] : new[k] \in Row
  BY <1>1, RowType DEF Unimported
<1> HIDE DEF new
<1>3. new \in Seq(Row)
  BY <1>2, MappedRows
<1> QED
  BY <1>3 DEF new

-----------------------------------------------------------------------------
\* The mailbox, time and the account

LEMMA Account ==
    ASSUME TypeOK
    PROVE  /\ account.state \in {"uninitialized", "active", "halted"}
           /\ account.first \in Nat /\ account.next \in Nat /\ account.failures \in Nat
           /\ account.waiting \in BOOLEAN
           /\ account.error \in {"none", "imap_unavailable", "invalid_credentials",
                                 "uidvalidity_changed", "operator_halt"}
           /\ mailbox.next \in 1..LastUid + 1 /\ mailbox.renumbered \in BOOLEAN
BY DEF TypeOK

LEMMA MailboxKeeps == ASSUME IInv, Arrive \/ Renumber PROVE IInv'
<1>1. UNCHANGED <<account, messages, rows, cases, operations, workers, requests>>
  BY DEF Arrive, Renumber, mailVars, processVars
<1>2. mailbox' \in [next : 1..LastUid + 1, renumbered : BOOLEAN]
  <2>1. mailbox \in [next : 1..LastUid + 1, renumbered : BOOLEAN] /\ LastUid \in Nat
    BY Bounds DEF IInv, TypeOK
  <2>2. CASE Arrive
    BY <2>1, <2>2 DEF Arrive
  <2>3. CASE Renumber
    BY <2>1, <2>3 DEF Renumber
  <2> QED
    BY <2>2, <2>3
<1>3. TypeOK'
  BY <1>1, <1>2 DEF IInv, TypeOK
<1>4. SameTokens /\ SameEntries
  BY <1>1, NothingEntered
<1>5. Claims'
  BY <1>1, <1>4, OutsideKeeps
<1>6. NoSecondCase'
  BY <1>1, CasesUnchanged DEF IInv
<1> QED
  BY <1>3, <1>5, <1>6 DEF IInv, Claims

LEMMA ClockKeeps ==
    ASSUME IInv, NEW u \in Uids, LeaseEnds(u) \/ WaitEnds(u) PROVE IInv'
<1>1. UNCHANGED <<mailbox, account, rows, cases, operations, workers, requests>>
  BY DEF LeaseEnds, WaitEnds, processVars
<1>2. OnlyMessage(u) /\ messages'[u].state = messages[u].state
  BY LeaseMoves, WaitMoves DEF LeaseEnds, WaitEnds, IInv
<1>3. TypeOK'
  BY <1>1, <1>2 DEF IInv, TypeOK, OnlyMessage
<1>4. messages[u].state # "absent"
  <2>1. messages[u].leased \/ messages[u].waiting
    BY DEF LeaseEnds, WaitEnds
  <2> QED
    BY <2>1 DEF IInv, AbsentIsNew, NoMessage
<1>5. SameTokens /\ SameEntries
  BY <1>1, <1>2, <1>4, OnlyMessageKeeps
<1>6. Claims'
  BY <1>1, <1>2, <1>5, OutsideKeeps DEF OnlyMessage
<1>7. NoSecondCase'
  BY <1>1, CasesUnchanged DEF IInv
<1> QED
  BY <1>3, <1>6, <1>7 DEF IInv, Claims

\* The table of the account.
Accounts ==
    [state : {"uninitialized", "active", "halted"}, first : Nat, next : Nat, failures : Nat,
     waiting : BOOLEAN, error : {"none", "imap_unavailable", "invalid_credentials",
                                 "uidvalidity_changed", "operator_halt"}]

LEMMA AccountKeeps == ASSUME IInv, PollDue \/ Halt \/ ResumeAccount PROVE IInv'
<1>1. UNCHANGED <<mailbox, messages, rows, cases, operations, workers, requests>>
  BY DEF PollDue, Halt, ResumeAccount, mailVars, processVars
<1>2. account \in Accounts
  BY DEF IInv, TypeOK, Accounts
<1>3. /\ account' \in Accounts
      /\ account'.first = account.first /\ account'.next = account.next
      /\ account'.state = "uninitialized" => account.state = "uninitialized"
      /\ account'.state = "active" => account.state = "active" \/ account.next # 0
  <2>1. CASE PollDue
    <3>1. account' = [account EXCEPT !.waiting = FALSE]
      BY <2>1 DEF PollDue
    <3> QED
      BY <1>2, <3>1 DEF Accounts
  <2>2. CASE Halt
    <3>1. account' = [account EXCEPT !.state = "halted", !.error = "operator_halt"]
      BY <2>2 DEF Halt
    <3> QED
      BY <1>2, <3>1 DEF Accounts
  <2>3. CASE ResumeAccount
    <3>1. /\ account' = [account EXCEPT !.state = "active", !.error = "none", !.waiting = FALSE,
                                        !.failures = 0]
          /\ account.next # 0
      BY <2>3 DEF ResumeAccount
    <3> QED
      BY <1>2, <3>1 DEF Accounts
  <2> QED
    BY <2>1, <2>2, <2>3
<1>4. TypeOK'
  BY <1>1, <1>3 DEF IInv, TypeOK, Accounts
<1>5. SameTokens /\ SameEntries
  BY <1>1, <1>3, NothingEntered
<1>6. Claims'
  BY <1>1, <1>5, OutsideKeeps
<1>7. NoSecondCase'
  BY <1>1, CasesUnchanged DEF IInv
<1> QED
  BY <1>4, <1>6, <1>7 DEF IInv, Claims

LEMMA InitializeKeeps == ASSUME IInv, Initialize PROVE IInv'
<1>1. UNCHANGED <<mailbox, messages, rows, cases, operations, workers, requests>>
  BY DEF Initialize, mailVars, processVars
<1>2. mailbox.next \in Nat \ {0} /\ account \in Accounts
  BY Bounds, Account DEF IInv, TypeOK, Accounts
<1>3. account' = [account EXCEPT !.state = "active", !.first = mailbox.next, !.next = mailbox.next]
  BY DEF Initialize
<1>4. /\ account' \in Accounts
      /\ account'.first = mailbox.next /\ account'.next = mailbox.next
      /\ account'.state = "active"
  BY <1>2, <1>3 DEF Accounts
<1>5. TypeOK'
  BY <1>1, <1>4 DEF IInv, TypeOK, Accounts
<1>6. account.next = 0 /\ account.first \in Nat
  BY <1>2 DEF Initialize, IInv, Boundary, Accounts
<1>7. \A u \in Uids : messages[u].state = "absent"
  BY <1>6, Bounds DEF IInv, CursorIsExact, Uids
<1>8. CursorIsExact' /\ Boundary' /\ AbsentIsNew'
  <2>1. CursorIsExact'
    BY <1>1, <1>2, <1>4, <1>7, Bounds DEF CursorIsExact, Uids
  <2>2. Boundary'
    BY <1>1, <1>2, <1>4 DEF IInv, Boundary
  <2>3. AbsentIsNew'
    BY <1>1 DEF IInv, AbsentIsNew
  <2> QED
    BY <2>1, <2>2, <2>3
<1>9. Holders' /\ ImportsHold' /\ FinalIsFinal' /\ RequestsFormed'
  <2>1. /\ Busy' = Busy /\ Asking' = Asking
        /\ \A w : WClaim(w)' = WClaim(w) /\ RClaim(w)' = RClaim(w)
    BY <1>1 DEF Busy, Asking, WClaim, RClaim
  <2>2. Holders'
    BY <1>1, <2>1 DEF IInv, Holders, ClaimsMade, OneHolder
  <2>3. ImportsHold'
    BY <1>1, <2>1 DEF IInv, ImportsHold, Current
  <2>4. FinalIsFinal' /\ RequestsFormed'
    BY <1>1, <2>1 DEF IInv, FinalIsFinal, Current, RequestsFormed
  <2> QED
    BY <2>2, <2>3, <2>4
<1>10. NoSecondCase'
  BY <1>1, CasesUnchanged DEF IInv
<1> QED
  BY <1>5, <1>8, <1>9, <1>10 DEF IInv

LEMMA RetryKeeps ==
    ASSUME IInv, NEW u \in Uids, NEW k \in DOMAIN rows[u], Retry(u, k) PROVE IInv'
<1>1. UNCHANGED <<mailbox, account, cases, operations, workers, requests>>
  BY DEF Retry, processVars
<1> DEFINE new == [messages[u] EXCEPT !.state = "retry_wait", !.waiting = FALSE, !.token = 0,
                                      !.leased = FALSE]
<1>2. messages' = [messages EXCEPT ![u] = new]
  BY DEF Retry
<1>3. new \in Message
  BY Messages, ZenonT(60) DEF IInv, Message, MessageStates
<1>4. new.attempts = messages[u].attempts /\ new.token = 0 /\ new.state = "retry_wait"
  BY Messages DEF IInv, Message
<1> HIDE DEF new
<1>5. /\ messages' \in [Uids -> Message]
      /\ \A v \in Uids : messages'[v].attempts <= MaxAttempts
      /\ messages'[u] = new
      /\ \A v \in Uids : v # u => messages'[v] = messages[v]
  BY <1>2, <1>3, <1>4, Messages, MessageMoves DEF IInv
<1>6. rows' \in [Uids -> Seq(Row)]
  BY OneRow, RowType DEF Retry, IInv
<1>7. TypeOK'
  BY <1>1, <1>5, <1>6 DEF IInv, TypeOK
<1>8. messages[u].state \in {"failed", "partial"} /\ messages'[u].state = "retry_wait"
  BY <1>4, <1>5 DEF Retry, Retryable
<1>9. \A v \in Uids : /\ messages'[v].attempts = messages[v].attempts
                      /\ messages'[v].token = messages[v].token \/ messages'[v].token = 0
                      /\ messages'[v].state = messages[v].state \/ v = u
  BY <1>4, <1>5
<1>10. /\ Busy' = Busy /\ Asking' = Asking
       /\ \A w : WClaim(w)' = WClaim(w) /\ RClaim(w)' = RClaim(w)
  BY <1>1 DEF Busy, Asking, WClaim, RClaim
<1>11. Holders'
  <2>1. \A v \in Uids : messages'[v].token <= messages'[v].attempts
    BY <1>9, Messages DEF IInv, Holders, ClaimsMade
  <2> QED
    BY <1>1, <1>9, <1>10, <2>1 DEF IInv, Holders, ClaimsMade, OneHolder
<1>12. ASSUME NEW w \in Asking, requests[w].pc = "attach" PROVE requests[w].uid # u
  BY <1>12 DEF Retry, Locked, Asking
<1>13. ImportsHold'
  <2>1. \A w \in Asking : requests[w].uid \in Uids
    BY DEF IInv, Holders, ClaimsMade
  <2> QED
    BY <1>1, <1>5, <1>10, <1>12, <2>1 DEF IInv, ImportsHold, Current
<1>14. FinalIsFinal'
  BY <1>1, <1>5, <1>8, <1>10 DEF IInv, FinalIsFinal, Final, Current
<1>15. SameEntries
  BY <1>1, <1>5, <1>8 DEF SameEntries
<1>16. AbsentIsNew' /\ Boundary' /\ CursorIsExact'
  BY <1>1, <1>15, EntriesKept DEF IInv
<1>17. RequestsFormed' /\ NoSecondCase'
  BY <1>1, CasesUnchanged DEF IInv, RequestsFormed
<1> QED
  BY <1>7, <1>11, <1>13, <1>14, <1>16, <1>17 DEF IInv

-----------------------------------------------------------------------------
\* Cases

LEMMA Cases ==
    ASSUME TypeOK
    PROVE  /\ cases \in Seq(Case) /\ Len(cases) \in Nat /\ DOMAIN cases = 1..Len(cases)
           /\ \A n \in DOMAIN cases :
                 /\ cases[n] \in Case /\ cases[n].content \in Contents /\ cases[n].decided \in BOOLEAN
                 /\ cases[n].read \in BOOLEAN /\ cases[n].decisions \in Nat /\ cases[n].mail \in BOOLEAN
<1>1. cases \in Seq(Case)
  BY DEF TypeOK
<1>2. \A n \in DOMAIN cases : cases[n] \in Case
  BY <1>1
<1> QED
  BY <1>1, <1>2 DEF Case

(* A new case breaks nothing when mail makes it of new content only.          *)
LEMMA CaseAdded ==
    ASSUME TypeOK, NoSecondCase, NEW new \in Case, cases' = Append(cases, new),
           new.mail => CaseOf(new.content) = 0
    PROVE  cases' \in Seq(Case) /\ NoSecondCase'
<1>1. /\ cases \in Seq(Case) /\ Len(cases) \in Nat /\ DOMAIN cases = 1..Len(cases)
  BY Cases
<1>2. /\ cases' \in Seq(Case) /\ DOMAIN cases' = 1..Len(cases) + 1
      /\ \A n \in DOMAIN cases : cases'[n] = cases[n]
      /\ cases'[Len(cases) + 1] = new
  BY <1>1
<1>3. ASSUME NEW n \in DOMAIN cases', cases'[n].mail,
             NEW f, f = cases'[n].content
      PROVE  CaseOf(f)' = n
  <2> DEFINE same == {m \in DOMAIN cases' : cases'[m].content = f}
  <2>1. same \in SUBSET Nat /\ n \in same
    BY <1>1, <1>2, <1>3
  <2>2. \A m \in same : n <= m
    <3>1. CASE n \in DOMAIN cases
      <4>1. CaseOf(f) = n
        BY <1>2, <1>3, <3>1 DEF NoSecondCase
      <4>2. \A m \in DOMAIN cases : cases[m].content = f => n <= m
        BY <1>1, <3>1, <4>1, CaseOfContent
      <4> QED
        BY <1>1, <1>2, <3>1, <4>2
    <3>2. CASE n \notin DOMAIN cases
      <4>1. n = Len(cases) + 1 /\ f = new.content
        BY <1>1, <1>2, <1>3, <3>2
      <4>2. \A m \in DOMAIN cases : cases[m].content # f
        BY <1>1, <1>2, <1>3, <4>1, CaseOfContent
      <4> QED
        BY <1>1, <1>2, <4>1, <4>2
    <3> QED
      BY <3>1, <3>2
  <2>3. (CHOOSE x \in same : \A m \in same : x <= m) = n
    BY <2>1, <2>2, FirstIs
  <2>4. CaseOf(f)' = IF same = {} THEN 0 ELSE CHOOSE x \in same : \A m \in same : x <= m
    BY DEF CaseOf
  <2> QED
    BY <2>1, <2>3, <2>4
<1> QED
  BY <1>2, <1>3 DEF NoSecondCase

(* A decision or a new reading changes neither content nor origin of a case.  *)
LEMMA PeopleChange ==
    ASSUME TypeOK, NEW n \in DOMAIN cases, DecideByHand(n) \/ ReadAgain(n)
    PROVE  /\ cases' \in Seq(Case) /\ DOMAIN cases' = DOMAIN cases
           /\ \A m \in DOMAIN cases : cases'[m].content = cases[m].content
                                      /\ cases'[m].mail = cases[m].mail
<1>1. PICK new \in Case : /\ cases' = [cases EXCEPT ![n] = new]
                          /\ new.content = cases[n].content /\ new.mail = cases[n].mail
  <2>1. CASE DecideByHand(n)
    <3> DEFINE new == [cases[n] EXCEPT !.decided = TRUE,
                                       !.decisions = cases[n].decisions + 1]
    <3>1. cases[n].decisions + 1 \in Nat
      BY Cases
    <3>2. new \in Case /\ new.content = cases[n].content /\ new.mail = cases[n].mail
      BY <3>1, Cases DEF Case
    <3>3. cases' = [cases EXCEPT ![n] = new]
      BY <2>1, Cases DEF DecideByHand, Case
    <3> QED
      BY <3>2, <3>3
  <2>2. CASE ReadAgain(n)
    <3> DEFINE new == [cases[n] EXCEPT !.read = TRUE]
    <3>1. new \in Case /\ new.content = cases[n].content /\ new.mail = cases[n].mail
      BY Cases DEF Case
    <3>2. cases' = [cases EXCEPT ![n] = new]
      BY <2>2 DEF ReadAgain
    <3> QED
      BY <3>1, <3>2
  <2> QED
    BY <2>1, <2>2
<1>2. /\ cases' \in Seq(Case) /\ DOMAIN cases' = DOMAIN cases
      /\ \A m \in DOMAIN cases : cases'[m].content = cases[m].content
                                 /\ cases'[m].mail = cases[m].mail
  BY <1>1, Cases
<1> QED
  BY <1>2

LEMMA PeopleKeep ==
    ASSUME IInv, \/ \E f \in Contents : Upload(f)
                 \/ \E n \in DOMAIN cases : DecideByHand(n) \/ ReadAgain(n)
    PROVE  IInv'
<1>1. UNCHANGED <<mailbox, account, messages, rows, operations, workers, requests>>
  BY DEF Upload, DecideByHand, ReadAgain, mailVars
<1>2. cases' \in Seq(Case) /\ NoSecondCase'
  <2>1. ASSUME NEW f \in Contents, Upload(f) PROVE cases' \in Seq(Case) /\ NoSecondCase'
    <3> DEFINE new == [content |-> f, decided |-> FALSE, read |-> TRUE, decisions |-> 0,
                       mail |-> FALSE]
    <3>1. new \in Case /\ ~new.mail /\ cases' = Append(cases, new)
      BY <2>1 DEF Upload, Case
    <3> QED
      BY <3>1, CaseAdded DEF IInv
  <2>2. ASSUME NEW n \in DOMAIN cases, DecideByHand(n) \/ ReadAgain(n)
        PROVE  cases' \in Seq(Case) /\ NoSecondCase'
    BY <2>2, PeopleChange, CasesKept DEF IInv
  <2> QED
    BY <2>1, <2>2
<1>3. TypeOK'
  BY <1>1, <1>2 DEF IInv, TypeOK
<1>4. SameTokens /\ SameEntries
  BY <1>1, NothingEntered
<1>5. Claims'
  BY <1>1, <1>4, OutsideKeeps
<1> QED
  BY <1>2, <1>3, <1>5 DEF IInv, Claims

-----------------------------------------------------------------------------
\* The worker between messages

LEMMA WorkerSet ==
    ASSUME TypeOK, NEW w \in Workers, NEW new \in Worker, workers' = [workers EXCEPT ![w] = new]
    PROVE  OnlyWorker(w) /\ workers'[w] = new
BY DEF TypeOK, OnlyWorker

LEMMA WorkerFields ==
    ASSUME TypeOK, NEW w \in Workers
    PROVE  /\ workers[w] \in Worker /\ workers[w].uid \in 0..LastUid /\ workers[w].token \in Nat
           /\ workers[w].left \in 0..PageSize /\ workers[w].cursor \in Nat
           /\ workers[w].through \in Int /\ workers[w].polls \in BOOLEAN
           /\ workers[w].permanent \in BOOLEAN /\ workers[w].loop \in {"ready", "claim"}
<1>1. workers[w] \in Worker
  BY DEF TypeOK
<1> QED
  BY <1>1 DEF Worker

LEMMA BusyFields ==
    ASSUME IInv, NEW w \in Workers, workers[w].pc \in {"manifest", "parts", "await", "fail"}
    PROVE  /\ w \in Busy /\ workers[w].uid \in Uids /\ workers[w].token # 0
           /\ workers[w].token <= messages[workers[w].uid].attempts
BY DEF IInv, Holders, ClaimsMade, Busy

(* The step of a worker that lets go of its message, whatever it was.         *)
LEMMA LetsGo ==
    ASSUME IInv, NEW w \in Workers, OnlyWorker(w), UNCHANGED <<account, messages, requests>>,
           \/ workers'[w].pc \in {"idle", "ready", "poll", "claim"}
           \/ /\ workers'[w].pc = "fail" /\ WClaim(w)' = WClaim(w)
              /\ workers[w].pc \in {"manifest", "parts", "await", "fail"}
    PROVE  Claims'
<1>1. SameTokens /\ SameEntries
  BY NothingEntered
<1>2. w \in Busy' => w \in Busy /\ WClaim(w)' = WClaim(w)
  BY DEF Busy
<1> QED
  BY <1>1, <1>2, WorkerMoves

LEMMA LeavingKeeps ==
    ASSUME IInv, NEW w \in Workers, MissManifest(w) \/ GiveUp(w) \/ Die(w) PROVE IInv'
<1>1. UNCHANGED <<mailbox, account, messages, rows, cases, operations, requests>>
  BY DEF MissManifest, GiveUp, Die, mailVars, processVars
<1>2. /\ OnlyWorker(w)
      /\ \/ workers'[w].pc = "idle"
         \/ /\ workers'[w].pc = "fail" /\ WClaim(w)' = WClaim(w)
            /\ workers[w].pc \in {"manifest", "parts", "await", "fail"}
  <2>1. CASE MissManifest(w)
    BY <2>1, GivesUpMoves DEF MissManifest, IInv, WClaim, At
  <2>2. CASE GiveUp(w)
    BY <2>2, GivesUpMoves DEF GiveUp, GivesUp, IInv, WClaim
  <2>3. CASE Die(w)
    BY <2>3, RestsMoves DEF Die, IInv
  <2> QED
    BY <2>1, <2>2, <2>3
<1>3. TypeOK'
  BY <1>1, <1>2 DEF IInv, TypeOK, OnlyWorker
<1>4. Claims'
  BY <1>1, <1>2, LetsGo
<1>5. NoSecondCase'
  BY <1>1, CasesUnchanged DEF IInv
<1> QED
  BY <1>3, <1>4, <1>5 DEF IInv, Claims

LEMMA StartCycleKeeps == ASSUME IInv, NEW w \in Workers, StartCycle(w) PROVE IInv'
<1>1. UNCHANGED <<mailbox, account, messages, rows, cases, operations, requests>>
  BY DEF StartCycle, mailVars, processVars
<1> DEFINE new == [IdleWorker EXCEPT !.pc = "ready", !.left = PageSize, !.cursor = account.next,
                                     !.polls = ~account.waiting]
<1>2. new \in Worker /\ new.pc = "ready"
  <2>1. PageSize \in 0..PageSize /\ account.next \in Nat /\ (~account.waiting) \in BOOLEAN
    BY Bounds, Account DEF IInv
  <2>2. new \in Worker
    BY <2>1, IdleType, ZenonT(60) DEF Worker
  <2> QED
    BY <2>2, IdleType DEF Worker
<1>3. workers' = [workers EXCEPT ![w] = new]
  BY DEF StartCycle
<1> HIDE DEF new
<1>4. OnlyWorker(w) /\ workers'[w].pc = "ready"
  BY <1>2, <1>3, WorkerSet DEF IInv
<1>5. TypeOK'
  BY <1>1, <1>4 DEF IInv, TypeOK, OnlyWorker
<1>6. Claims'
  BY <1>1, <1>4, LetsGo
<1>7. NoSecondCase'
  BY <1>1, CasesUnchanged DEF IInv
<1> QED
  BY <1>5, <1>6, <1>7 DEF IInv, Claims

LEMMA FailKeeps == ASSUME IInv, NEW w \in Workers, Fail(w) PROVE IInv'
<1> DEFINE u == workers[w].uid
<1>1. UNCHANGED <<mailbox, account, cases, operations, requests>> /\ workers[w].pc = "fail"
  BY DEF Fail, processVars, At
<1>2. OnlyWorker(w) /\ workers'[w].pc \in {"ready", "claim"}
  BY ClaimsNextMoves DEF Fail, IInv
<1>3. u \in Uids /\ w \in Busy /\ workers[w].token # 0
  BY <1>1, BusyFields
<1> HIDE DEF u
<1>4. \/ UNCHANGED <<messages, rows>>
      \/ /\ messages[u].token # 0
         /\ \E state \in {"failed", "retry_wait"} : messages' = [messages EXCEPT ![u] =
               [messages[u] EXCEPT !.state = state, !.waiting = TRUE, !.leased = FALSE]]
         /\ \/ UNCHANGED rows
            \/ rows' = [rows EXCEPT ![u] = Unimported(u, "retryable")]
  BY <1>3 DEF Fail, mailVars, May, Leased, u
<1>5. /\ OnlyMessage(u) \/ UNCHANGED messages
      /\ messages'[u].state \in {"failed", "retry_wait"} \/ UNCHANGED messages
      /\ messages' \in [Uids -> Message]
      /\ \A v \in Uids : messages'[v].attempts <= MaxAttempts
  <2>1. CASE UNCHANGED messages
    BY <2>1 DEF IInv, TypeOK
  <2>2. ASSUME NEW state \in {"failed", "retry_wait"}, messages' = [messages EXCEPT ![u] =
                   [messages[u] EXCEPT !.state = state, !.waiting = TRUE, !.leased = FALSE]]
        PROVE  OnlyMessage(u) /\ messages'[u].state = state
    BY <1>3, <2>2, FailedMoves DEF IInv, MessageStates, Terminal
  <2> QED
    BY <1>4, <2>1, <2>2 DEF OnlyMessage
<1>6. rows' \in [Uids -> Seq(Row)]
  <2>1. rows \in [Uids -> Seq(Row)]
    BY DEF IInv, TypeOK
  <2>2. Unimported(u, "retryable") \in Seq(Row)
    BY <1>3, UnimportedType, Zenon DEF IInv
  <2> QED
    BY <1>3, <1>4, <2>1, <2>2
<1>7. TypeOK'
  BY <1>1, <1>2, <1>5, <1>6 DEF IInv, TypeOK, OnlyWorker
<1>8. SameTokens /\ SameEntries
  <2>1. CASE UNCHANGED messages
    BY <1>1, <2>1, NothingEntered
  <2>2. CASE ~UNCHANGED messages
    <3>1. messages[u].state # "absent"
      BY <1>3, <1>4, <2>2 DEF IInv, AbsentIsNew, NoMessage
    <3> QED
      BY <1>1, <1>3, <1>5, <2>2, <3>1, OnlyMessageKeeps
  <2> QED
    BY <2>1, <2>2
<1>9. Claims'
  <2>1. \A v \in Uids : messages'[v].state \in Final => messages[v].state \in Final
    BY <1>5 DEF OnlyMessage, Final
  <2> QED
    BY <1>1, <1>2, <1>8, <2>1, WorkerMoves DEF Busy
<1>10. NoSecondCase'
  BY <1>1, CasesUnchanged DEF IInv
<1> QED
  BY <1>7, <1>9, <1>10 DEF IInv, Claims

-----------------------------------------------------------------------------
\* A claim

LEMMA UnclaimedMoves ==
    ASSUME TypeOK, NEW w \in Workers, workers' = [workers EXCEPT ![w] = Unclaimed(w)]
    PROVE  OnlyWorker(w) /\ workers'[w].pc \in {"poll", "idle"}
<1>1. Unclaimed(w) \in Worker /\ Unclaimed(w).pc \in {"poll", "idle"}
  <2> DEFINE new == [workers[w] EXCEPT !.pc = "poll"]
  <2>1. new \in Worker
    BY WorkerFields, ZenonT(60) DEF Worker
  <2>2. new.pc = "poll"
    BY WorkerFields DEF Worker
  <2>3. IdleWorker \in Worker /\ IdleWorker.pc = "idle"
    BY IdleType DEF IdleWorker
  <2>4. Unclaimed(w) = new \/ Unclaimed(w) = IdleWorker
    BY DEF Unclaimed
  <2> HIDE DEF new
  <2> QED
    BY <2>1, <2>2, <2>3, <2>4
<1> QED
  BY <1>1, WorkerSet

\* What a claim does with the message u: it ends it, or takes it over.
Ends(w, u) ==
    /\ Exhausted(u) /\ ~Locked(u)
    /\ messages' = [messages EXCEPT ![u].state = "failed"]
    /\ rows' = [rows EXCEPT ![u] = Unimported(u, "final")]
    /\ workers' = [workers EXCEPT ![w] = Unclaimed(w)]
Takes(w, u) ==
    /\ ~Exhausted(u) /\ ~Locked(u) /\ workers[w].left > 0
    /\ messages' = [messages EXCEPT ![u] =
          [messages[u] EXCEPT !.state = "importing", !.attempts = messages[u].attempts + 1,
                              !.token = messages[u].attempts + 1, !.leased = TRUE,
                              !.waiting = FALSE]]
    /\ workers' = [workers EXCEPT ![w] = Working(w, u)]
    /\ UNCHANGED rows

LEMMA ClaimCases ==
    ASSUME IInv, NEW w \in Workers, Claim(w)
    PROVE  /\ workers[w].pc \in {"ready", "claim"}
           /\ UNCHANGED <<mailbox, account, cases, operations, requests>>
           /\ \/ workers' = [workers EXCEPT ![w] = Unclaimed(w)] /\ UNCHANGED <<messages, rows>>
              \/ \E u \in Uids : /\ messages[u].state \notin Terminal \union {"absent"}
                                 /\ Ends(w, u) \/ Takes(w, u)
<1> DEFINE able == {u \in Uids : IsActive /\ workers[w].left > 0 /\ Claimable(u, At(w, "ready"))}
           u == CHOOSE v \in able : \A x \in able : v <= x
<1>1. workers[w].pc \in {"ready", "claim"}
      /\ UNCHANGED <<mailbox, account, cases, operations, requests>>
  BY DEF Claim, At, processVars
<1>2. CASE able = {}
  BY <1>1, <1>2 DEF Claim, mailVars
<1>3. CASE able # {}
  <2>1. able \in SUBSET Nat
    BY Bounds DEF Uids
  <2>2. u \in able
    BY <1>3, <2>1, FirstExists
  <2>3. IF Exhausted(u)
        THEN /\ messages' = [messages EXCEPT ![u].state = "failed"]
             /\ rows' = [rows EXCEPT ![u] = Unimported(u, "final")]
             /\ workers' = [workers EXCEPT ![w] = Unclaimed(w)]
        ELSE /\ messages' = [messages EXCEPT ![u] =
                [messages[u] EXCEPT !.state = "importing", !.attempts = messages[u].attempts + 1,
                                    !.token = messages[u].attempts + 1, !.leased = TRUE,
                                    !.waiting = FALSE]]
             /\ workers' = [workers EXCEPT ![w] = Working(w, u)]
             /\ UNCHANGED rows
    <3> HIDE <1>1, <2>1, <2>2
    <3> QED
      BY <1>3 DEF Claim
  <2> HIDE DEF u
  <2>4. u \in Uids /\ workers[w].left > 0 /\ Claimable(u, At(w, "ready"))
    BY <2>2
  <2>5. messages[u].state \notin Terminal \union {"absent"} /\ ~Locked(u)
    BY <2>4 DEF Claimable
  <2>6. Ends(w, u) \/ Takes(w, u)
    BY <2>3, <2>4, <2>5 DEF Takes, Ends
  <2> QED
    BY <1>1, <2>4, <2>5, <2>6
<1> QED
  BY <1>2, <1>3

LEMMA EndsKeeps ==
    ASSUME IInv, NEW w \in Workers, NEW u \in Uids, Ends(w, u),
           messages[u].state \notin Terminal \union {"absent"},
           UNCHANGED <<mailbox, account, cases, operations, requests>>
    PROVE  IInv'
<1>1. OnlyWorker(w) /\ workers'[w].pc \in {"poll", "idle"}
  BY UnclaimedMoves DEF Ends, IInv
<1>2. OnlyMessage(u) /\ messages'[u].state = "failed"
  BY StateMoves DEF Ends, IInv, MessageStates, Terminal
<1>3. rows' \in [Uids -> Seq(Row)]
  BY UnimportedType DEF Ends, IInv, TypeOK
<1>4. TypeOK'
  BY <1>1, <1>2, <1>3 DEF IInv, TypeOK, OnlyWorker, OnlyMessage
<1>5. SameTokens /\ SameEntries
  BY <1>2, OnlyMessageKeeps
<1>6. Claims'
  <2>1. \A v \in Uids : messages'[v].state \in Final => messages[v].state \in Final
    BY <1>2 DEF OnlyMessage, Final
  <2> QED
    BY <1>1, <1>5, <2>1, WorkerMoves DEF Busy
<1>7. NoSecondCase'
  BY CasesUnchanged DEF IInv
<1> QED
  BY <1>4, <1>6, <1>7 DEF IInv, Claims

LEMMA TakesKeeps ==
    ASSUME IInv, NEW w \in Workers, NEW u \in Uids, Takes(w, u),
           workers[w].pc \in {"ready", "claim"},
           messages[u].state \notin Terminal \union {"absent"},
           UNCHANGED <<mailbox, account, cases, operations, requests>>
    PROVE  IInv'
<1> DEFINE claim == messages[u].attempts + 1
           new == [messages[u] EXCEPT !.state = "importing", !.attempts = claim, !.token = claim,
                                      !.leased = TRUE, !.waiting = FALSE]
           worker == Working(w, u)
<1>1. /\ claim \in Nat /\ claim # 0 /\ claim <= MaxAttempts /\ claim > messages[u].attempts
  BY Messages, Bounds DEF Takes, Exhausted, IInv
<1>2. messages' = [messages EXCEPT ![u] = new]
  BY DEF Takes
<1>3. workers' = [workers EXCEPT ![w] = worker]
  BY DEF Takes
<1>4. /\ worker \in Worker /\ worker.uid = u /\ worker.token = claim
      /\ worker.pc \in {"manifest", "parts"}
  <2> DEFINE pc == IF messages[u].saved THEN "parts" ELSE "manifest"
             left == workers[w].left - 1
  <2>1. u \in 0..LastUid /\ left \in 0..PageSize /\ pc \in {"manifest", "parts"}
    BY Bounds, WorkerFields DEF Takes, Uids, IInv
  <2>2. worker = [workers[w] EXCEPT !.uid = u, !.token = claim, !.left = left, !.pc = pc]
    BY WorkerFields DEF Working, Worker, IInv
  <2> HIDE DEF claim, left, pc, worker
  <2>3. worker \in Worker
    BY <1>1, <2>1, <2>2, WorkerFields, ZenonT(60) DEF Worker, IInv
  <2>4. worker.uid = u /\ worker.token = claim /\ worker.pc = pc
    BY <2>2, WorkerFields DEF Worker, IInv
  <2> QED
    BY <2>1, <2>3, <2>4
<1> HIDE DEF claim
<1>5. new \in Message
  BY <1>1, Messages, ZenonT(60) DEF Message, MessageStates, IInv
<1>6. new.attempts = claim /\ new.token = claim /\ new.state = "importing"
  BY Messages DEF IInv, Message
<1> HIDE DEF new, worker
<1>7. /\ messages' \in [Uids -> Message]
      /\ \A v \in Uids : messages'[v].attempts <= MaxAttempts
      /\ messages'[u] = new
      /\ \A v \in Uids : v # u => messages'[v] = messages[v]
  BY <1>1, <1>2, <1>5, <1>6, MessageMoves DEF IInv
<1>8. OnlyWorker(w) /\ workers'[w] = worker
  BY <1>3, <1>4, WorkerSet DEF IInv
<1>9. TypeOK'
  BY <1>7, <1>8 DEF IInv, TypeOK, OnlyWorker, Takes
<1>10. /\ Asking' = Asking /\ \A v : RClaim(v)' = RClaim(v)
       /\ w \notin Busy /\ Busy' = Busy \union {w}
       /\ \A v \in Busy : v # w /\ workers'[v] = workers[v] /\ WClaim(v)' = WClaim(v)
       /\ WClaim(w)' = <<u, claim>> /\ workers'[w].pc \in {"manifest", "parts"}
       /\ workers'[w].uid = u /\ workers'[w].token = claim
  BY <1>4, <1>8 DEF Busy, Asking, WClaim, RClaim, OnlyWorker
<1>11. /\ \A v \in Busy : WClaim(v) # <<u, claim>>
       /\ \A v \in Asking : RClaim(v) # <<u, claim>>
  <2>1. ASSUME NEW v \in Busy PROVE WClaim(v) # <<u, claim>>
    BY <1>1, Messages DEF IInv, Holders, ClaimsMade, WClaim
  <2>2. ASSUME NEW v \in Asking PROVE RClaim(v) # <<u, claim>>
    BY <1>1, Messages DEF IInv, Holders, ClaimsMade, RClaim
  <2> QED
    BY <2>1, <2>2
<1>12. ClaimsMade'
  <2>1. \A v \in Uids : /\ messages'[v].token <= messages'[v].attempts
                        /\ messages[v].attempts <= messages'[v].attempts
                        /\ messages[v].attempts \in Nat /\ messages'[v].attempts \in Nat
    <3>1. claim <= claim
      BY <1>1
    <3>2. messages[u].attempts <= claim
      BY <1>1, Messages DEF IInv
    <3>3. \A v \in Uids : messages[v].attempts <= messages[v].attempts
      BY Messages DEF IInv
    <3> QED
      BY <1>1, <1>6, <1>7, <3>1, <3>2, <3>3, Messages DEF IInv, Holders, ClaimsMade
  <2>2. ASSUME NEW v \in Busy'
        PROVE  /\ workers'[v].uid \in Uids /\ workers'[v].token # 0
               /\ workers'[v].token <= messages'[workers'[v].uid].attempts
    <3>1. CASE v = w
      BY <1>1, <1>6, <1>7, <1>10, <3>1
    <3>2. CASE v # w
      <4>1. v \in Busy /\ workers'[v] = workers[v] /\ workers[v].token \in Nat
        BY <1>10, <3>2, WorkerFields DEF Busy, IInv
      <4> QED
        BY <2>1, <4>1 DEF IInv, Holders, ClaimsMade
    <3> QED
      BY <3>1, <3>2
  <2>3. ASSUME NEW v \in Asking'
        PROVE  /\ requests'[v].uid \in Uids /\ requests'[v].token # 0
               /\ requests'[v].token <= messages'[requests'[v].uid].attempts
    <3>1. v \in Asking /\ requests'[v] = requests[v]
      BY <1>10
    <3>2. requests[v].token \in Nat
      BY <3>1 DEF IInv, TypeOK, Request, Asking
    <3> QED
      BY <2>1, <3>1, <3>2 DEF IInv, Holders, ClaimsMade
  <2> QED
    BY <2>1, <2>2, <2>3 DEF ClaimsMade
<1>13. OneHolder'
  <2>1. \A v, x \in Busy' : v # x => WClaim(v)' # WClaim(x)'
    BY <1>10, <1>11 DEF IInv, Holders, OneHolder
  <2>2. \A v, x \in Asking' : v # x => RClaim(v)' # RClaim(x)'
    BY <1>10 DEF IInv, Holders, OneHolder
  <2>3. \A v \in Busy', x \in Asking' :
            WClaim(v)' = RClaim(x)' => v = x /\ workers'[v].pc \in {"await", "fail"}
    BY <1>10, <1>11 DEF IInv, Holders, OneHolder
  <2>4. \A v \in Busy' : workers'[v].pc = "await" => v \in Asking' /\ RClaim(v)' = WClaim(v)'
    BY <1>10 DEF IInv, Holders, OneHolder
  <2> QED
    BY <2>1, <2>2, <2>3, <2>4 DEF OneHolder
<1>14. ImportsHold'
  <2>1. ASSUME NEW v \in Asking, requests[v].pc = "attach"
        PROVE  requests[v].uid \in Uids /\ requests[v].uid # u
    BY <2>1 DEF Takes, Locked, Asking, IInv, Holders, ClaimsMade
  <2> QED
    BY <1>7, <1>10, <2>1 DEF IInv, ImportsHold, Current
<1>15. FinalIsFinal'
  <2> SUFFICES ASSUME NEW x \in Uids, messages'[x].state \in Final
               PROVE  /\ \A v \in Busy' : workers'[v].pc = "manifest" => ~Current(x, WClaim(v))'
                      /\ \A v \in Asking' : requests'[v].pc # "attach" => ~Current(x, RClaim(v))'
    BY DEF FinalIsFinal
  <2>1. x # u /\ messages'[x] = messages[x]
    BY <1>6, <1>7 DEF Final
  <2>2. ~Current(x, WClaim(w))'
    BY <1>10, <2>1 DEF Current
  <2> QED
    BY <1>10, <2>1, <2>2 DEF IInv, FinalIsFinal, Current
<1>16. AbsentIsNew' /\ Boundary' /\ CursorIsExact'
  <2>1. SameEntries
    BY <1>6, <1>7 DEF SameEntries
  <2>2. \A v \in Workers : workers'[v].pc = "discover" => workers'[v] = workers[v]
    BY <1>8, <1>10 DEF OnlyWorker
  <2> QED
    BY <2>1, <2>2, EntriesKept DEF IInv
<1>17. RequestsFormed' /\ NoSecondCase'
  BY CasesUnchanged DEF IInv, RequestsFormed
<1> QED
  BY <1>9, <1>12, <1>13, <1>14, <1>15, <1>16, <1>17 DEF IInv, Holders

LEMMA ClaimKeeps == ASSUME IInv, NEW w \in Workers, Claim(w) PROVE IInv'
<1>1. /\ workers[w].pc \in {"ready", "claim"}
      /\ UNCHANGED <<mailbox, account, cases, operations, requests>>
  BY ClaimCases
<1>2. CASE workers' = [workers EXCEPT ![w] = Unclaimed(w)] /\ UNCHANGED <<messages, rows>>
  <2>1. OnlyWorker(w) /\ workers'[w].pc \in {"poll", "idle"}
    BY <1>2, UnclaimedMoves DEF IInv
  <2>2. TypeOK'
    BY <1>1, <1>2, <2>1 DEF IInv, TypeOK, OnlyWorker
  <2>3. Claims'
    BY <1>1, <1>2, <2>1, LetsGo
  <2>4. NoSecondCase'
    BY <1>1, CasesUnchanged DEF IInv
  <2> QED
    BY <2>2, <2>3, <2>4 DEF IInv, Claims
<1>3. ASSUME NEW u \in Uids, messages[u].state \notin Terminal \union {"absent"},
             Ends(w, u) \/ Takes(w, u)
      PROVE  IInv'
  BY <1>1, <1>3, EndsKeeps, TakesKeeps
<1> QED
  BY <1>2, <1>3, ClaimCases

-----------------------------------------------------------------------------
\* A poll

LEMMA PollKeeps == ASSUME IInv, NEW w \in Workers, Poll(w) PROVE IInv'
<1>1. UNCHANGED <<mailbox, messages, rows, cases, operations, requests>> /\ workers[w].pc = "poll"
  BY DEF Poll, mailVars, processVars, At
<1>2. /\ OnlyWorker(w)
      /\ workers'[w].pc \in {"idle", "discover"}
      /\ workers'[w].pc = "discover" => workers'[w].cursor <= workers'[w].through + 1
  <2>1. CASE Rests(w)
    BY <2>1, RestsMoves DEF IInv
  <2>2. CASE ~Rests(w)
    <3> DEFINE cursor == workers[w].cursor
               through == IF mailbox.next - 1 < cursor THEN cursor - 1
                          ELSE IF mailbox.next - 1 < cursor + PageSize - 1
                          THEN mailbox.next - 1 ELSE cursor + PageSize - 1
               new == [workers[w] EXCEPT !.pc = "discover", !.through = through]
    <3>1. workers' = [workers EXCEPT ![w].pc = "discover", ![w].through = through]
      BY <2>2 DEF Poll
    <3>2. through \in Int /\ cursor <= through + 1
      <4>1. cursor \in Nat /\ mailbox.next \in Nat /\ PageSize \in Nat \ {0}
        BY Bounds, WorkerFields, Account DEF IInv
      <4> HIDE DEF cursor
      <4> QED
        BY <4>1
    <3> HIDE DEF through
    <3>3. new \in Worker
      BY <3>2, WorkerFields, ZenonT(60) DEF Worker, IInv
    <3>4. new.pc = "discover" /\ new.cursor = cursor /\ new.through = through
      BY WorkerFields DEF Worker, IInv
    <3>5. workers' = [workers EXCEPT ![w] = new]
      BY <3>1 DEF IInv, TypeOK
    <3> HIDE DEF new
    <3> QED
      BY <3>2, <3>3, <3>4, <3>5, WorkerSet DEF IInv
  <2> QED
    BY <2>1, <2>2
<1>3. /\ account' \in Accounts
      /\ account'.first = account.first /\ account'.next = account.next
      /\ account'.state = "uninitialized" => account.state = "uninitialized"
      /\ account'.state = "active" => account.state = "active" \/ account.next # 0
  <2>1. account \in Accounts
    BY DEF IInv, TypeOK, Accounts
  <2>2. CASE UNCHANGED account
    BY <2>1, <2>2
  <2>3. ASSUME NEW error \in {"imap_unavailable", "invalid_credentials", "uidvalidity_changed"},
               PollFailed(error)
        PROVE  /\ account' \in Accounts
               /\ account'.first = account.first /\ account'.next = account.next
               /\ account'.state = "uninitialized" => account.state = "uninitialized"
               /\ account'.state = "active" => account.state = "active" \/ account.next # 0
    <3>1. PICK state \in {"halted", account.state} :
             account' = [account EXCEPT !.failures = account.failures + 1, !.waiting = TRUE,
                                        !.error = error, !.state = state]
      BY <2>1, <2>3 DEF PollFailed, Accounts
    <3>2. account.failures + 1 \in Nat /\ state \in {"uninitialized", "active", "halted"}
      BY <2>1 DEF Accounts
    <3>3. account' \in Accounts
      BY <2>1, <2>3, <3>1, <3>2 DEF Accounts
    <3> QED
      BY <2>1, <3>1, <3>3 DEF Accounts
  <2> QED
    BY <2>2, <2>3 DEF Poll
<1>4. TypeOK'
  BY <1>1, <1>2, <1>3 DEF IInv, TypeOK, OnlyWorker, Accounts
<1>5. SameTokens /\ SameEntries
  BY <1>1, <1>3, NothingEntered
<1>6. Claims'
  <2>1. w \notin Busy'
    BY <1>2 DEF Busy
  <2> QED
    BY <1>1, <1>2, <1>5, <2>1, WorkerMoves
<1>7. NoSecondCase'
  BY <1>1, CasesUnchanged DEF IInv
<1> QED
  BY <1>4, <1>6, <1>7 DEF IInv, Claims

LEMMA DiscoverKeeps == ASSUME IInv, NEW w \in Workers, Discover(w) PROVE IInv'
<1>1. UNCHANGED <<mailbox, rows, cases, operations, requests>> /\ workers[w].pc = "discover"
  BY DEF Discover, processVars, At
<1>2. NoSecondCase'
  BY <1>1, CasesUnchanged DEF IInv
<1>3. CASE Rests(w) /\ UNCHANGED <<messages, account>>
  <2>1. OnlyWorker(w) /\ workers'[w].pc = "idle"
    BY <1>3, RestsMoves DEF IInv
  <2>2. TypeOK'
    BY <1>1, <1>3, <2>1 DEF IInv, TypeOK, OnlyWorker
  <2>3. Claims'
    BY <1>1, <1>3, <2>1, LetsGo
  <2> QED
    BY <1>2, <2>2, <2>3 DEF IInv, Claims
<1>4. CASE ~(Rests(w) /\ UNCHANGED <<messages, account>>)
  <2> DEFINE through == workers[w].through
             entered == [NoMessage EXCEPT !.state = "discovered"]
             worker == [IdleWorker EXCEPT !.pc = "claim", !.loop = "claim", !.left = PageSize]
  <2>1. /\ IsActive /\ workers[w].cursor = account.next
        /\ messages' = [u \in Uids |->
              IF account.next <= u /\ u <= through /\ messages[u] = NoMessage
              THEN entered ELSE messages[u]]
        /\ account' = [account EXCEPT !.next = through + 1, !.failures = 0,
                                      !.waiting = FALSE, !.error = "none"]
        /\ workers' = [workers EXCEPT ![w] = worker]
    BY <1>4 DEF Discover
  <2>2. /\ account.next <= through + 1 /\ through \in Int /\ account.next \in Nat
        /\ through + 1 \in Nat \ {0} /\ account.first \in Nat /\ account.first <= account.next
        /\ account.next # 0
    <3>1. /\ account.next <= through + 1 /\ account.first <= account.next /\ account.next # 0
      BY <1>1, <2>1 DEF IInv, Boundary, IsActive
    <3> QED
      BY <3>1, WorkerFields, Account DEF IInv
  <2>3. /\ account' \in Accounts /\ account'.first = account.first
        /\ account'.next = through + 1 /\ account'.state = "active"
    <3>1. account \in Accounts
      BY DEF IInv, TypeOK, Accounts
    <3> HIDE DEF through
    <3> QED
      BY <2>1, <2>2, <3>1 DEF Accounts, IsActive
  <2>4. worker \in Worker /\ worker.pc = "claim"
    <3>1. PageSize \in 0..PageSize
      BY Bounds
    <3>2. worker \in Worker
      BY <3>1, IdleType, ZenonT(60) DEF Worker
    <3> QED
      BY <3>2, IdleType DEF Worker
  <2>5. /\ entered \in Message /\ entered.attempts = 0 /\ entered.token = 0
        /\ entered.state = "discovered" /\ entered # NoMessage
        /\ NoMessage.attempts = 0 /\ NoMessage.token = 0 /\ NoMessage.state = "absent"
    BY DEF NoMessage, Message, MessageStates
  <2> HIDE DEF worker, entered, through
  <2>6. OnlyWorker(w) /\ workers'[w].pc = "claim"
    BY <2>1, <2>4, WorkerSet DEF IInv
  <2>7. /\ messages' \in [Uids -> Message]
        /\ \A u \in Uids : messages'[u].attempts <= MaxAttempts
    BY <2>1, <2>5, Bounds DEF IInv, TypeOK
  <2>8. TypeOK'
    BY <1>1, <2>3, <2>6, <2>7 DEF IInv, TypeOK, OnlyWorker, Accounts
  <2>9. SameTokens
    BY <2>1, <2>5 DEF SameTokens
  <2>10. \A u \in Uids : messages'[u].state \in Final => messages[u].state \in Final
    BY <2>1, <2>5 DEF Final
  <2>11. OnlyRequest(w) /\ Asking' = Asking /\ \A v : RClaim(v)' = RClaim(v)
    BY <1>1 DEF IInv, TypeOK, OnlyRequest, Asking, RClaim
  <2>12. w \notin Busy' /\ workers'[w].pc = "claim"
    BY <2>6 DEF Busy
  <2>13. Holders'
    BY <2>6, <2>9, <2>11, <2>12, HoldersKept DEF IInv
  <2>14. ImportsHold'
    BY <1>1, <2>9, <2>11, ImportsKept DEF IInv
  <2>15. FinalIsFinal'
    BY <1>1, <2>6, <2>9, <2>10, <2>11, FinalKept DEF IInv
  <2>16. RequestsFormed'
    BY <1>1 DEF IInv, RequestsFormed
  <2>17. CursorIsExact'
    <3> SUFFICES ASSUME NEW u \in Uids
                 PROVE  messages'[u].state # "absent" <=> account.first <= u /\ u < through + 1
      BY <2>3 DEF CursorIsExact
    <3>1. u \in Nat /\ (messages[u].state # "absent" <=> account.first <= u /\ u < account.next)
      BY Bounds DEF IInv, CursorIsExact, Uids
    <3>2. messages[u].state = "absent" <=> messages[u] = NoMessage
      BY <2>5 DEF IInv, AbsentIsNew
    <3>3. messages'[u].state # "absent" <=>
             messages[u].state # "absent" \/ (account.next <= u /\ u <= through)
      BY <2>1, <2>5, <3>2
    <3> QED
      BY <2>2, <3>1, <3>3
  <2>18. AbsentIsNew'
    BY <2>1, <2>5 DEF IInv, AbsentIsNew
  <2>19. Boundary'
    <3>1. \A v \in Workers : workers'[v].pc = "discover" => workers'[v] = workers[v]
      BY <2>6 DEF OnlyWorker
    <3> QED
      BY <2>2, <2>3, <3>1 DEF IInv, Boundary
  <2> QED
    BY <1>2, <2>8, <2>13, <2>14, <2>15, <2>16, <2>17, <2>18, <2>19 DEF IInv
<1> QED
  BY <1>3, <1>4

-----------------------------------------------------------------------------
\* The steps of a worker with a message

(* A worker that may write holds the last claim of its message.               *)
LEMMA MayIsCurrent ==
    ASSUME IInv, NEW w \in Workers, workers[w].pc \in {"manifest", "parts"}, May(w)
    PROVE  /\ workers[w].uid \in Uids /\ w \in Busy
           /\ Current(workers[w].uid, WClaim(w))
           /\ messages[workers[w].uid].state # "absent"
<1>1. /\ workers[w].uid \in Uids /\ w \in Busy /\ workers[w].token # 0
      /\ messages[workers[w].uid].token = workers[w].token
  BY BusyFields DEF May, Leased
<1>2. messages[workers[w].uid].state # "absent"
  BY <1>1 DEF IInv, AbsentIsNew, NoMessage
<1> QED
  BY <1>1, <1>2 DEF Current, WClaim

(* What a worker does that gets a conflict.                                   *)
LEMMA GivesUpKeeps ==
    ASSUME IInv, NEW w \in Workers, workers[w].pc \in {"manifest", "parts"}, GivesUp(w),
           UNCHANGED <<mailbox, account, messages, rows, cases, operations, requests>>
    PROVE  IInv'
<1>1. OnlyWorker(w) /\ workers'[w].pc = "fail" /\ WClaim(w)' = WClaim(w)
  BY GivesUpMoves DEF GivesUp, IInv, WClaim
<1>2. TypeOK'
  BY <1>1 DEF IInv, TypeOK, OnlyWorker
<1>3. Claims'
  BY <1>1, LetsGo
<1>4. NoSecondCase'
  BY CasesUnchanged DEF IInv
<1> QED
  BY <1>2, <1>3, <1>4 DEF IInv, Claims

LEMMA ManifestKeeps == ASSUME IInv, NEW w \in Workers, Manifest(w) PROVE IInv'
<1> DEFINE u == workers[w].uid
           state == IF Parts[u] = <<>> THEN "ignored" ELSE "importing"
<1>1. UNCHANGED <<mailbox, account, cases, operations, requests>> /\ workers[w].pc = "manifest"
  BY DEF Manifest, processVars, At
<1>2. CASE ~May(w)
  BY <1>1, <1>2, GivesUpKeeps DEF Manifest, mailVars
<1>3. CASE May(w)
  <2>1. /\ u \in Uids /\ w \in Busy /\ Current(u, WClaim(w)) /\ messages[u].state # "absent"
    BY <1>1, <1>3, MayIsCurrent
  <2>2. messages' = [messages EXCEPT ![u] =
            [messages[u] EXCEPT !.saved = TRUE, !.leased = TRUE, !.state = state]]
    <3> HIDE DEF state
    <3>1. messages' = [messages EXCEPT ![u].saved = TRUE, ![u].leased = TRUE, ![u].state = state]
      BY <1>3 DEF Manifest, state
    <3>2. messages \in [Uids -> Message] /\ u \in Uids
      BY <2>1 DEF IInv, TypeOK
    <3> HIDE DEF u
    <3> QED
      BY <3>1, <3>2
  <2>3. rows' = [rows EXCEPT ![u] = [k \in DOMAIN Parts[u] |-> NewRow]]
    BY <1>3 DEF Manifest
  <2>4. \/ state = "ignored" /\ ClaimsNext(w)
        \/ state = "importing" /\ Goes(w, "parts")
    BY <1>3 DEF Manifest
  <2>5. state \in MessageStates /\ state # "absent"
    BY DEF MessageStates, Terminal
  <2>6. [k \in DOMAIN Parts[u] |-> NewRow] \in Seq(Row)
    <3>1. Parts[u] \in Seq(SUBSET (Contents \union {Invalid, Refused}))
      BY <2>1, Bounds
    <3>2. PICK n \in Nat : DOMAIN Parts[u] = 1..n
      BY <3>1
    <3> QED
      BY <3>2, RowType DEF IInv
  <2> HIDE DEF u, state
  <2>7. OnlyMessage(u) /\ messages'[u].state = state
    BY <2>1, <2>2, <2>5, SavedMoves DEF IInv
  <2>8. rows' \in [Uids -> Seq(Row)]
    BY <2>3, <2>6 DEF IInv, TypeOK
  <2>9. /\ OnlyWorker(w)
        /\ \/ state = "ignored" /\ workers'[w].pc \in {"ready", "claim"}
           \/ state = "importing" /\ workers'[w].pc = "parts" /\ WClaim(w)' = WClaim(w)
    BY <2>4, ClaimsNextMoves, GoesMoves DEF IInv, WClaim, WorkerPlaces
  <2>10. TypeOK'
    BY <1>1, <2>7, <2>8, <2>9 DEF IInv, TypeOK, OnlyWorker, OnlyMessage
  <2>11. SameTokens /\ SameEntries
    BY <1>1, <2>1, <2>5, <2>7, OnlyMessageKeeps
  <2>12. Claims'
    <3>1. \A v \in Uids : messages'[v].state \in Final =>
             \/ messages[v].state \in Final
             \/ workers[w].pc \in {"manifest", "parts"} /\ Current(v, WClaim(w))
                /\ workers'[w].pc # "manifest"
      BY <1>1, <2>1, <2>7, <2>9 DEF OnlyMessage
    <3> QED
      BY <1>1, <2>1, <2>9, <2>11, <3>1, WorkerMoves DEF Busy
  <2>13. NoSecondCase'
    BY <1>1, CasesUnchanged DEF IInv
  <2> QED
    BY <2>10, <2>12, <2>13 DEF IInv, Claims
<1> QED
  BY <1>2, <1>3

LEMMA RejectPartKeeps == ASSUME IInv, NEW w \in Workers, RejectPart(w) PROVE IInv'
<1> DEFINE u == workers[w].uid
           k == NextPart(u)
<1>1. UNCHANGED <<mailbox, account, cases, operations, requests>> /\ workers[w].pc = "parts"
  BY DEF RejectPart, processVars, At
<1>2. CASE ~May(w)
  BY <1>1, <1>2, GivesUpKeeps DEF RejectPart, mailVars
<1>3. CASE May(w)
  <2>1. u \in Uids /\ messages[u].state # "absent"
    BY <1>1, <1>3, MayIsCurrent
  <2>2. UNCHANGED workers /\ messages' = [messages EXCEPT ![u].leased = TRUE]
    BY <1>3 DEF RejectPart
  <2>3. PICK error \in {"retryable", "final"} :
           rows' = [rows EXCEPT ![u][k].state = "failed", ![u][k].error = error]
    BY <1>3 DEF RejectPart
  <2>4. k \in DOMAIN rows[u]
    <3>1. Discovered(u) # {} /\ Discovered(u) \in SUBSET Nat /\ Discovered(u) \subseteq DOMAIN rows[u]
      <4>1. rows[u] \in Seq(Row)
        BY <2>1 DEF IInv, TypeOK
      <4>2. Discovered(u) # {}
        BY DEF RejectPart
      <4>3. Discovered(u) \subseteq DOMAIN rows[u]
        BY DEF Discovered
      <4>4. DOMAIN rows[u] \subseteq Nat
        BY <4>1
      <4> HIDE DEF u
      <4> QED
        BY <4>2, <4>3, <4>4
    <3>2. k \in Discovered(u)
      BY <3>1, FirstExists DEF NextPart
    <3> QED
      BY <3>1, <3>2
  <2> HIDE DEF u, k
  <2>5. rows' \in [Uids -> Seq(Row)]
    <3> DEFINE new == [rows[u][k] EXCEPT !.state = "failed", !.error = error]
    <3>1. new \in Row
      BY <2>1, <2>4, RowType, ZenonT(60) DEF Row, RowStates, IInv
    <3>2. rows \in [Uids -> Seq(Row)] /\ rows[u] \in Seq(Row)
      BY <2>1 DEF IInv, TypeOK
    <3>3. rows' = [rows EXCEPT ![u][k] = new]
      BY <2>1, <2>3, <2>4, <3>2
    <3> HIDE DEF new
    <3> QED
      BY <2>1, <3>1, <3>3, OneRow DEF IInv
  <2>6. OnlyMessage(u) /\ messages'[u].state = messages[u].state
    BY <2>1, <2>2, LeaseMoves DEF IInv
  <2>7. TypeOK'
    BY <1>1, <2>2, <2>5, <2>6 DEF IInv, TypeOK, OnlyMessage
  <2>8. SameTokens /\ SameEntries
    BY <1>1, <2>1, <2>6, OnlyMessageKeeps
  <2>9. Claims'
    BY <1>1, <2>2, <2>6, <2>8, OutsideKeeps DEF OnlyMessage
  <2>10. NoSecondCase'
    BY <1>1, CasesUnchanged DEF IInv
  <2> QED
    BY <2>7, <2>9, <2>10 DEF IInv, Claims
<1> QED
  BY <1>2, <1>3

-----------------------------------------------------------------------------
\* Requests

LEMMA RequestSet ==
    ASSUME TypeOK, NEW w \in Workers, NEW new \in Request, requests' = [requests EXCEPT ![w] = new]
    PROVE  OnlyRequest(w) /\ requests'[w] = new
BY DEF TypeOK, OnlyRequest

LEMMA RequestFields ==
    ASSUME TypeOK, NEW w \in Workers
    PROVE  /\ requests[w] \in Request /\ requests[w].uid \in 0..LastUid
           /\ requests[w].pc \in {"none", "attach", "run", "complete"}
           /\ requests[w].token \in Nat /\ requests[w].part \in Nat /\ requests[w].match \in Nat
           /\ requests[w].content \in Contents \union {"none"}
           /\ requests[w].key \in Key \union {[uid |-> 0, parts |-> {}]}
           /\ requests[w].selection \in SUBSET Nat
<1>1. requests[w] \in Request
  BY DEF TypeOK
<1> QED
  BY <1>1 DEF Request

LEMMA AskingFields ==
    ASSUME IInv, NEW w \in Workers, requests[w].pc # "none"
    PROVE  /\ w \in Asking /\ requests[w].uid \in Uids /\ requests[w].token # 0
           /\ requests[w].token <= messages[requests[w].uid].attempts
BY DEF IInv, Holders, ClaimsMade, Asking

LEMMA OutcomeIsTerminal == ASSUME NEW parts PROVE Outcome(parts) \in Terminal
BY DEF Outcome, Terminal

(* An outcome is written over one message.                                    *)
LEMMA ClosedMoves ==
    ASSUME TypeOK, NEW u \in Uids, NEW parts, messages' = Closed(u, parts)
    PROVE  OnlyMessage(u) /\ messages'[u].state \in Terminal
<1> DEFINE state == Outcome(parts)
<1>1. state \in Terminal /\ state \in MessageStates
  BY OutcomeIsTerminal DEF MessageStates
<1>2. messages' = [messages EXCEPT ![u] = [messages[u] EXCEPT !.state = state, !.leased = FALSE]]
  BY DEF Closed
<1> HIDE DEF state
<1> QED
  BY <1>1, <1>2, StateLeaseMoves

LEMMA StartImportKeeps == ASSUME IInv, NEW w \in Workers, StartImport(w) PROVE IInv'
<1> DEFINE u == workers[w].uid
           k == NextPart(u)
<1>1. UNCHANGED <<mailbox, account, messages, rows, cases, operations>> /\ workers[w].pc = "parts"
  BY DEF StartImport, processVars, mailVars, At
<1>2. CASE ~May(w)
  BY <1>1, <1>2, GivesUpKeeps DEF StartImport
<1>3. CASE May(w)
  <2>1. u \in Uids /\ Current(u, WClaim(w)) /\ messages[u].state # "absent"
    BY <1>1, <1>3, MayIsCurrent
  <2>2. PICK f \in Contents : requests' = [requests EXCEPT ![w] =
            [NoRequest EXCEPT !.pc = "attach", !.uid = u, !.token = workers[w].token,
                              !.part = k, !.content = f, !.match = CaseOf(f)]]
    BY <1>3 DEF StartImport
  <2>3. Goes(w, "await")
    BY <1>3 DEF StartImport
  <2>4. k \in Nat
    <3>1. Discovered(u) # {} /\ Discovered(u) \in SUBSET Nat
      <4>1. rows[u] \in Seq(Row)
        BY <2>1 DEF IInv, TypeOK
      <4> QED
        BY <4>1 DEF StartImport, Discovered
    <3>2. k \in Discovered(u)
      BY <3>1, FirstExists DEF NextPart
    <3> QED
      BY <3>1, <3>2
  <2>5. CaseOf(f) \in Nat
    BY CaseOfContent DEF IInv, TypeOK
  <2> DEFINE match == CaseOf(f)
             new == [NoRequest EXCEPT !.pc = "attach", !.uid = u, !.token = workers[w].token,
                                      !.part = k, !.content = f, !.match = match]
  <2>6. requests' = [requests EXCEPT ![w] = new]
    BY <2>2
  <2>7. u \in 0..LastUid /\ workers[w].token \in Nat
    BY WorkerFields DEF IInv
  <2> HIDE DEF k, match, u
  <2>8. new \in Request
    BY <2>4, <2>5, <2>7, IdleType, ZenonT(60) DEF Request, match
  <2>9. new.pc = "attach" /\ new.uid = u /\ new.token = workers[w].token /\ new.content = f
    BY IdleType DEF Request
  <2> HIDE DEF new
  <2>10. OnlyRequest(w) /\ requests'[w] = new
    BY <2>6, <2>8, RequestSet DEF IInv
  <2>11. OnlyWorker(w) /\ workers'[w].pc = "await" /\ WClaim(w)' = WClaim(w)
    BY <2>3, GoesMoves DEF IInv, WorkerPlaces, WClaim
  <2>12. RClaim(w)' = WClaim(w)
    BY <2>9, <2>10 DEF RClaim, WClaim, u
  <2>13. TypeOK'
    BY <1>1, <2>10, <2>11 DEF IInv, TypeOK, OnlyRequest, OnlyWorker
  <2>14. SameTokens /\ SameEntries
    BY <1>1, NothingEntered
  <2>15. Claims'
    BY <1>1, <2>1, <2>9, <2>10, <2>11, <2>12, <2>14, RequestStarts DEF u
  <2>16. NoSecondCase'
    BY <1>1, CasesUnchanged DEF IInv
  <2> QED
    BY <2>13, <2>15, <2>16 DEF IInv, Claims
<1> QED
  BY <1>2, <1>3

LEMMA ImportedType ==
    ASSUME TypeOK, NEW u \in Uids
    PROVE  /\ Imported(u) \in SUBSET Nat
           /\ {rows[u][k].case : k \in Imported(u)} \in SUBSET Nat
           /\ RunKey(u) \in Key
<1>1. rows[u] \in Seq(Row)
  BY DEF TypeOK
<1>2. Imported(u) \in SUBSET Nat /\ Imported(u) \subseteq DOMAIN rows[u]
  BY <1>1 DEF Imported
<1>3. {rows[u][k].case : k \in Imported(u)} \in SUBSET Nat
  BY <1>2, RowType
<1>4. RunKey(u) \in Key
  BY <1>2 DEF RunKey, Key
<1> QED
  BY <1>2, <1>3, <1>4

LEMMA FinishKeeps == ASSUME IInv, NEW w \in Workers, Finish(w) PROVE IInv'
<1> DEFINE u == workers[w].uid
<1>1. UNCHANGED <<mailbox, account, rows, cases, operations>> /\ workers[w].pc = "parts"
  BY DEF Finish, processVars, At
<1>2. CASE ~May(w)
  BY <1>1, <1>2, GivesUpKeeps DEF Finish
<1>3. CASE May(w)
  <2>1. u \in Uids /\ Current(u, WClaim(w)) /\ messages[u].state # "absent"
    BY <1>1, <1>3, MayIsCurrent
  <2>2. NoSecondCase'
    BY <1>1, CasesUnchanged DEF IInv
  <2>3. CASE messages[u].state \in Terminal
    <3>1. ClaimsNext(w) /\ UNCHANGED <<messages, requests>>
      BY <1>3, <2>3 DEF Finish
    <3>2. OnlyWorker(w) /\ workers'[w].pc \in {"ready", "claim"}
      BY <3>1, ClaimsNextMoves DEF IInv
    <3>3. TypeOK'
      BY <1>1, <3>1, <3>2 DEF IInv, TypeOK, OnlyWorker
    <3>4. Claims'
      BY <1>1, <3>1, <3>2, LetsGo
    <3> QED
      BY <2>2, <3>3, <3>4 DEF IInv, Claims
  <2>4. CASE messages[u].state \notin Terminal /\ Imported(u) = {}
    <3>1. ClaimsNext(w) /\ UNCHANGED requests /\ messages' = Closed(u, rows[u])
      BY <1>3, <2>4 DEF Finish
    <3>2. OnlyWorker(w) /\ workers'[w].pc \in {"ready", "claim"}
      BY <3>1, ClaimsNextMoves DEF IInv
    <3> HIDE DEF u
    <3>3. OnlyMessage(u) /\ messages'[u].state \in Terminal
      BY <2>1, <3>1, ClosedMoves DEF IInv
    <3>4. TypeOK'
      BY <1>1, <3>1, <3>2, <3>3 DEF IInv, TypeOK, OnlyWorker, OnlyMessage
    <3>5. SameTokens /\ SameEntries
      BY <1>1, <2>1, <3>3, OnlyMessageKeeps DEF Terminal
    <3>6. Claims'
      <4>1. \A v \in Uids : messages'[v].state \in Final =>
               \/ messages[v].state \in Final
               \/ workers[w].pc \in {"manifest", "parts"} /\ Current(v, WClaim(w))
                  /\ workers'[w].pc # "manifest"
        BY <1>1, <2>1, <3>2, <3>3 DEF OnlyMessage
      <4> QED
        BY <1>1, <3>1, <3>2, <3>5, <4>1, WorkerMoves DEF Busy
    <3> QED
      BY <2>2, <3>4, <3>6 DEF IInv, Claims
  <2>5. CASE messages[u].state \notin Terminal /\ Imported(u) # {}
    <3> DEFINE key == RunKey(u)
               selection == {rows[u][k].case : k \in Imported(u)}
               new == [NoRequest EXCEPT !.pc = "run", !.uid = u, !.token = workers[w].token,
                                        !.key = key, !.selection = selection]
    <3>1. /\ messages' = [messages EXCEPT ![u].state = "evaluating", ![u].leased = TRUE]
          /\ requests' = [requests EXCEPT ![w] = new]
          /\ Goes(w, "await")
      BY <1>3, <2>5 DEF Finish
    <3>2. key \in Key /\ selection \in SUBSET Nat /\ u \in 0..LastUid /\ workers[w].token \in Nat
      BY <2>1, ImportedType, WorkerFields DEF IInv
    <3> HIDE DEF u, key, selection
    <3>3. new \in Request
      BY <3>2, IdleType, ZenonT(60) DEF Request
    <3>4. new.pc = "run" /\ new.uid = u /\ new.token = workers[w].token /\ new.key = key
      BY IdleType DEF Request
    <3> HIDE DEF new
    <3>5. OnlyRequest(w) /\ requests'[w] = new
      BY <3>1, <3>3, RequestSet DEF IInv
    <3>6. OnlyWorker(w) /\ workers'[w].pc = "await" /\ WClaim(w)' = WClaim(w)
      BY <3>1, GoesMoves DEF IInv, WorkerPlaces, WClaim
    <3>7. RClaim(w)' = WClaim(w)
      BY <3>4, <3>5 DEF RClaim, WClaim, u
    <3>8. OnlyMessage(u) /\ messages'[u].state = "evaluating"
      <4>1. messages' = [messages EXCEPT ![u] =
                            [messages[u] EXCEPT !.state = "evaluating", !.leased = TRUE]]
        BY <2>1, <3>1 DEF IInv, TypeOK
      <4> QED
        BY <2>1, <4>1, StateLeaseMoves DEF IInv, MessageStates
    <3>9. TypeOK'
      BY <1>1, <3>5, <3>6, <3>8 DEF IInv, TypeOK, OnlyRequest, OnlyWorker, OnlyMessage
    <3>10. SameTokens /\ SameEntries
      BY <1>1, <2>1, <3>8, OnlyMessageKeeps
    <3>11. Claims'
      <4>1. \A v \in Uids : messages'[v].state \in Final => messages[v].state \in Final
        BY <3>8 DEF OnlyMessage, Final
      <4>2. messages'[workers[w].uid].state \notin Final
        BY <3>8 DEF Final, u
      <4> QED
        BY <1>1, <2>1, <3>2, <3>4, <3>5, <3>6, <3>7, <3>10, <4>1, <4>2, RequestStarts DEF u
    <3> QED
      BY <2>2, <3>9, <3>11 DEF IInv, Claims
  <2> QED
    BY <2>3, <2>4, <2>5
<1> QED
  BY <1>2, <1>3

-----------------------------------------------------------------------------
(* A request that is answered without a write.                                *)
LEMMA RefusedKeeps ==
    ASSUME IInv, NEW w \in Workers, requests[w].pc # "none", Answers(w, "fail"),
           UNCHANGED <<mailbox, account, messages, rows, cases, operations>>
    PROVE  IInv'
<1>1. /\ OnlyRequest(w) /\ requests'[w].pc = "none"
      /\ OnlyWorker(w)
      /\ workers'[w].pc = IF workers[w].pc = "await" THEN "fail" ELSE workers[w].pc
      /\ WClaim(w)' = WClaim(w)
      /\ workers[w].pc # "await" => workers'[w] = workers[w]
  BY AnswersMoves DEF IInv, Answers, Answered, At
<1>2. TypeOK'
  BY <1>1 DEF IInv, TypeOK, OnlyRequest, OnlyWorker
<1>3. SameTokens /\ SameEntries
  BY NothingEntered
<1>4. Claims'
  BY <1>1, <1>3, RequestMoves DEF Busy, Asking
<1>5. NoSecondCase'
  BY CasesUnchanged DEF IInv
<1> QED
  BY <1>2, <1>4, <1>5 DEF IInv, Claims

LEMMA RequestFailsKeeps == ASSUME IInv, NEW w \in Workers, RequestFails(w) PROVE IInv'
BY RefusedKeeps DEF RequestFails, mailVars, processVars

LEMMA DuplicateType ==
    ASSUME TypeOK, NEW n \in DOMAIN cases
    PROVE  DuplicateOf(n) \in Row
<1> DEFINE decision == cases[n].decisions
           error == IF ~cases[n].decided /\ ~OwnedCase(n) THEN "manual_pending_conflict" ELSE "none"
<1>1. DuplicateOf(n) = [state |-> "duplicate", case |-> n, decision |-> decision, error |-> error]
  BY DEF DuplicateOf
<1>2. n \in Nat /\ decision \in Nat
  BY Cases
<1>3. error \in {"none", "manual_pending_conflict", "retryable", "final"}
  OBVIOUS
<1> HIDE DEF decision, error
<1> QED
  BY <1>1, <1>2, <1>3 DEF Row, RowStates

LEMMA AttachKeeps == ASSUME IInv, NEW w \in Workers, Attach(w) PROVE IInv'
<1> DEFINE u == requests[w].uid
           k == requests[w].part
           f == requests[w].content
           n == CaseOf(f)
<1>1. UNCHANGED <<mailbox, account, operations>> /\ requests[w].pc = "attach"
      /\ Answers(w, "parts") /\ messages' = [messages EXCEPT ![u].leased = TRUE]
  BY DEF Attach
<1>2. u \in Uids /\ w \in Asking /\ Current(u, RClaim(w)) /\ messages[u].state # "absent"
  <2>1. u \in Uids /\ w \in Asking /\ requests[w].token # 0
    BY <1>1, AskingFields
  <2>2. Current(u, RClaim(w))
    BY <1>1, <2>1 DEF IInv, ImportsHold
  <2>3. messages[u].token # 0
    BY <2>1, <2>2 DEF Current, RClaim
  <2>4. messages[u].state # "absent"
    BY <2>1, <2>3 DEF IInv, AbsentIsNew, NoMessage
  <2> QED
    BY <2>1, <2>2, <2>4
<1>3. f \in Contents
  BY <1>1 DEF IInv, RequestsFormed
<1>4. PICK row \in Row :
        /\ rows' = [rows EXCEPT ![u][k] = row]
        /\ \/ UNCHANGED cases
           \/ /\ n = 0
              /\ \E new \in Case : new.content = f /\ cases' = Append(cases, new)
  <2>1. CASE n # 0
    <3>1. n \in DOMAIN cases
      BY <2>1, CaseOfContent DEF IInv, TypeOK
    <3>2. rows' = [rows EXCEPT ![u][k] = DuplicateOf(n)] /\ UNCHANGED cases
      BY <2>1 DEF Attach, SeenNow
    <3> QED
      BY <3>1, <3>2, DuplicateType DEF IInv
  <2>2. CASE n = 0
    <3> DEFINE row == [NewRow EXCEPT !.state = "imported", !.case = Len(cases) + 1]
               new(read) == [content |-> f, decided |-> FALSE, read |-> read, decisions |-> 0,
                             mail |-> TRUE]
    <3>1. rows' = [rows EXCEPT ![u][k] = row]
      BY <2>2 DEF Attach, SeenNow
    <3>2. \E read \in BOOLEAN : cases' = Append(cases, new(read))
      BY <2>2 DEF Attach, SeenNow
    <3>3. row \in Row
      <4>1. Len(cases) + 1 \in Nat
        BY Cases DEF IInv
      <4> QED
        BY <4>1 DEF NewRow, Row, RowStates
    <3>4. \A read \in BOOLEAN : new(read) \in Case /\ new(read).content = f
      BY <1>3 DEF Case
    <3> HIDE DEF row, new
    <3>5. \E x \in Case : x.content = f /\ cases' = Append(cases, x)
      BY <3>2, <3>4
    <3> QED
      BY <2>2, <3>1, <3>3, <3>5
  <2> QED
    BY <2>1, <2>2
<1>5. cases' \in Seq(Case) /\ NoSecondCase'
  <2>1. CASE UNCHANGED cases
    BY <2>1, CasesUnchanged DEF IInv, TypeOK
  <2>2. ASSUME n = 0, NEW new \in Case, new.content = f, cases' = Append(cases, new)
        PROVE  cases' \in Seq(Case) /\ NoSecondCase'
    BY <2>2, CaseAdded DEF IInv
  <2> QED
    BY <1>4, <2>1, <2>2
<1>6. rows' \in [Uids -> Seq(Row)]
  BY <1>2, <1>4, OneRow DEF IInv
<1> HIDE DEF u
<1>7. OnlyMessage(u) /\ messages'[u].state = messages[u].state
  BY <1>1, <1>2, LeaseMoves DEF IInv
<1>8. /\ OnlyRequest(w) /\ requests'[w].pc = "none" /\ OnlyWorker(w)
      /\ workers'[w].pc = IF workers[w].pc = "await" THEN "parts" ELSE workers[w].pc
      /\ WClaim(w)' = WClaim(w)
      /\ workers[w].pc # "await" => workers'[w] = workers[w]
  BY <1>1, AnswersMoves DEF IInv, Answers, Answered, At
<1>9. TypeOK'
  BY <1>1, <1>5, <1>6, <1>7, <1>8 DEF IInv, TypeOK, OnlyRequest, OnlyWorker, OnlyMessage
<1>10. SameTokens /\ SameEntries
  BY <1>1, <1>2, <1>7, OnlyMessageKeeps
<1>11. Claims'
  <2>1. \A v \in Uids : messages'[v].state \in Final => messages[v].state \in Final
    BY <1>7 DEF OnlyMessage
  <2> QED
    BY <1>2, <1>8, <1>10, <2>1, RequestMoves DEF Busy
<1> QED
  BY <1>5, <1>9, <1>11 DEF IInv, Claims

LEMMA RunKeeps == ASSUME IInv, NEW w \in Workers, Run(w) PROVE IInv'
<1> DEFINE chosen == requests[w].selection
           key == requests[w].key
           new == [requests[w] EXCEPT !.pc = "complete"]
<1>1. UNCHANGED <<mailbox, account, messages, rows>> /\ requests[w].pc = "run"
  BY DEF Run, mailVars
<1>2. CASE Answers(w, "fail") /\ UNCHANGED processVars
  BY <1>1, <1>2, RefusedKeeps DEF processVars
<1>3. CASE ~(Answers(w, "fail") /\ UNCHANGED processVars)
  <2>1. requests' = [requests EXCEPT ![w].pc = "complete"] /\ UNCHANGED workers
    BY <1>3 DEF Run
  <2>2. \/ UNCHANGED <<cases, operations>>
        \/ /\ operations' = operations \union {[key |-> key, selection |-> chosen]}
           /\ cases' = [n \in DOMAIN cases |->
                 IF n \in chosen /\ cases[n].read /\ ~cases[n].decided
                 THEN [cases[n] EXCEPT !.decided = TRUE, !.decisions = cases[n].decisions + 1]
                 ELSE cases[n]]
    <3>1. \A n \in DOMAIN cases :
            [cases[n] EXCEPT !.decided = TRUE, !.decisions = @ + 1] =
            [cases[n] EXCEPT !.decided = TRUE, !.decisions = cases[n].decisions + 1]
      BY Cases DEF IInv, Case
    <3> QED
      BY <1>3, <3>1 DEF Run, processVars
  <2>3. operations' \subseteq Operation
    <3>1. key \in Key /\ chosen \in SUBSET Nat
      BY <1>1, RequestFields DEF IInv, RequestsFormed
    <3> DEFINE op == [key |-> key, selection |-> chosen]
    <3>2. operations \subseteq Operation
      BY DEF IInv, TypeOK
    <3>3. op \in Operation
      BY <3>1, Zenon DEF Operation
    <3>4. operations' = operations \/ operations' = operations \union {op}
      BY <2>2, Zenon
    <3> HIDE DEF op
    <3> QED
      BY <3>2, <3>3, <3>4
  <2>4. /\ cases' \in Seq(Case) /\ NoSecondCase'
    <3>1. CASE UNCHANGED cases
      BY <3>1, CasesUnchanged DEF IInv, TypeOK
    <3>2. CASE ~UNCHANGED cases
      <4>1. ASSUME NEW n \in DOMAIN cases
            PROVE  LET case == [cases[n] EXCEPT !.decided = TRUE, !.decisions = cases[n].decisions + 1]
                   IN  case \in Case /\ case.content = cases[n].content /\ case.mail = cases[n].mail
        <5>1. cases[n].decisions + 1 \in Nat /\ cases[n] \in Case
          BY Cases DEF IInv
        <5> QED
          BY <5>1 DEF Case
      <4>2. /\ DOMAIN cases' = DOMAIN cases /\ DOMAIN cases = 1..Len(cases) /\ Len(cases) \in Nat
            /\ cases' = [n \in 1..Len(cases) |-> cases'[n]]
            /\ \A n \in DOMAIN cases : /\ cases'[n] \in Case
                                       /\ cases'[n].content = cases[n].content
                                       /\ cases'[n].mail = cases[n].mail
        BY <2>2, <3>2, <4>1, Cases DEF IInv
      <4>3. cases' \in Seq(Case)
        BY <4>2
      <4> QED
        BY <4>2, <4>3, CasesKept DEF IInv
    <3> QED
      BY <3>1, <3>2
  <2>5. /\ new \in Request /\ new.pc = "complete" /\ new.uid = requests[w].uid
        /\ new.token = requests[w].token
    <3>1. new \in Request
      BY RequestFields, ZenonT(60) DEF Request, IInv
    <3> QED
      BY <3>1, RequestFields DEF Request, IInv
  <2>6. requests' = [requests EXCEPT ![w] = new]
    BY <2>1
  <2> HIDE DEF new
  <2>7. OnlyRequest(w) /\ requests'[w] = new
    BY <2>5, <2>6, RequestSet DEF IInv
  <2>8. OnlyWorker(w) /\ RClaim(w)' = RClaim(w) /\ w \in Asking /\ w \in Asking'
        /\ Busy' = Busy /\ \A v : WClaim(v)' = WClaim(v)
    BY <1>1, <2>1, <2>5, <2>7 DEF IInv, TypeOK, OnlyWorker, RClaim, WClaim, Asking, Busy
  <2>9. TypeOK'
    BY <1>1, <2>1, <2>3, <2>4, <2>7 DEF IInv, TypeOK, OnlyRequest
  <2>10. SameTokens /\ SameEntries
    BY <1>1, NothingEntered
  <2>11. Holders'
    <3>1. /\ w \in Busy' /\ w \in Asking' /\ WClaim(w)' = RClaim(w)'
             => workers'[w].pc \in {"await", "fail"}
          /\ workers'[w].pc = "await" => w \in Asking' /\ RClaim(w)' = WClaim(w)'
      BY <2>1, <2>8 DEF IInv, Holders, OneHolder, Busy
    <3> QED
      BY <2>7, <2>8, <2>10, <3>1, HoldersKept DEF IInv
  <2>12. ImportsHold'
    BY <2>5, <2>7, <2>10, ImportsKept DEF IInv
  <2>13. FinalIsFinal'
    <3>1. \A v \in Uids : messages'[v].state \in Final => messages[v].state \in Final \/ Closes(w, v)
      BY <1>1
    <3>2. requests[w].pc \notin {"none", "attach"} /\ RClaim(w)' = RClaim(w)
      BY <1>1, <2>8
    <3> QED
      BY <2>1, <2>7, <2>8, <2>10, <3>1, <3>2, FinalKept DEF IInv
  <2>14. RequestsFormed'
    BY <2>5, <2>7 DEF IInv, RequestsFormed, OnlyRequest
  <2>15. AbsentIsNew' /\ Boundary' /\ CursorIsExact'
    BY <2>1, <2>10, EntriesKept DEF IInv
  <2> QED
    BY <2>4, <2>9, <2>11, <2>12, <2>13, <2>14, <2>15 DEF IInv
<1> QED
  BY <1>2, <1>3

LEMMA LinkedType ==
    ASSUME TypeOK, NEW u \in Uids
    PROVE  LinkOwned(u) \in [Uids -> Seq(Row)]
<1>1. ASSUME NEW v \in Uids PROVE LinkOwned(u)[v] \in Seq(Row)
  <2> DEFINE new == LinkOwned(u)[v]
             own == {rows[u][k].case : k \in Imported(u)}
  <2>1. new = [k \in DOMAIN rows[v] |->
            IF v = u /\ rows[v][k].state = "imported"
            THEN [rows[v][k] EXCEPT !.state = "completed", !.decision = 1]
            ELSE IF rows[v][k].case \in own /\ rows[v][k].state = "duplicate"
                    /\ rows[v][k].decision = 0
            THEN [rows[v][k] EXCEPT !.decision = 1]
            ELSE rows[v][k]]
    BY DEF LinkOwned
  <2> HIDE DEF new, own
  <2>2. ASSUME NEW k \in DOMAIN rows[v]
        PROVE  /\ [rows[v][k] EXCEPT !.state = "completed", !.decision = 1] \in Row
               /\ [rows[v][k] EXCEPT !.decision = 1] \in Row
    <3>1. 1 \in Nat
      OBVIOUS
    <3> QED
      BY <3>1, RowType, ZenonT(60) DEF Row, RowStates
  <2>3. \A k \in DOMAIN rows[v] : new[k] \in Row
    BY <2>1, <2>2, RowType
  <2>4. new = [k \in DOMAIN rows[v] |-> new[k]]
    BY <2>1
  <2>5. new \in Seq(Row)
    BY <2>3, <2>4, MappedRows
  <2> QED
    BY <2>5 DEF new
<1>2. LinkOwned(u) = [v \in Uids |-> LinkOwned(u)[v]]
  BY DEF LinkOwned
<1> QED
  BY <1>1, <1>2

LEMMA CompleteKeeps == ASSUME IInv, NEW w \in Workers, Complete(w) PROVE IInv'
<1> DEFINE u == requests[w].uid
           parts == LinkOwned(u)[u]
<1>1. UNCHANGED <<mailbox, account, cases, operations>> /\ requests[w].pc = "complete"
  BY DEF Complete, processVars
<1>2. CASE Answers(w, "fail") /\ UNCHANGED mailVars
  BY <1>1, <1>2, RefusedKeeps DEF mailVars
<1>3. CASE ~(Answers(w, "fail") /\ UNCHANGED mailVars)
  <2>1. /\ Leased(u, requests[w].token)
        /\ rows' = LinkOwned(u) /\ messages' = Closed(u, parts) /\ Answered(w, Unburdened(w))
    BY <1>3 DEF Complete
  <2>2. u \in Uids /\ w \in Asking /\ Current(u, RClaim(w)) /\ messages[u].state # "absent"
    <3>1. u \in Uids /\ w \in Asking /\ requests[w].token # 0
      BY <1>1, AskingFields
    <3>2. messages[u].token = requests[w].token
      BY <2>1 DEF Leased
    <3> QED
      BY <3>1, <3>2 DEF Current, RClaim, IInv, AbsentIsNew, NoMessage
  <2> HIDE DEF u, parts
  <2>3. OnlyMessage(u) /\ messages'[u].state \in Terminal
    BY <2>1, <2>2, ClosedMoves DEF IInv
  <2>4. rows' \in [Uids -> Seq(Row)]
    BY <2>1, <2>2, LinkedType DEF IInv
  <2>5. /\ OnlyRequest(w) /\ requests'[w].pc = "none" /\ OnlyWorker(w)
        /\ workers[w].pc = "await" => workers'[w].pc \in {"ready", "claim"}
        /\ workers[w].pc # "await" => workers'[w] = workers[w]
    BY <2>1, UnburdenedType, AnsweredMoves DEF IInv
  <2>6. TypeOK'
    BY <1>1, <2>3, <2>4, <2>5 DEF IInv, TypeOK, OnlyRequest, OnlyWorker, OnlyMessage
  <2>7. SameTokens /\ SameEntries
    BY <1>1, <2>2, <2>3, OnlyMessageKeeps DEF Terminal
  <2>8. Claims'
    <3>1. \A v \in Uids : messages'[v].state \in Final =>
              messages[v].state \in Final \/ Current(v, RClaim(w))
      BY <2>2, <2>3 DEF OnlyMessage
    <3>2. w \in Busy' => w \in Busy /\ WClaim(w)' = WClaim(w) /\ workers'[w].pc # "await"
      BY <2>5 DEF Busy, WClaim
    <3> QED
      BY <2>2, <2>5, <2>7, <3>1, <3>2, RequestMoves
  <2>9. NoSecondCase'
    BY <1>1, CasesUnchanged DEF IInv
  <2> QED
    BY <2>6, <2>8, <2>9 DEF IInv, Claims
<1> QED
  BY <1>2, <1>3

-----------------------------------------------------------------------------
\* The theorems

LEMMA InitHolds == Init => IInv
<1> SUFFICES ASSUME Init PROVE IInv
  OBVIOUS
<1>1. TypeOK
  <2>1. NoMessage \in Message /\ NoMessage.attempts = 0
    BY DEF NoMessage, Message, MessageStates
  <2>2. account \in Accounts
    BY DEF Init, Accounts
  <2>3. mailbox \in [next : 1..LastUid + 1, renumbered : BOOLEAN]
    BY Bounds DEF Init
  <2> QED
    BY <2>1, <2>2, <2>3, IdleType, Bounds DEF Init, TypeOK, Accounts
<1>2. Busy = {} /\ Asking = {} /\ \A w \in Workers : workers[w].pc = "idle" /\ requests[w].pc = "none"
  BY DEF Init, Busy, Asking, IdleWorker, NoRequest
<1>3. Holders /\ ImportsHold /\ FinalIsFinal /\ RequestsFormed
  BY <1>2 DEF Init, Holders, ClaimsMade, OneHolder, ImportsHold, FinalIsFinal, RequestsFormed, NoMessage
<1>4. AbsentIsNew /\ Boundary /\ CursorIsExact
  <2>1. \A u \in Uids : messages[u].state = "absent" /\ messages[u] = NoMessage /\ u \in Nat
    BY Bounds DEF Init, NoMessage, Uids
  <2> QED
    BY <1>2, <2>1 DEF Init, AbsentIsNew, Boundary, CursorIsExact
<1>5. NoSecondCase
  BY DEF Init, NoSecondCase
<1> QED
  BY <1>1, <1>3, <1>4, <1>5 DEF IInv

LEMMA StepKeeps == IInv /\ [Next]_vars => IInv'
<1> SUFFICES ASSUME IInv, [Next]_vars PROVE IInv'
  OBVIOUS
<1>1. CASE UNCHANGED vars
  <2>1. UNCHANGED <<mailbox, account, messages, rows, cases, operations, workers, requests>>
    BY <1>1 DEF vars, mailVars, processVars
  <2>2. TypeOK' /\ NoSecondCase'
    BY <2>1, CasesUnchanged DEF IInv, TypeOK
  <2>3. SameTokens /\ SameEntries
    BY <2>1, NothingEntered
  <2>4. Claims'
    BY <2>1, <2>3, OutsideKeeps
  <2> QED
    BY <2>2, <2>4 DEF IInv, Claims
<1>2. ASSUME NEW w \in Workers, WorkerStep(w) PROVE IInv'
  BY <1>2, StartCycleKeeps, ClaimKeeps, PollKeeps, DiscoverKeeps, ManifestKeeps, RejectPartKeeps,
     StartImportKeeps, FinishKeeps, FailKeeps DEF WorkerStep
<1>3. ASSUME NEW w \in Workers, RequestStep(w) PROVE IInv'
  BY <1>3, AttachKeeps, RunKeeps, CompleteKeeps DEF RequestStep
<1>4. ASSUME NEW w \in Workers, GiveUp(w) \/ MissManifest(w) \/ Die(w) \/ RequestFails(w)
      PROVE  IInv'
  BY <1>4, LeavingKeeps, RequestFailsKeeps
<1>5. ASSUME NEW u \in Uids,
             LeaseEnds(u) \/ WaitEnds(u) \/ \E k \in DOMAIN rows[u] : Retry(u, k)
      PROVE  IInv'
  BY <1>5, ClockKeeps, RetryKeeps
<1>6. CASE Arrive \/ Renumber \/ PollDue \/ Initialize \/ Halt \/ ResumeAccount
  BY <1>6, MailboxKeeps, AccountKeeps, InitializeKeeps
<1>7. CASE \/ \E f \in Contents : Upload(f)
           \/ \E n \in DOMAIN cases : DecideByHand(n) \/ ReadAgain(n)
  BY <1>7, PeopleKeep
<1> QED
  BY <1>1, <1>2, <1>3, <1>4, <1>5, <1>6, <1>7 DEF Next

LEMMA InvariantHolds == Spec => []IInv
BY InitHolds, StepKeeps, PTL DEF Spec

(* The tables hold rows of their kind, whatever the workers do and wherever   *)
(* they die.                                                                  *)
THEOREM MailTypeCorrect == Spec => []TypeOK
BY InvariantHolds, PTL DEF IInv

(* Between activation and cursor every message is entered, and no other one.  *)
THEOREM MailCursorIsExact == Spec => []CursorIsExact
BY InvariantHolds, PTL DEF IInv

(* Mail makes no second case of a content, though it is looked up before the  *)
(* document is read.                                                          *)
THEOREM MailNoSecondCase == Spec => []NoSecondCase
BY InvariantHolds, PTL DEF IInv

LEMMA HolderWrites ==
    ASSUME IInv, NEW u \in Uids, NEW w \in Workers, Attach(w) \/ Complete(w),
           requests[w].uid = u, messages'[u] # messages[u]
    PROVE  messages[u].token = requests[w].token
<1>1. CASE Attach(w)
  BY <1>1, AskingFields DEF Attach, IInv, ImportsHold, Current, RClaim
<1>2. CASE Complete(w)
  BY <1>2 DEF Complete, Leased, mailVars
<1> QED
  BY <1>1, <1>2

(* What the request of a worker writes to a message it writes with the token  *)
(* of the message's last claim.                                               *)
THEOREM MailOnlyTheHolderWrites == Spec => OnlyTheHolderWrites
<1> DEFINE Held == \A u \in Uids, w \in Workers :
          (Attach(w) \/ Complete(w)) /\ requests[w].uid = u /\ messages'[u] # messages[u]
          => messages[u].token = requests[w].token
<1>1. IInv => Held
  BY HolderWrites
<1>2. OnlyTheHolderWrites <=> [][Held]_vars
  BY DEF OnlyTheHolderWrites
<1> HIDE DEF Held
<1> QED
  BY <1>1, <1>2, InvariantHolds, PTL DEF Spec
-----------------------------------------------------------------------------
\* The refinement

BookOf(state) == IF state = "absent" THEN "unknown" ELSE IF state \in Terminal THEN state ELSE "open"
Book == [u \in Uids |-> BookOf(messages[u].state)]
Known == {cases[n].content : n \in DOMAIN cases}
MailCases(f) == {n \in DOMAIN cases : cases[n].mail /\ cases[n].content = f}
Imports == [f \in Contents |-> Cardinality(MailCases(f))]

SameCases == Known' = Known /\ Imports' = Imports

LEMMA Values == Ledger!vars = <<Book, account.next, Known, Imports>>
BY DEF Ledger!vars, Book, BookOf, Known, Imports, MailCases

LEMMA LedgerStutters ==
    ASSUME Book' = Book, account'.next = account.next, SameCases PROVE UNCHANGED Ledger!vars
BY DEF Ledger!vars, Book, BookOf, Known, Imports, MailCases, SameCases

LEMMA LedgerCloses ==
    ASSUME NEW u \in Uids, NEW outcome \in Terminal, Book[u] \in {"open", "partial", "failed"},
           Book' = [Book EXCEPT ![u] = outcome], account'.next = account.next, SameCases
    PROVE  Ledger!Next
<1>1. Ledger!Close(u)
  BY DEF Ledger!Close, Ledger!Provisional, Ledger!Outcomes, Ledger!Final, Terminal,
         Book, BookOf, Known, Imports, MailCases, SameCases
<1> QED
  BY <1>1 DEF Ledger!Next

LEMMA LedgerReopens ==
    ASSUME NEW u \in Uids, Book[u] \in {"partial", "failed"},
           Book' = [Book EXCEPT ![u] = "open"], account'.next = account.next, SameCases
    PROVE  Ledger!Next
<1>1. Ledger!Reopen(u)
  BY DEF Ledger!Reopen, Ledger!Provisional, Book, BookOf, Known, Imports, MailCases, SameCases
<1> QED
  BY <1>1 DEF Ledger!Next

LEMMA LedgerEnters ==
    ASSUME account.next # 0, account'.next \in Nat, account'.next > account.next, SameCases,
           Book' = [u \in Uids |-> IF account.next <= u /\ u < account'.next THEN "open" ELSE Book[u]]
    PROVE  Ledger!Next
<1>1. Ledger!Enter
  BY DEF Ledger!Enter, Book, BookOf, Known, Imports, MailCases, SameCases
<1> QED
  BY <1>1 DEF Ledger!Next

LEMMA LedgerActivates ==
    ASSUME account.next = 0, account'.next \in Nat \ {0}, Book' = Book, SameCases
    PROVE  Ledger!Next
<1>1. Ledger!Activate
  BY DEF Ledger!Activate, Book, BookOf, Known, Imports, MailCases, SameCases
<1> QED
  BY <1>1 DEF Ledger!Next

LEMMA LedgerImports ==
    ASSUME NEW f \in Contents, f \notin Known, Known' = Known \union {f},
           Imports' = [Imports EXCEPT ![f] = Imports[f] + 1],
           Book' = Book, account'.next = account.next
    PROVE  Ledger!Next
<1>1. Ledger!Import(f)
  BY DEF Ledger!Import, Book, BookOf, Known, Imports, MailCases
<1> QED
  BY <1>1 DEF Ledger!Next

LEMMA LedgerUploads ==
    ASSUME NEW f \in Contents, Known' = Known \union {f}, Imports' = Imports,
           Book' = Book, account'.next = account.next
    PROVE  Ledger!Next
<1>1. Ledger!Upload(f)
  BY DEF Ledger!Upload, Book, BookOf, Known, Imports, MailCases
<1> QED
  BY <1>1 DEF Ledger!Next
LEMMA CasesSame ==
    ASSUME DOMAIN cases' = DOMAIN cases,
           \A n \in DOMAIN cases : cases'[n].content = cases[n].content
                                   /\ cases'[n].mail = cases[n].mail
    PROVE  SameCases
<1>1. Known' = Known
  BY DEF Known
<1>2. ASSUME NEW f \in Contents PROVE MailCases(f)' = MailCases(f)
  BY DEF MailCases
<1>3. Imports' = Imports
  BY <1>2 DEF Imports
<1> QED
  BY <1>1, <1>3 DEF SameCases

LEMMA CasesGrow ==
    ASSUME TypeOK, NEW new \in Case, cases' = Append(cases, new)
    PROVE  /\ Known' = Known \union {new.content}
           /\ Imports' = IF new.mail THEN [Imports EXCEPT ![new.content] = Imports[new.content] + 1]
                         ELSE Imports
<1> DEFINE last == Len(cases) + 1
           f == new.content
<1>1. /\ Len(cases) \in Nat /\ DOMAIN cases = 1..Len(cases)
      /\ DOMAIN cases' = DOMAIN cases \union {last} /\ last \notin DOMAIN cases
      /\ cases'[last] = new /\ \A n \in DOMAIN cases : cases'[n] = cases[n]
  <2>1. cases \in Seq(Case) /\ Len(cases) \in Nat /\ DOMAIN cases = 1..Len(cases)
    BY Cases
  <2>2. 1..Len(cases) + 1 = 1..Len(cases) \union {Len(cases) + 1}
    BY <2>1
  <2> QED
    BY <2>1, <2>2
<1>2. Known' = Known \union {f}
  BY <1>1 DEF Known
<1>3. ASSUME NEW x \in Contents
      PROVE  MailCases(x)' = IF new.mail /\ x = f THEN MailCases(x) \union {last} ELSE MailCases(x)
  BY <1>1 DEF MailCases
<1>4. ASSUME NEW x \in Contents
      PROVE  IsFiniteSet(MailCases(x)) /\ last \notin MailCases(x)
  <2>1. MailCases(x) \subseteq 1..Len(cases) /\ IsFiniteSet(1..Len(cases))
    BY <1>1, FS_Interval DEF MailCases
  <2> QED
    BY <1>1, <2>1, FS_Subset
<1>5. ASSUME NEW x \in Contents
      PROVE  Cardinality(MailCases(x)') =
                IF new.mail /\ x = f THEN Cardinality(MailCases(x)) + 1 ELSE Cardinality(MailCases(x))
  BY <1>3, <1>4, FS_AddElement
<1>6. f \in Contents /\ new.mail \in BOOLEAN
  BY DEF Case
<1>7. Imports' = [x \in Contents |-> Cardinality(MailCases(x)')]
  BY DEF Imports
<1> HIDE DEF f
<1>8. Imports' = IF new.mail THEN [Imports EXCEPT ![f] = Imports[f] + 1] ELSE Imports
  BY <1>5, <1>6, <1>7 DEF Imports
<1> QED
  BY <1>2, <1>8 DEF f

LEMMA BookMoves ==
    ASSUME NEW u \in Uids, \A v \in Uids : v # u => messages'[v] = messages[v]
    PROVE  /\ Book' = [Book EXCEPT ![u] = BookOf(messages'[u].state)]
           /\ BookOf(messages'[u].state) = Book[u] => Book' = Book
BY DEF Book

LEMMA BookValues ==
    ASSUME TypeOK, NEW u \in Uids
    PROVE  /\ Book[u] = BookOf(messages[u].state)
           /\ messages[u].state \notin Final \union {"absent"} => Book[u] \in {"open", "partial", "failed"}
           /\ messages[u].state \in Terminal => Book[u] = messages[u].state
           /\ messages[u].state \notin Terminal \union {"absent"} => Book[u] = "open"
BY Messages DEF Book, BookOf, Final, Terminal

Maps == Ledger!Next \/ UNCHANGED Ledger!vars

LEMMA QuietMaps ==
    ASSUME UNCHANGED <<messages, cases>>, account'.next = account.next PROVE Maps
<1>1. Book' = Book
  BY DEF Book
<1>2. SameCases
  BY CasesSame
<1> QED
  BY <1>1, <1>2, LedgerStutters DEF Maps

(* One message gets an outcome, is opened again, or stays as the ledger sees  *)
(* it.                                                                        *)
LEMMA ClosingMaps ==
    ASSUME TypeOK, NEW u \in Uids, OnlyMessage(u), UNCHANGED <<account, cases>>,
           messages[u].state \notin Final \union {"absent"}, messages'[u].state \in Terminal
    PROVE  Maps
<1> DEFINE outcome == messages'[u].state
<1>1. Book' = [Book EXCEPT ![u] = outcome]
  BY BookMoves DEF OnlyMessage, BookOf, Terminal
<1>2. Book[u] \in {"open", "partial", "failed"} /\ SameCases
  BY BookValues, CasesSame
<1> QED
  BY <1>1, <1>2, LedgerCloses DEF Maps

LEMMA OpeningMaps ==
    ASSUME TypeOK, NEW u \in Uids, UNCHANGED <<account, cases>>,
           \A v \in Uids : v # u => messages'[v] = messages[v],
           messages[u].state \notin Final \union {"absent"},
           messages'[u].state \notin Terminal \union {"absent"}
    PROVE  Maps
<1>1. Book' = [Book EXCEPT ![u] = "open"]
  BY BookMoves DEF BookOf
<1>2. Book[u] \in {"open", "partial", "failed"} /\ SameCases
  BY BookValues, CasesSame
<1>3. CASE Book[u] = "open"
  <2>1. Book' = Book
    BY <1>1, <1>3 DEF Book
  <2> QED
    BY <1>2, <2>1, LedgerStutters DEF Maps
<1>4. CASE Book[u] # "open"
  BY <1>1, <1>2, <1>4, LedgerReopens DEF Maps
<1> QED
  BY <1>3, <1>4

LEMMA SameStateMaps ==
    ASSUME NEW u \in Uids, OnlyMessage(u), messages'[u].state = messages[u].state,
           UNCHANGED <<account, cases>>
    PROVE  Maps
<1>1. Book' = Book
  BY DEF Book, OnlyMessage
<1> QED
  BY <1>1, CasesSame, LedgerStutters DEF Maps
LEMMA QuietStepMaps ==
    ASSUME IInv, \/ Arrive \/ Renumber \/ PollDue \/ Halt \/ ResumeAccount
                 \/ \E w \in Workers : \/ StartCycle(w) \/ Poll(w) \/ StartImport(w)
                                       \/ MissManifest(w) \/ GiveUp(w) \/ Die(w) \/ RequestFails(w)
    PROVE  Maps
<1>1. account \in Accounts
  BY DEF IInv, TypeOK, Accounts
<1>2. CASE UNCHANGED <<account, messages, cases>>
  BY <1>2, QuietMaps
<1>3. CASE PollDue \/ Halt \/ ResumeAccount
  <2>1. UNCHANGED <<messages, cases>> /\ account'.next = account.next
    BY <1>1, <1>3 DEF PollDue, Halt, ResumeAccount, Accounts, mailVars, processVars
  <2> QED
    BY <2>1, QuietMaps
<1>4. ASSUME NEW w \in Workers, Poll(w) PROVE Maps
  <2>1. UNCHANGED <<messages, cases>>
    BY <1>4 DEF Poll, mailVars, processVars
  <2>2. account'.next = account.next
    BY <1>1, <1>4 DEF Poll, PollFailed, Accounts
  <2> QED
    BY <2>1, <2>2, QuietMaps
<1> QED
  BY <1>2, <1>3, <1>4 DEF Arrive, Renumber, StartCycle, StartImport, MissManifest, GiveUp, Die,
                          RequestFails, mailVars, processVars

LEMMA ClockMaps == ASSUME IInv, NEW u \in Uids, LeaseEnds(u) \/ WaitEnds(u) PROVE Maps
<1>1. OnlyMessage(u) /\ messages'[u].state = messages[u].state
  BY LeaseMoves, WaitMoves DEF LeaseEnds, WaitEnds, IInv
<1> QED
  BY <1>1, SameStateMaps DEF LeaseEnds, WaitEnds, processVars

LEMMA InitializeMaps == ASSUME IInv, Initialize PROVE Maps
<1>1. account.next = 0
  BY DEF Initialize, IInv, Boundary
<1>2. account'.next = mailbox.next
  <2>1. account \in Accounts
    BY DEF IInv, TypeOK, Accounts
  <2> QED
    BY <2>1 DEF Initialize, Accounts
<1>3. mailbox.next \in Nat \ {0}
  BY Bounds, Account DEF IInv
<1>4. Book' = Book /\ SameCases
  BY CasesSame DEF Initialize, mailVars, processVars, Book
<1> QED
  BY <1>1, <1>2, <1>3, <1>4, LedgerActivates DEF Maps

LEMMA RetryMaps == ASSUME IInv, NEW u \in Uids, NEW k \in DOMAIN rows[u], Retry(u, k) PROVE Maps
<1>1. /\ UNCHANGED <<account, cases>>
      /\ messages[u].state \notin Final \union {"absent"}
      /\ messages' = [messages EXCEPT ![u] =
            [messages[u] EXCEPT !.state = "retry_wait", !.waiting = FALSE, !.token = 0,
                                !.leased = FALSE]]
  BY DEF Retry, Retryable, Final, processVars
<1>2. /\ messages'[u].state = "retry_wait"
      /\ \A v \in Uids : v # u => messages'[v] = messages[v]
  BY <1>1, Messages DEF IInv, TypeOK, Message
<1> QED
  BY <1>1, <1>2, OpeningMaps DEF IInv, Terminal

LEMMA PeopleMap ==
    ASSUME IInv, \/ \E f \in Contents : Upload(f)
                 \/ \E n \in DOMAIN cases : DecideByHand(n) \/ ReadAgain(n)
    PROVE  Maps
<1>1. UNCHANGED <<account, messages>>
  BY DEF Upload, DecideByHand, ReadAgain, mailVars
<1>2. Book' = Book
  BY <1>1 DEF Book
<1>3. ASSUME NEW f \in Contents, Upload(f) PROVE Maps
  <2> DEFINE new == [content |-> f, decided |-> FALSE, read |-> TRUE, decisions |-> 0,
                     mail |-> FALSE]
  <2>1. new \in Case /\ new.content = f /\ ~new.mail /\ cases' = Append(cases, new)
    BY <1>3 DEF Upload, Case
  <2> HIDE DEF new
  <2>2. Known' = Known \union {f} /\ Imports' = Imports
    BY <2>1, CasesGrow DEF IInv
  <2> QED
    BY <1>1, <1>2, <2>2, LedgerUploads DEF Maps
<1>4. ASSUME NEW n \in DOMAIN cases, DecideByHand(n) \/ ReadAgain(n) PROVE Maps
  <2>1. /\ DOMAIN cases' = DOMAIN cases
        /\ \A m \in DOMAIN cases : cases'[m].content = cases[m].content
                                   /\ cases'[m].mail = cases[m].mail
    BY <1>4, PeopleChange DEF IInv
  <2> QED
    BY <1>1, <1>2, <2>1, CasesSame, LedgerStutters DEF Maps
<1> QED
  BY <1>3, <1>4

LEMMA ClaimMaps == ASSUME IInv, NEW w \in Workers, Claim(w) PROVE Maps
<1>1. UNCHANGED <<account, cases>>
  BY ClaimCases
<1>2. CASE UNCHANGED messages
  BY <1>1, <1>2, QuietMaps
<1>3. ASSUME NEW u \in Uids, messages[u].state \notin Terminal \union {"absent"}, Ends(w, u)
      PROVE  Maps
  <2>1. OnlyMessage(u) /\ messages'[u].state = "failed"
    BY <1>3, StateMoves DEF Ends, IInv, MessageStates, Terminal
  <2> QED
    BY <1>1, <1>3, <2>1, ClosingMaps DEF IInv, Terminal, Final
<1>4. ASSUME NEW u \in Uids, messages[u].state \notin Terminal \union {"absent"}, Takes(w, u)
      PROVE  Maps
  <2>1. /\ messages'[u].state = "importing"
        /\ \A v \in Uids : v # u => messages'[v] = messages[v]
    BY <1>4, Messages DEF Takes, IInv, TypeOK, Message
  <2> QED
    BY <1>1, <1>4, <2>1, OpeningMaps DEF IInv, Terminal, Final
<1> QED
  BY <1>2, <1>3, <1>4, ClaimCases

LEMMA DiscoverMaps == ASSUME IInv, IInv', NEW w \in Workers, Discover(w) PROVE Maps
<1> DEFINE through == workers[w].through
           entered == [NoMessage EXCEPT !.state = "discovered"]
<1>1. UNCHANGED cases /\ workers[w].pc = "discover"
  BY DEF Discover, processVars, At
<1>2. CASE UNCHANGED <<messages, account>>
  BY <1>1, <1>2, QuietMaps
<1>3. CASE ~UNCHANGED <<messages, account>>
  <2>1. /\ account.state = "active" /\ workers[w].cursor = account.next
        /\ messages' = [u \in Uids |->
              IF account.next <= u /\ u <= through /\ messages[u] = NoMessage
              THEN entered ELSE messages[u]]
        /\ account'.next = through + 1
    <3>1. account \in Accounts
      BY DEF IInv, TypeOK, Accounts
    <3> QED
      BY <1>3, <3>1 DEF Discover, IsActive, Accounts
  <2>2. account.next \in Nat \ {0} /\ account.next <= through + 1 /\ through \in Int
    BY <1>1, <2>1, Account, WorkerFields DEF IInv, Boundary
  <2>3. ASSUME NEW u \in Uids
        PROVE  Book'[u] = IF account.next <= u /\ u < account'.next THEN "open" ELSE Book[u]
    <3>1. u \in Nat /\ (account.next <= u => messages[u] = NoMessage)
      BY <2>2, Bounds DEF IInv, CursorIsExact, AbsentIsNew, Uids
    <3>2. entered.state = "discovered"
      BY DEF NoMessage
    <3>3. Book'[u] = BookOf(messages'[u].state) /\ Book[u] = BookOf(messages[u].state)
      BY DEF Book
    <3> HIDE DEF through, entered
    <3>4. messages'[u] = IF account.next <= u /\ u <= through THEN entered ELSE messages[u]
      BY <2>1, <3>1
    <3>5. u < account'.next <=> u <= through
      BY <2>1, <2>2, <3>1 DEF through
    <3> QED
      BY <3>2, <3>3, <3>4, <3>5 DEF BookOf, Terminal
  <2>4. Book' = [u \in Uids |-> IF account.next <= u /\ u < account'.next THEN "open" ELSE Book[u]]
    BY <2>3 DEF Book
  <2>5. SameCases
    BY <1>1, CasesSame
  <2>6. CASE account'.next = account.next
    <3>1. Book' = Book
      <4>1. \A u \in Uids : ~(account.next <= u /\ u < account.next)
        BY <2>2, Bounds DEF Uids
      <4> QED
        BY <2>4, <2>6, <4>1 DEF Book
    <3> QED
      BY <2>5, <2>6, <3>1, LedgerStutters DEF Maps
  <2>7. CASE account'.next # account.next
    <3>1. account'.next \in Nat /\ account'.next > account.next
      BY <2>1, <2>2, <2>7
    <3> QED
      BY <2>2, <2>4, <2>5, <3>1, LedgerEnters DEF Maps
  <2> QED
    BY <2>6, <2>7
<1> QED
  BY <1>2, <1>3

LEMMA ManifestMaps == ASSUME IInv, NEW w \in Workers, Manifest(w) PROVE Maps
<1> DEFINE u == workers[w].uid
           state == IF Parts[u] = <<>> THEN "ignored" ELSE "importing"
<1>1. UNCHANGED <<account, cases>> /\ workers[w].pc = "manifest"
  BY DEF Manifest, processVars, At
<1>2. CASE ~May(w)
  BY <1>1, <1>2, QuietMaps DEF Manifest, mailVars
<1>3. CASE May(w)
  <2>1. u \in Uids /\ w \in Busy /\ Current(u, WClaim(w)) /\ messages[u].state # "absent"
    BY <1>1, <1>3, MayIsCurrent
  <2>2. messages[u].state \notin Final
    BY <1>1, <2>1 DEF IInv, FinalIsFinal
  <2>3. messages' = [messages EXCEPT ![u].saved = TRUE, ![u].leased = TRUE, ![u].state = state]
    BY <1>3 DEF Manifest
  <2>4. state \in MessageStates /\ state # "absent" /\ (state \in Terminal \/ state = "importing")
    BY DEF MessageStates, Terminal
  <2> HIDE DEF u, state
  <2>5. messages' = [messages EXCEPT ![u] =
            [messages[u] EXCEPT !.saved = TRUE, !.leased = TRUE, !.state = state]]
    BY <2>1, <2>3 DEF IInv, TypeOK
  <2>6. OnlyMessage(u) /\ messages'[u].state = state
    BY <2>1, <2>4, <2>5, SavedMoves DEF IInv
  <2>7. CASE state \in Terminal
    BY <1>1, <2>1, <2>2, <2>6, <2>7, ClosingMaps DEF IInv
  <2>8. CASE state = "importing"
    BY <1>1, <2>1, <2>2, <2>6, <2>8, OpeningMaps DEF IInv, OnlyMessage, Terminal
  <2> QED
    BY <2>4, <2>7, <2>8
<1> QED
  BY <1>2, <1>3

LEMMA RejectPartMaps == ASSUME IInv, NEW w \in Workers, RejectPart(w) PROVE Maps
<1> DEFINE u == workers[w].uid
<1>1. UNCHANGED <<account, cases>> /\ workers[w].pc = "parts"
  BY DEF RejectPart, processVars, At
<1>2. CASE ~May(w)
  BY <1>1, <1>2, QuietMaps DEF RejectPart, mailVars
<1>3. CASE May(w)
  <2>1. u \in Uids
    BY <1>1, <1>3, MayIsCurrent
  <2>2. messages' = [messages EXCEPT ![u].leased = TRUE]
    BY <1>3 DEF RejectPart
  <2> HIDE DEF u
  <2>3. OnlyMessage(u) /\ messages'[u].state = messages[u].state
    BY <2>1, <2>2, LeaseMoves DEF IInv
  <2> QED
    BY <1>1, <2>1, <2>3, SameStateMaps
<1> QED
  BY <1>2, <1>3

LEMMA FinishMaps == ASSUME IInv, NEW w \in Workers, Finish(w) PROVE Maps
<1> DEFINE u == workers[w].uid
<1>1. UNCHANGED <<account, cases>> /\ workers[w].pc = "parts"
  BY DEF Finish, processVars, At
<1>2. CASE UNCHANGED messages
  BY <1>1, <1>2, QuietMaps
<1>3. CASE ~UNCHANGED messages
  <2>1. /\ May(w) /\ messages[u].state \notin Terminal
        /\ \/ messages' = Closed(u, rows[u])
           \/ messages' = [messages EXCEPT ![u].state = "evaluating", ![u].leased = TRUE]
    BY <1>3 DEF Finish
  <2>2. u \in Uids /\ messages[u].state # "absent"
    BY <1>1, <2>1, MayIsCurrent
  <2> HIDE DEF u
  <2>3. CASE messages' = Closed(u, rows[u])
    <3>1. OnlyMessage(u) /\ messages'[u].state \in Terminal
      BY <2>2, <2>3, ClosedMoves DEF IInv
    <3> QED
      BY <1>1, <2>1, <2>2, <3>1, ClosingMaps DEF IInv, Final, Terminal
  <2>4. CASE messages' = [messages EXCEPT ![u].state = "evaluating", ![u].leased = TRUE]
    <3>1. messages' = [messages EXCEPT ![u] =
                          [messages[u] EXCEPT !.state = "evaluating", !.leased = TRUE]]
      BY <2>2, <2>4 DEF IInv, TypeOK
    <3>2. OnlyMessage(u) /\ messages'[u].state = "evaluating"
      BY <2>2, <3>1, StateLeaseMoves DEF IInv, MessageStates
    <3> QED
      BY <1>1, <2>1, <2>2, <3>2, OpeningMaps DEF IInv, Final, Terminal, OnlyMessage
  <2> QED
    BY <2>1, <2>3, <2>4
<1> QED
  BY <1>2, <1>3

LEMMA FailMaps == ASSUME IInv, NEW w \in Workers, Fail(w) PROVE Maps
<1> DEFINE u == workers[w].uid
<1>1. UNCHANGED <<account, cases>> /\ u \in Uids
  BY BusyFields DEF Fail, processVars, At
<1>2. CASE UNCHANGED messages
  BY <1>1, <1>2, QuietMaps
<1>3. CASE ~UNCHANGED messages
  <2>1. /\ messages[u].token # 0 /\ messages[u].state \notin Terminal
        /\ \E state \in {"failed", "retry_wait"} : messages' = [messages EXCEPT ![u] =
              [messages[u] EXCEPT !.state = state, !.waiting = TRUE, !.leased = FALSE]]
    <3> HIDE <1>1
    <3> QED
      BY <1>3 DEF Fail, mailVars, May, Leased
  <2> HIDE DEF u
  <2>2. messages[u].state # "absent"
    BY <1>1, <2>1 DEF IInv, AbsentIsNew, NoMessage
  <2>3. OnlyMessage(u) /\ messages'[u].state \in {"failed", "retry_wait"}
    BY <1>1, <2>1, FailedMoves DEF IInv, MessageStates, Terminal
  <2>4. CASE messages'[u].state = "failed"
    BY <1>1, <2>1, <2>2, <2>3, <2>4, ClosingMaps DEF IInv, Final, Terminal
  <2>5. CASE messages'[u].state = "retry_wait"
    BY <1>1, <2>1, <2>2, <2>3, <2>5, OpeningMaps DEF IInv, Final, Terminal, OnlyMessage
  <2> QED
    BY <2>3, <2>4, <2>5
<1> QED
  BY <1>2, <1>3

LEMMA AttachMaps == ASSUME IInv, NEW w \in Workers, Attach(w) PROVE Maps
<1> DEFINE u == requests[w].uid
           f == requests[w].content
<1>1. UNCHANGED account /\ requests[w].pc = "attach"
      /\ messages' = [messages EXCEPT ![u].leased = TRUE]
  BY DEF Attach
<1>2. u \in Uids /\ f \in Contents
  BY <1>1, AskingFields DEF IInv, RequestsFormed
<1>3. CASE UNCHANGED cases
  <2> HIDE DEF u
  <2>1. OnlyMessage(u) /\ messages'[u].state = messages[u].state
    BY <1>1, <1>2, LeaseMoves DEF IInv
  <2> QED
    BY <1>1, <1>2, <1>3, <2>1, SameStateMaps
<1>4. CASE ~UNCHANGED cases
  <2> DEFINE new(read) == [content |-> f, decided |-> FALSE, read |-> read, decisions |-> 0,
                           mail |-> TRUE]
  <2>1. CaseOf(f) = 0 /\ \E read \in BOOLEAN : cases' = Append(cases, new(read))
    BY <1>4 DEF Attach, SeenNow
  <2>2. \A read \in BOOLEAN : new(read) \in Case /\ new(read).content = f /\ new(read).mail
    BY <1>2 DEF Case
  <2> HIDE DEF new
  <2>3. Known' = Known \union {f} /\ Imports' = [Imports EXCEPT ![f] = Imports[f] + 1]
    BY <2>1, <2>2, CasesGrow DEF IInv
  <2>4. f \notin Known
    BY <2>1, CaseOfContent DEF IInv, TypeOK, Known
  <2> HIDE DEF u
  <2>5. OnlyMessage(u) /\ messages'[u].state = messages[u].state
    BY <1>1, <1>2, LeaseMoves DEF IInv
  <2>6. Book' = Book
    BY <2>5 DEF Book, OnlyMessage
  <2> QED
    BY <1>1, <1>2, <2>3, <2>4, <2>6, LedgerImports DEF Maps
<1> QED
  BY <1>3, <1>4

LEMMA RunMaps == ASSUME IInv, NEW w \in Workers, Run(w) PROVE Maps
<1>1. UNCHANGED <<account, messages>>
  BY DEF Run, mailVars
<1>2. Book' = Book
  BY <1>1 DEF Book
<1>3. /\ DOMAIN cases' = DOMAIN cases
      /\ \A n \in DOMAIN cases : cases'[n].content = cases[n].content
                                 /\ cases'[n].mail = cases[n].mail
  <2>1. \/ UNCHANGED cases
        \/ cases' = [n \in DOMAIN cases |->
                IF n \in requests[w].selection /\ cases[n].read /\ ~cases[n].decided
                THEN [cases[n] EXCEPT !.decided = TRUE, !.decisions = @ + 1]
                ELSE cases[n]]
    BY DEF Run, processVars
  <2>2. \A n \in DOMAIN cases : cases[n] \in Case
    BY Cases DEF IInv
  <2>3. ASSUME NEW n \in DOMAIN cases
        PROVE  LET row == [cases[n] EXCEPT !.decided = TRUE, !.decisions = @ + 1]
               IN  row.content = cases[n].content /\ row.mail = cases[n].mail
    BY <2>2 DEF Case
  <2> QED
    BY <2>1, <2>3
<1> QED
  BY <1>1, <1>2, <1>3, CasesSame, LedgerStutters DEF Maps

LEMMA CompleteMaps == ASSUME IInv, NEW w \in Workers, Complete(w) PROVE Maps
<1> DEFINE u == requests[w].uid
           parts == LinkOwned(u)[u]
<1>1. UNCHANGED <<account, cases>> /\ requests[w].pc = "complete"
  BY DEF Complete, processVars
<1>2. u \in Uids /\ w \in Asking /\ requests[w].token # 0
  BY <1>1, AskingFields
<1>3. CASE UNCHANGED messages
  BY <1>1, <1>3, QuietMaps
<1>4. CASE ~UNCHANGED messages
  <2>1. Leased(u, requests[w].token) /\ messages' = Closed(u, parts)
    BY <1>4 DEF Complete, mailVars
  <2>2. Current(u, RClaim(w)) /\ messages[u].state # "absent"
    BY <1>2, <2>1 DEF Leased, Current, RClaim, IInv, AbsentIsNew, NoMessage
  <2>3. messages[u].state \notin Final
    BY <1>1, <1>2, <2>2 DEF IInv, FinalIsFinal
  <2> HIDE DEF u, parts
  <2>4. OnlyMessage(u) /\ messages'[u].state \in Terminal
    BY <1>2, <2>1, ClosedMoves DEF IInv
  <2> QED
    BY <1>1, <1>2, <2>2, <2>3, <2>4, ClosingMaps DEF IInv
<1> QED
  BY <1>3, <1>4

LEMMA InitMaps == Init => Ledger!Init
<1> SUFFICES ASSUME Init PROVE Ledger!Init
  OBVIOUS
<1>1. \A u \in Uids : messages[u].state = "absent"
  BY DEF Init, NoMessage
<1>2. cases = <<>> /\ account.next = 0
  BY DEF Init
<1>3. \A f \in Contents : {n \in DOMAIN cases : cases[n].mail /\ cases[n].content = f} = {}
  BY <1>2
<1> QED
  BY <1>1, <1>2, <1>3, FS_EmptySet DEF Ledger!Init

LEMMA StepMaps == IInv /\ IInv' /\ [Next]_vars => Maps
<1> SUFFICES ASSUME IInv, IInv', [Next]_vars PROVE Maps
  OBVIOUS
<1>1. CASE UNCHANGED vars
  BY <1>1, QuietMaps DEF vars, mailVars, processVars
<1>2. ASSUME NEW w \in Workers, WorkerStep(w) PROVE Maps
  BY <1>2, QuietStepMaps, ClaimMaps, DiscoverMaps, ManifestMaps, RejectPartMaps, FinishMaps,
     FailMaps DEF WorkerStep
<1>3. ASSUME NEW w \in Workers, RequestStep(w) PROVE Maps
  BY <1>3, AttachMaps, RunMaps, CompleteMaps DEF RequestStep
<1>4. ASSUME NEW u \in Uids,
             LeaseEnds(u) \/ WaitEnds(u) \/ \E k \in DOMAIN rows[u] : Retry(u, k)
      PROVE  Maps
  BY <1>4, ClockMaps, RetryMaps
<1>5. CASE \/ \E f \in Contents : Upload(f)
           \/ \E n \in DOMAIN cases : DecideByHand(n) \/ ReadAgain(n)
  BY <1>5, PeopleMap
<1> QED
  BY <1>1, <1>2, <1>3, <1>4, <1>5, QuietStepMaps, InitializeMaps DEF Next

(* Mail implements its ledger: with any number of workers that race, die and  *)
(* retry, each message is entered once and in order, gets an outcome, leaves  *)
(* a final one never, and makes a case of new content only.                   *)
THEOREM MailImplementsLedger == Spec => LedgerSpec
<1>1. Maps => [Ledger!Next]_(Ledger!vars)
  BY DEF Maps
<1> QED
  BY <1>1, InitMaps, StepMaps, InvariantHolds, PTL DEF Spec, LedgerSpec, Ledger!Spec

=============================================================================
