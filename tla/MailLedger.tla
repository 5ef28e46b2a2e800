----------------------------- MODULE MailLedger -----------------------------
(* What mail ingestion promises of a mailbox and of the process it feeds, with *)
(* no worker, lease, request or crash: each message past the boundary is       *)
(* entered once, in the order of its UID, gets one outcome, and the content of *)
(* a PDF becomes a case through mail only when the process has no case of it.  *)
EXTENDS Naturals

CONSTANTS Uids, Contents

Final == {"completed", "ignored"}
Provisional == {"partial", "failed"}
Outcomes == Final \union Provisional

VARIABLES
    book,       \* [Uids -> outcome of a message, "open" or "unknown"]
    next,       \* the first UID that is not entered yet, 0 before activation
    known,      \* the contents the process has a case of
    imports     \* [Contents -> Nat]: how often mail made a case of a content

vars == <<book, next, known, imports>>

Init ==
    /\ book = [u \in Uids |-> "unknown"]
    /\ next = 0
    /\ known = {}
    /\ imports = [f \in Contents |-> 0]

\* The mailbox is activated at a boundary: nothing before it is ever entered.
Activate ==
    /\ next = 0
    /\ next' \in Nat \ {0}
    /\ UNCHANGED <<book, known, imports>>

\* A page of messages is entered and the boundary moves past all of it, at once.
Enter ==
    /\ next # 0
    /\ next' \in Nat /\ next' > next
    /\ book' = [u \in Uids |-> IF next <= u /\ u < next' THEN "open" ELSE book[u]]
    /\ UNCHANGED <<known, imports>>

\* An open message gets its outcome. A provisional one may still improve, or be opened again.
Close(u) ==
    /\ book[u] \in {"open"} \union Provisional
    /\ \E outcome \in Outcomes : book' = [book EXCEPT ![u] = outcome]
    /\ UNCHANGED <<next, known, imports>>

Reopen(u) ==
    /\ book[u] \in Provisional
    /\ book' = [book EXCEPT ![u] = "open"]
    /\ UNCHANGED <<next, known, imports>>

\* Mail makes a case only of content that is new to the process; people may upload any.
Import(f) ==
    /\ f \notin known
    /\ known' = known \union {f}
    /\ imports' = [imports EXCEPT ![f] = @ + 1]
    /\ UNCHANGED <<book, next>>

Upload(f) ==
    /\ known' = known \union {f}
    /\ UNCHANGED <<book, next, imports>>

Next ==
    \/ Activate \/ Enter
    \/ \E u \in Uids : Close(u) \/ Reopen(u)
    \/ \E f \in Contents : Import(f) \/ Upload(f)

Spec == Init /\ [][Next]_vars
=============================================================================
