------------------------------ MODULE Connector ------------------------------
(* One download of a paged HTTP source (sources/http_connector.py), the step   *)
(* Download of Sources in full: pages are asked one after the other with a     *)
(* session token that wears out, every request is repeated a few times, and    *)
(* the source changes while it is read. Records are told apart by their key.   *)
(*                                                                             *)
(* A lost answer is a timeout, a broken connection, a 429, a transient error,  *)
(* or a page that is truncated or malformed: the code repeats all of them. The *)
(* read of the status resource only fills the trace and is left out.           *)
EXTENDS Integers, Sequences, SequencesExt

CONSTANTS
    Records,        \* keys a record may have
    First,          \* Seq of the keys of the source at the start
    PageSize,
    MaxAttempts,    \* retry.max_attempts, of a page and of a login
    MaxUses,        \* what a session is good for
    Margin,         \* renew_margin_uses
    Faults,         \* "lose", "expire", "refuse"
    Changes,        \* what happens to the source: "append", "insert", "drop_last", "remove"
    MaxChanges      \* bound: changes of the source

ASSUME ConnectorAssumption ==
    /\ First \in Seq(Records) /\ IsInjective(First)
    /\ \A n \in {PageSize, MaxAttempts, MaxUses} : n \in Nat \ {0}
    /\ Margin \in Nat /\ Margin < MaxUses
    /\ Changes \subseteq {"append", "insert", "drop_last", "remove"} /\ MaxChanges \in Nat

VARIABLES
    source,         \* Seq of keys, in the order the API pages them
    changed,        \* how often it changed
    there,          \* keys that were in the source since the first page was answered
    session,        \* [uses, alive]: the last session, as the server counts it
    download        \* the connector's state

vars == <<source, changed, there, session, download>>

\* `uses' is the client's count, `old' says that the deadline of the token has passed.
Download == [pc : {"page", "login", "send", "done", "failed"}, attempt : 1..MaxAttempts,
             tries : 1..MaxAttempts, token : BOOLEAN, old : BOOLEAN, uses : Int,
             page : Nat \ {0}, total : Int, pages : Int, rows : SUBSET Records]

Ended == download.pc \in {"done", "failed"}

-----------------------------------------------------------------------------
\* The source

PagesOf(n) == (n + PageSize - 1) \div PageSize

\* The keys of one page.
PageOf(page) ==
    {source[k] : k \in {n \in DOMAIN source : (page - 1) * PageSize < n /\ n <= page * PageSize}}

\* A record comes or goes. One that goes from before the end moves those behind it to an
\* earlier page.
Changed(kind) ==
    CASE kind = "append"    -> {Append(source, k) : k \in Records \ ToSet(source)}
      [] kind = "insert"    -> {<<k>> \o source : k \in Records \ ToSet(source)}
      [] kind = "drop_last" -> {Front(source)}
      [] kind = "remove"    -> {RemoveAt(source, k) : k \in DOMAIN source}

ChangeSource ==
    /\ ~Ended /\ changed < MaxChanges
    /\ \E kind \in Changes :
           /\ kind \in {"drop_last", "remove"} => source # <<>>
           /\ source' \in Changed(kind)
    /\ changed' = changed + 1
    /\ there' = there \intersect ToSet(source')
    /\ UNCHANGED <<session, download>>

-----------------------------------------------------------------------------
\* The session

\* A login for every first attempt only.
LoginWhenMissing == ~download.token

\* _ensure_token: a token that is missing, near its deadline or nearly used up is replaced.
NeedsLogin == ~download.token \/ download.old \/ download.uses <= Margin

StartLogin ==
    /\ download.pc = "page" /\ NeedsLogin
    /\ download' = [download EXCEPT !.pc = "login", !.tries = 1]
    /\ UNCHANGED <<source, changed, there, session>>

LoggedIn ==
    /\ download.pc = "login"
    /\ session' = [uses |-> MaxUses, alive |-> TRUE]
    /\ download' = [download EXCEPT !.pc = "send", !.token = TRUE, !.old = FALSE, !.uses = MaxUses]
    /\ UNCHANGED <<source, changed, there>>

LoginLost ==
    /\ "lose" \in Faults
    /\ download.pc = "login"
    /\ download' = IF download.tries = MaxAttempts THEN [download EXCEPT !.pc = "failed"]
                   ELSE [download EXCEPT !.tries = @ + 1]
    /\ UNCHANGED <<source, changed, there, session>>

\* Time passes: the client's deadline, a margin before the server's.
TokenAges ==
    /\ "expire" \in Faults
    /\ download.token /\ ~download.old /\ ~Ended
    /\ download' = [download EXCEPT !.old = TRUE]
    /\ UNCHANGED <<source, changed, there, session>>

SessionEnds ==
    /\ "expire" \in Faults
    /\ session.alive /\ ~Ended
    /\ session' = [session EXCEPT !.alive = FALSE]
    /\ UNCHANGED <<source, changed, there, download>>

-----------------------------------------------------------------------------
\* One request for a page

Ready ==
    /\ download.pc = "page" /\ ~NeedsLogin
    /\ download' = [download EXCEPT !.pc = "send"]
    /\ UNCHANGED <<source, changed, there, session>>

\* Attempts are not counted.
AgainForFree(row) == [row EXCEPT !.pc = "page"]

\* The next attempt, or the end. A request spends a use in any case.
Again(row) ==
    IF row.attempt = MaxAttempts THEN [row EXCEPT !.pc = "failed"]
    ELSE [row EXCEPT !.pc = "page", !.attempt = @ + 1]

Spent == [download EXCEPT !.uses = @ - 1]

\* The session is over, or the server counts no more uses for it.
Refused == ~session.alive \/ session.uses = 0

SessionRefused ==
    /\ download.pc = "send" /\ Refused
    /\ download' = Again([Spent EXCEPT !.token = FALSE])
    /\ UNCHANGED <<source, changed, there, session>>

\* The server may or may not have seen a request whose answer is lost.
AnswerLost ==
    /\ "lose" \in Faults
    /\ download.pc = "send"
    /\ download' = Again(Spent)
    /\ session' \in {session} \union
          (IF Refused THEN {} ELSE {[session EXCEPT !.uses = @ - 1]})
    /\ UNCHANGED <<source, changed, there>>

\* Any other answer but a page.
NotRetryable ==
    /\ "refuse" \in Faults
    /\ download.pc \in {"login", "send"}
    /\ download' = [download EXCEPT !.pc = "failed"]
    /\ UNCHANGED <<source, changed, there, session>>

\* Nobody compares what two pages say of the whole.
NeverMoved(row) == FALSE

\* A later page reports another number of records than the first: the source changed.
Moved(row) ==
    /\ row.page # 1
    /\ row.total # Len(source) \/ row.pages # PagesOf(Len(source))

\* _all_pages, for one page: totals, keys that appear twice, and after the last page the count.
Took(row) ==
    LET rows == row.rows \union PageOf(row.page)
        first == IF row.page = 1
                 THEN [row EXCEPT !.total = Len(source), !.pages = PagesOf(Len(source))] ELSE row
    IN  IF Moved(row) \/ row.rows \intersect PageOf(row.page) # {}
        THEN [row EXCEPT !.pc = "failed"]
        ELSE [first EXCEPT !.rows = rows, !.page = @ + 1, !.attempt = 1,
                 !.pc = IF row.page < first.pages THEN "page"
                        ELSE IF Cardinality(rows) = first.total THEN "done" ELSE "failed"]

PageArrives ==
    /\ download.pc = "send" /\ ~Refused
    /\ session' = [session EXCEPT !.uses = @ - 1]
    /\ there' = IF download.page = 1 THEN ToSet(source) ELSE there
    /\ download' = Took(Spent)
    /\ UNCHANGED <<source, changed>>

-----------------------------------------------------------------------------
Init ==
    /\ source = First /\ changed = 0 /\ there = {}
    /\ session = [uses |-> 0, alive |-> FALSE]
    /\ download = [pc |-> "page", attempt |-> 1, tries |-> 1, token |-> FALSE, old |-> FALSE,
                   uses |-> 0, page |-> 1, total |-> 0, pages |-> 0, rows |-> {}]

\* What the connector does; every request returns, or its timeout ends it.
Step == StartLogin \/ LoggedIn \/ LoginLost \/ Ready \/ SessionRefused \/ AnswerLost
        \/ NotRetryable \/ PageArrives

Next == Step \/ ChangeSource \/ TokenAges \/ SessionEnds

Fairness == WF_vars(Step)

Spec == Init /\ [][Next]_vars /\ Fairness

-----------------------------------------------------------------------------
\* The state of the connector, whose counts stay within what a session and a request allow.
TypeOK ==
    /\ source \in Seq(Records) /\ changed \in 0..MaxChanges /\ there \subseteq Records
    /\ session \in [uses : 0..MaxUses, alive : BOOLEAN]
    /\ download \in Download /\ download.uses <= MaxUses

\* All or nothing: a download that ends well has every record that was in the source all
\* along, whatever was lost, truncated, inserted before them or dropped after them.
NeverPartial == download.pc = "done" => there \subseteq download.rows

\* The client renews in time: a session that is alive is never refused for its uses, though
\* requests that got no answer spend them too.
UsesLast == download.pc = "send" /\ session.alive => session.uses > 0

\* Every download ends, with its rows or with an error, however often its session is refused.
DownloadEnds == <>Ended
=============================================================================
