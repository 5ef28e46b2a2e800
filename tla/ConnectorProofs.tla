-------------------------- MODULE ConnectorProofs --------------------------
(* Proofs about Connector, for every source, page size and bound. That a       *)
(* session lasts rests on the client counting no fewer uses than the server;   *)
(* that no record is missed, on records only ever moving to later pages: what  *)
(* stayed in the source and lies before the next page has been read.           *)
EXTENDS Connector, SequenceTheorems, TLAPS

CountedByBoth ==
    /\ download.token /\ session.alive => download.uses <= session.uses
    /\ download.pc = "send" => download.token /\ download.uses > 0

\* What stayed in the source and is on a page before the next one has been read.
ReadSoFar ==
    /\ ~Ended =>
           /\ there \subseteq ToSet(source)
           /\ \A k \in DOMAIN source :
                  k <= (download.page - 1) * PageSize /\ source[k] \in there
                  => source[k] \in download.rows
    /\ NeverPartial

-----------------------------------------------------------------------------
LEMMA Bounds ==
    /\ PageSize \in Nat \ {0} /\ MaxAttempts \in Nat \ {0} /\ MaxUses \in Nat \ {0}
    /\ Margin \in Nat /\ Margin < MaxUses /\ MaxChanges \in Nat
    /\ First \in Seq(Records)
    /\ Changes \subseteq {"append", "insert", "drop_last", "remove"}
<1>1. \A n \in {PageSize, MaxAttempts, MaxUses} : n \in Nat \ {0}
  BY ConnectorAssumption
<1> QED
  BY <1>1, ConnectorAssumption

(* The pages of n records hold all of them.                                   *)
LEMMA PagesCover ==
    ASSUME NEW n \in Nat
    PROVE  PagesOf(n) \in Nat /\ n <= PagesOf(n) * PageSize
<1>1. PageSize \in Nat /\ PageSize > 0
  BY Bounds
<1> DEFINE a == n + PageSize - 1
<1>2. a \in Nat
  BY <1>1
<1>3. /\ a \div PageSize \in Int /\ a % PageSize \in 0..PageSize - 1
      /\ a = (PageSize * (a \div PageSize)) + (a % PageSize)
  BY <1>1, <1>2
<1>4. PageSize * (a \div PageSize) >= n
  BY <1>1, <1>3
<1>5. a \div PageSize >= 0
  BY <1>1, <1>2, <1>4
<1> QED
  BY <1>1, <1>3, <1>4, <1>5 DEF PagesOf

(* A request that got no page costs an attempt and leaves what was read.      *)
LEMMA AgainRow ==
    ASSUME NEW row \in Download
    PROVE  /\ Again(row) \in Download /\ Again(row).pc \in {"page", "failed"}
           /\ Again(row).token = row.token /\ Again(row).uses = row.uses
           /\ Again(row).page = row.page /\ Again(row).rows = row.rows
<1>1. CASE row.attempt = MaxAttempts
  <2> DEFINE new == [row EXCEPT !.pc = "failed"]
  <2>1. new \in Download
    BY ZenonT(60) DEF Download
  <2>2. new.pc = "failed" /\ new.token = row.token /\ new.uses = row.uses /\ new.page = row.page
        /\ new.rows = row.rows
    BY DEF Download
  <2>3. Again(row) = new
    BY <1>1 DEF Again
  <2> HIDE DEF new
  <2> QED
    BY <2>1, <2>2, <2>3
<1>2. CASE row.attempt # MaxAttempts
  <2> DEFINE new == [row EXCEPT !.pc = "page", !.attempt = @ + 1]
  <2>1. row.attempt + 1 \in 1..MaxAttempts
    <3>1. row.attempt \in 1..MaxAttempts
      BY DEF Download
    <3> QED
      BY <1>2, <3>1, Bounds
  <2>2. new \in Download
    BY <2>1, ZenonT(60) DEF Download
  <2>3. new.pc = "page" /\ new.token = row.token /\ new.uses = row.uses /\ new.page = row.page
        /\ new.rows = row.rows
    BY DEF Download
  <2>4. Again(row) = new
    BY <1>2 DEF Again
  <2> HIDE DEF new
  <2> QED
    BY <2>2, <2>3, <2>4
<1> QED
  BY <1>1, <1>2

(* A request spends a use and nothing else.                                   *)
LEMMA SpentRow ==
    ASSUME TypeOK
    PROVE  /\ Spent \in Download /\ Spent.uses = download.uses - 1 /\ Spent.uses <= MaxUses
           /\ Spent.pc = download.pc /\ Spent.token = download.token /\ Spent.page = download.page
           /\ Spent.rows = download.rows /\ Spent.total = download.total
           /\ Spent.pages = download.pages
<1>1. download \in Download /\ download.uses \in Int /\ download.uses <= MaxUses
  BY DEF TypeOK, Download
<1>2. download.uses - 1 \in Int /\ download.uses - 1 <= MaxUses
  BY <1>1, Bounds
<1>3. Spent \in Download
  BY <1>1, <1>2, ZenonT(60) DEF Spent, Download
<1> QED
  BY <1>1, <1>2, <1>3 DEF Spent, Download

(* A page that is taken adds its records; the last one is the last the first  *)
(* page announced, and no page saw another number of records.                 *)
LEMMA TookRow ==
    ASSUME NEW row \in Download, source \in Seq(Records)
    PROVE  /\ Took(row) \in Download /\ Took(row).pc \in {"page", "done", "failed"}
           /\ Took(row).token = row.token /\ Took(row).uses = row.uses
           /\ Took(row).pc # "failed" =>
                 /\ Took(row).page = row.page + 1
                 /\ Took(row).rows = row.rows \union PageOf(row.page)
           /\ Took(row).pc = "done" => PagesOf(Len(source)) <= row.page
<1> DEFINE rows == row.rows \union PageOf(row.page)
           first == IF row.page = 1
                    THEN [row EXCEPT !.total = Len(source), !.pages = PagesOf(Len(source))] ELSE row
           place == IF row.page < first.pages THEN "page"
                    ELSE IF Cardinality(rows) = first.total THEN "done" ELSE "failed"
           failed == [row EXCEPT !.pc = "failed"]
           taken == [first EXCEPT !.rows = rows, !.page = @ + 1, !.attempt = 1, !.pc = place]
<1>1. Len(source) \in Nat /\ Len(source) \in Int /\ PagesOf(Len(source)) \in Int
  BY PagesCover
<1>2. PageOf(row.page) \subseteq Records
  BY DEF PageOf
<1>3. first \in Download
  <2>1. [row EXCEPT !.total = Len(source), !.pages = PagesOf(Len(source))] \in Download
    BY <1>1, ZenonT(60) DEF Download
  <2> QED
    BY <2>1
<1>4. /\ first.page = row.page /\ first.token = row.token /\ first.uses = row.uses
      /\ ~Moved(row) => first.pages = PagesOf(Len(source))
  BY DEF Download, Moved
<1>5. first.page + 1 \in Nat \ {0} /\ 1 \in 1..MaxAttempts /\ rows \subseteq Records
  <2>1. first.page \in Nat \ {0} /\ row.rows \subseteq Records
    BY <1>3 DEF Download
  <2> QED
    BY <1>2, <2>1, Bounds
<1>6. place \in {"page", "done", "failed"}
  OBVIOUS
<1>7. place = "done" => ~(row.page < first.pages)
  OBVIOUS
<1>8. Took(row) = IF Moved(row) \/ row.rows \intersect PageOf(row.page) # {} THEN failed ELSE taken
  BY DEF Took
<1> HIDE DEF first, place, rows
<1>9. taken \in Download
  BY <1>3, <1>5, <1>6, ZenonT(60) DEF Download
<1>10. failed \in Download /\ failed.pc = "failed" /\ failed.token = row.token
       /\ failed.uses = row.uses
  <2>1. failed \in Download
    BY ZenonT(60) DEF Download
  <2> QED
    BY <2>1 DEF Download
<1>11. /\ taken.page = row.page + 1 /\ taken.rows = rows /\ taken.pc = place
       /\ taken.token = row.token /\ taken.uses = row.uses
  BY <1>3, <1>4 DEF Download
<1> HIDE DEF failed, taken
<1>12. CASE Took(row) = failed
  BY <1>10, <1>12
<1>13. CASE ~Moved(row) /\ Took(row) = taken
  <2>1. place = "done" => PagesOf(Len(source)) <= row.page
    <3>1. row.page \in Int /\ first.pages \in Int
      BY <1>3 DEF Download
    <3> QED
      BY <1>1, <1>4, <1>7, <1>13, <3>1
  <2> QED
    BY <1>6, <1>9, <1>11, <1>13, <2>1 DEF rows
<1> QED
  BY <1>8, <1>12, <1>13

-----------------------------------------------------------------------------
\* The types and the session

(* A record that comes or goes moves no other one to an earlier place, unless *)
(* it goes from before the end.                                               *)
LEMMA ChangedSource ==
    ASSUME source \in Seq(Records), NEW kind \in Changes, NEW new \in Changed(kind),
           kind \in {"append", "insert", "drop_last", "remove"},
           kind \in {"drop_last", "remove"} => source # <<>>
    PROVE  /\ new \in Seq(Records)
           /\ kind # "remove" =>
                 \A k \in DOMAIN new :
                     \/ new[k] \notin ToSet(source)
                     \/ \E j \in DOMAIN source : j <= k /\ new[k] = source[j]
<1>1. Len(source) \in Nat /\ DOMAIN source = 1..Len(source)
  OBVIOUS
<1>2. CASE kind = "append"
  <2>1. PICK r \in Records \ ToSet(source) : new = Append(source, r)
    BY <1>2 DEF Changed
  <2>2. /\ new \in Seq(Records) /\ Len(new) = Len(source) + 1 /\ new[Len(source) + 1] = r
        /\ \A k \in 1..Len(source) : new[k] = source[k]
    BY <2>1, AppendProperties
  <2>3. DOMAIN new = 1..Len(source) + 1
    BY <2>2
  <2>4. \A k \in DOMAIN new : k \in DOMAIN source \/ k = Len(source) + 1
    BY <1>1, <2>3
  <2> QED
    BY <1>1, <2>1, <2>2, <2>4
<1>3. CASE kind = "insert"
  <2>1. PICK r \in Records \ ToSet(source) : new = <<r>> \o source
    BY <1>3 DEF Changed
  <2>2. <<r>> \in Seq(Records) /\ Len(<<r>>) = 1
    BY <2>1
  <2>3. /\ <<r>> \o source \in Seq(Records) /\ Len(<<r>> \o source) = 1 + Len(source)
        /\ \A k \in 1..1 + Len(source) :
               (<<r>> \o source)[k] = IF k <= 1 THEN <<r>>[k] ELSE source[k - 1]
    BY <2>2, ConcatProperties
  <2>4. /\ new \in Seq(Records) /\ DOMAIN new = 1..1 + Len(source) /\ new[1] = r
        /\ \A k \in DOMAIN new : k # 1 => k - 1 \in 1..Len(source) /\ new[k] = source[k - 1]
    BY <1>1, <2>1, <2>3
  <2> QED
    BY <1>1, <2>1, <2>4
<1>4. CASE kind = "drop_last"
  <2>1. new = SubSeq(source, 1, Len(source) - 1)
    BY <1>4 DEF Changed, Front
  <2>2. \A k \in 1..Len(source) - 1 : source[k] \in Records
    OBVIOUS
  <2>3. /\ SubSeq(source, 1, Len(source) - 1) \in Seq(Records)
        /\ \A k \in 1..Len(source) - 1 - 1 + 1 :
               SubSeq(source, 1, Len(source) - 1)[k] = source[1 + k - 1]
        /\ Len(SubSeq(source, 1, Len(source) - 1))
           = IF 1 <= Len(source) - 1 THEN Len(source) - 1 - 1 + 1 ELSE 0
    BY <1>1, <2>2, SubSeqProperties
  <2>4. \A k \in DOMAIN new : k \in DOMAIN source /\ new[k] = source[k]
    BY <1>1, <2>1, <2>3
  <2> QED
    BY <1>1, <2>1, <2>3, <2>4
<1>5. CASE kind = "remove"
  <2>1. PICK k \in DOMAIN source :
            new = SubSeq(source, 1, k - 1) \o SubSeq(source, k + 1, Len(source))
    BY <1>5 DEF Changed, RemoveAt
  <2>2. SubSeq(source, 1, k - 1) \in Seq(Records)
    <3>1. 1 \in Int /\ k - 1 \in Int /\ \A i \in 1..k - 1 : source[i] \in Records
      BY <2>1
    <3> QED
      BY <3>1, SubSeqProperties
  <2>3. SubSeq(source, k + 1, Len(source)) \in Seq(Records)
    <3>1. k + 1 \in Int /\ Len(source) \in Int
          /\ \A i \in k + 1..Len(source) : source[i] \in Records
      BY <2>1
    <3> QED
      BY <3>1, SubSeqProperties
  <2> QED
    BY <1>5, <2>1, <2>2, <2>3, ConcatProperties
<1> QED
  BY <1>2, <1>3, <1>4, <1>5

LEMMA InitInv == Init => TypeOK /\ CountedByBoth /\ ReadSoFar
<1> SUFFICES ASSUME Init PROVE TypeOK /\ CountedByBoth /\ ReadSoFar
  OBVIOUS
<1>1. 0 \in 0..MaxUses /\ 0 \in 0..MaxChanges /\ 1 \in 1..MaxAttempts /\ 0 <= MaxUses
  BY Bounds
<1>2. download \in Download
  BY <1>1 DEF Init, Download
<1>3. TypeOK
  BY <1>1, <1>2, Bounds DEF Init, TypeOK
<1> QED
  BY <1>3 DEF Init, CountedByBoth, ReadSoFar, NeverPartial

-----------------------------------------------------------------------------
\* The steps

LEMMA ChangeSourceStep ==
    ASSUME TypeOK, CountedByBoth, ChangeSource
    PROVE  TypeOK' /\ CountedByBoth'
<1>1. PICK kind \in Changes :
          /\ kind \in {"drop_last", "remove"} => source # <<>>
          /\ source' \in Changed(kind)
  BY DEF ChangeSource
<1>2. kind \in {"append", "insert", "drop_last", "remove"} /\ source \in Seq(Records)
  BY Bounds DEF TypeOK
<1>3. source' \in Seq(Records)
  BY <1>1, <1>2, ChangedSource
<1>4. changed' \in 0..MaxChanges
  BY Bounds DEF ChangeSource, TypeOK
<1>5. TypeOK'
  BY <1>3, <1>4 DEF ChangeSource, TypeOK
<1> QED
  BY <1>5 DEF ChangeSource, CountedByBoth

(* What stayed in the source is at the same place or a later one.             *)
LEMMA ChangeSourceRead ==
    ASSUME TypeOK, ReadSoFar, "remove" \notin Changes, ChangeSource
    PROVE  ReadSoFar'
<1>1. PICK kind \in Changes :
          /\ kind \in {"drop_last", "remove"} => source # <<>>
          /\ source' \in Changed(kind)
  BY DEF ChangeSource
<1>2. /\ kind \in {"append", "insert", "drop_last", "remove"} /\ source \in Seq(Records)
      /\ kind # "remove"
  BY Bounds DEF TypeOK
<1>3. /\ source' \in Seq(Records)
      /\ \A k \in DOMAIN source' :
             \/ source'[k] \notin ToSet(source)
             \/ \E j \in DOMAIN source : j <= k /\ source'[k] = source[j]
  BY <1>1, <1>2, ChangedSource
<1>4. /\ ~Ended /\ UNCHANGED download /\ there' = there \intersect ToSet(source')
  BY DEF ChangeSource
<1>5. ASSUME NEW k \in DOMAIN source', k <= (download.page - 1) * PageSize, source'[k] \in there'
      PROVE  source'[k] \in download.rows
  <2>1. source'[k] \in there /\ there \subseteq ToSet(source)
    BY <1>4, <1>5 DEF ReadSoFar
  <2>2. PICK j \in DOMAIN source : j <= k /\ source'[k] = source[j]
    BY <1>3, <2>1
  <2>3. j \in Int /\ k \in Int /\ download.page - 1 \in Nat /\ PageSize \in Nat
    BY <1>2, <1>3, Bounds, SMTT(30) DEF TypeOK, Download
  <2> DEFINE bound == (download.page - 1) * PageSize
  <2>4. bound \in Int
    BY <2>3
  <2>5. k <= bound
    BY <1>5
  <2> HIDE DEF bound
  <2>6. j <= bound
    BY <2>2, <2>3, <2>4, <2>5
  <2> QED
    BY <1>4, <2>1, <2>2, <2>6 DEF ReadSoFar, bound
<1>6. there' \subseteq ToSet(source')
  BY <1>4
<1> QED
  BY <1>4, <1>5, <1>6 DEF ReadSoFar, NeverPartial, Ended

(* Everything but a page or a change of the source reads nothing.             *)
LEMMA NothingRead ==
    ASSUME ReadSoFar, UNCHANGED <<source, there>>, ~Ended \/ UNCHANGED download,
           download'.pc # "done" \/ UNCHANGED download,
           download'.page = download.page, download'.rows = download.rows
    PROVE  ReadSoFar'
BY DEF ReadSoFar, NeverPartial, Ended

(* A new place of the connector, with the same token.                         *)
LEMMA PlaceRow ==
    ASSUME TypeOK, NEW pc \in {"login", "send", "failed"},
           NEW tries \in 1..MaxAttempts
    PROVE  LET new == [download EXCEPT !.pc = pc, !.tries = tries]
           IN  /\ new \in Download /\ new.pc = pc /\ new.token = download.token
               /\ new.uses = download.uses /\ new.page = download.page
               /\ new.rows = download.rows
<1>1. download \in Download
  BY DEF TypeOK
<1> DEFINE new == [download EXCEPT !.pc = pc, !.tries = tries]
<1>2. new \in Download
  BY <1>1, ZenonT(60) DEF Download
<1> QED
  BY <1>1, <1>2 DEF Download

LEMMA LoginStep ==
    ASSUME TypeOK, CountedByBoth, StartLogin \/ LoggedIn \/ LoginLost
    PROVE  TypeOK' /\ CountedByBoth' /\ (ReadSoFar => ReadSoFar')
<1>1. download \in Download /\ session \in [uses : 0..MaxUses, alive : BOOLEAN]
      /\ download.tries \in 1..MaxAttempts /\ 1 \in 1..MaxAttempts
  BY Bounds DEF TypeOK, Download
<1>2. CASE StartLogin
  <2> DEFINE new == [download EXCEPT !.pc = "login", !.tries = 1]
  <2>1. /\ new \in Download /\ new.pc = "login" /\ new.token = download.token
        /\ new.uses = download.uses /\ new.page = download.page /\ new.rows = download.rows
    BY <1>1, PlaceRow
  <2>2. download' = new /\ UNCHANGED <<source, changed, there, session>> /\ ~Ended
    BY <1>2 DEF StartLogin, Ended
  <2> HIDE DEF new
  <2>3. TypeOK' /\ CountedByBoth'
    BY <2>1, <2>2 DEF TypeOK, CountedByBoth
  <2> QED
    BY <2>1, <2>2, <2>3, NothingRead
<1>3. CASE LoggedIn
  <2> DEFINE new == [download EXCEPT !.pc = "send", !.token = TRUE, !.old = FALSE, !.uses = MaxUses]
  <2>1. MaxUses \in Int /\ MaxUses \in 0..MaxUses /\ MaxUses > 0
    BY Bounds
  <2>2. new \in Download
    BY <1>1, <2>1, ZenonT(60) DEF Download
  <2>3. /\ new.pc = "send" /\ new.token /\ new.uses = MaxUses /\ new.page = download.page
        /\ new.rows = download.rows
    BY <1>1 DEF Download
  <2>4. /\ download' = new /\ session' = [uses |-> MaxUses, alive |-> TRUE]
        /\ UNCHANGED <<source, changed, there>> /\ ~Ended
    BY <1>3 DEF LoggedIn, Ended
  <2> HIDE DEF new
  <2>5. TypeOK' /\ CountedByBoth'
    BY <2>1, <2>2, <2>3, <2>4 DEF TypeOK, CountedByBoth
  <2> QED
    BY <2>3, <2>4, <2>5, NothingRead
<1>4. CASE LoginLost
  <2>1. UNCHANGED <<source, changed, there, session>> /\ download.pc = "login" /\ ~Ended
    BY <1>4 DEF LoginLost, Ended
  <2>2. PICK pc \in {"login", "failed"}, tries \in 1..MaxAttempts :
            download' = [download EXCEPT !.pc = pc, !.tries = tries]
    <3>1. CASE download.tries = MaxAttempts
      <4>1. download' = [download EXCEPT !.pc = "failed", !.tries = download.tries]
        BY <1>1, <1>4, <3>1 DEF LoginLost, Download
      <4> QED
        BY <1>1, <4>1
    <3>2. CASE download.tries # MaxAttempts
      <4>1. download' = [download EXCEPT !.pc = "login", !.tries = download.tries + 1]
        BY <1>1, <1>4, <2>1, <3>2 DEF LoginLost, Download
      <4>2. download.tries + 1 \in 1..MaxAttempts
        BY <1>1, <3>2, Bounds
      <4> QED
        BY <4>1, <4>2
    <3> QED
      BY <3>1, <3>2
  <2> DEFINE new == [download EXCEPT !.pc = pc, !.tries = tries]
  <2>3. /\ new \in Download /\ new.pc = pc /\ new.token = download.token
        /\ new.uses = download.uses /\ new.page = download.page /\ new.rows = download.rows
    <3>1. pc \in {"login", "send", "failed"} /\ tries \in 1..MaxAttempts
      BY <2>2
    <3> QED
      BY <3>1, PlaceRow
  <2>4. download' = new
    BY <2>2
  <2> HIDE DEF new
  <2>5. TypeOK' /\ CountedByBoth'
    BY <2>1, <2>3, <2>4 DEF TypeOK, CountedByBoth
  <2> QED
    BY <2>1, <2>3, <2>4, <2>5, NothingRead
<1> QED
  BY <1>2, <1>3, <1>4

(* A request goes out, or its answer ends the download.                       *)
LEMMA ReadyStep ==
    ASSUME TypeOK, CountedByBoth, Ready \/ NotRetryable
    PROVE  TypeOK' /\ CountedByBoth' /\ (ReadSoFar => ReadSoFar')
<1>1. UNCHANGED <<source, changed, there, session>> /\ ~Ended
  BY DEF Ready, NotRetryable, Ended
<1>2. PICK pc \in {"send", "failed"} :
          /\ download' = [download EXCEPT !.pc = pc]
          /\ pc = "send" => ~NeedsLogin
  BY DEF Ready, NotRetryable
<1> DEFINE new == [download EXCEPT !.pc = pc]
<1>3. download \in Download
  BY DEF TypeOK
<1>4. new \in Download
  BY <1>2, <1>3, ZenonT(60) DEF Download
<1>5. /\ new.pc = pc /\ new.token = download.token /\ new.uses = download.uses
      /\ new.page = download.page /\ new.rows = download.rows
  BY <1>3 DEF Download
<1>6. download' = new
  BY <1>2
<1> HIDE DEF new
<1>7. TypeOK'
  BY <1>1, <1>4, <1>5, <1>6 DEF TypeOK
<1>8. CountedByBoth'
  <2>1. ~NeedsLogin => download.token /\ download.uses > 0
    BY <1>3, Bounds DEF NeedsLogin, Download
  <2> QED
    BY <1>1, <1>2, <1>5, <1>6, <2>1 DEF CountedByBoth
<1> QED
  BY <1>1, <1>2, <1>5, <1>6, <1>7, <1>8, NothingRead

(* Time passes for the client or the server.                                  *)
LEMMA TimeStep ==
    ASSUME TypeOK, CountedByBoth, TokenAges \/ SessionEnds
    PROVE  TypeOK' /\ CountedByBoth' /\ (ReadSoFar => ReadSoFar')
<1>1. CASE TokenAges
  <2> DEFINE new == [download EXCEPT !.old = TRUE]
  <2>1. download \in Download
    BY DEF TypeOK
  <2>2. new \in Download
    BY <2>1, ZenonT(60) DEF Download
  <2>3. /\ new.pc = download.pc /\ new.token = download.token /\ new.uses = download.uses
        /\ new.page = download.page /\ new.rows = download.rows
    BY <2>1 DEF Download
  <2>4. download' = new /\ UNCHANGED <<source, changed, there, session>> /\ ~Ended
    BY <1>1 DEF TokenAges
  <2> HIDE DEF new
  <2>5. TypeOK' /\ CountedByBoth'
    BY <2>2, <2>3, <2>4 DEF TypeOK, CountedByBoth
  <2> QED
    BY <2>3, <2>4, <2>5, NothingRead DEF Ended
<1>2. CASE SessionEnds
  <2>1. session \in [uses : 0..MaxUses, alive : BOOLEAN]
    BY DEF TypeOK
  <2>2. session' = [session EXCEPT !.alive = FALSE] /\ UNCHANGED <<source, changed, there, download>>
    BY <1>2 DEF SessionEnds
  <2>3. session' \in [uses : 0..MaxUses, alive : BOOLEAN] /\ ~session'.alive
    BY <2>1, <2>2
  <2>4. TypeOK' /\ CountedByBoth'
    BY <2>2, <2>3 DEF TypeOK, CountedByBoth
  <2> QED
    BY <2>2, <2>4, NothingRead
<1> QED
  BY <1>1, <1>2

(* A use that the client counts the server counted at most once.              *)
LEMMA LostStep ==
    ASSUME TypeOK, CountedByBoth, SessionRefused \/ AnswerLost
    PROVE  TypeOK' /\ CountedByBoth' /\ (ReadSoFar => ReadSoFar')
<1>1. /\ Spent \in Download /\ Spent.uses = download.uses - 1 /\ Spent.uses <= MaxUses
      /\ Spent.token = download.token /\ Spent.page = download.page /\ Spent.rows = download.rows
  BY SpentRow
<1>2. UNCHANGED <<source, changed, there>> /\ download.pc = "send" /\ ~Ended
  BY DEF SessionRefused, AnswerLost, Ended
<1>3. PICK row \in Download :
          /\ row.uses = download.uses - 1 /\ row.page = download.page /\ row.rows = download.rows
          /\ row.token => download.token
          /\ download' = Again(row)
  <2>1. CASE SessionRefused
    <3> DEFINE row == [Spent EXCEPT !.token = FALSE]
    <3>1. row \in Download
      BY <1>1, ZenonT(60) DEF Download
    <3>2. row.uses = Spent.uses /\ row.page = Spent.page /\ row.rows = Spent.rows /\ ~row.token
      BY <1>1 DEF Download
    <3>3. download' = Again(row)
      BY <2>1 DEF SessionRefused
    <3> HIDE DEF row
    <3> QED
      BY <1>1, <3>1, <3>2, <3>3
  <2>2. CASE AnswerLost
    BY <1>1, <2>2 DEF AnswerLost
  <2> QED
    BY <2>1, <2>2
<1>4. /\ download' \in Download /\ download'.pc \in {"page", "failed"}
      /\ download'.token = row.token /\ download'.uses = row.uses
      /\ download'.page = row.page /\ download'.rows = row.rows
  BY <1>3, AgainRow
<1>5. /\ session \in [uses : 0..MaxUses, alive : BOOLEAN] /\ download.uses \in Int
      /\ download.uses <= MaxUses
  BY DEF TypeOK, Download
<1>6. /\ session' \in [uses : 0..MaxUses, alive : BOOLEAN] /\ session'.alive = session.alive
      /\ session'.uses >= session.uses - 1
  <2>1. CASE session' = session
    BY <1>5, <2>1, Bounds
  <2>2. CASE ~Refused /\ session' = [session EXCEPT !.uses = @ - 1]
    <3>1. session.uses - 1 \in 0..MaxUses
      BY <1>5, <2>2, Bounds DEF Refused
    <3>2. session'.uses = session.uses - 1
      BY <1>5, <2>2
    <3> QED
      BY <1>5, <2>2, <3>1, <3>2, Bounds
  <2> QED
    BY <2>1, <2>2 DEF SessionRefused, AnswerLost
<1>7. TypeOK'
  BY <1>2, <1>3, <1>4, <1>5, <1>6, Bounds DEF TypeOK
<1>8. CountedByBoth'
  BY <1>3, <1>4, <1>5, <1>6, Bounds DEF CountedByBoth
<1> QED
  BY <1>2, <1>3, <1>4, <1>7, <1>8, NothingRead

(* A page is taken, with the use both count.                                  *)
LEMMA PageStep ==
    ASSUME TypeOK, CountedByBoth, PageArrives
    PROVE  TypeOK' /\ CountedByBoth'
<1>1. /\ Spent \in Download /\ Spent.uses = download.uses - 1 /\ Spent.uses <= MaxUses
      /\ Spent.token = download.token
  BY SpentRow
<1>2. source \in Seq(Records) /\ there \subseteq Records
  BY DEF TypeOK
<1>3. /\ download' \in Download /\ download'.pc \in {"page", "done", "failed"}
      /\ download'.token = download.token /\ download'.uses = download.uses - 1
  BY <1>1, <1>2, TookRow DEF PageArrives
<1>4. /\ session \in [uses : 0..MaxUses, alive : BOOLEAN] /\ download.uses \in Int
      /\ download.uses <= MaxUses
  BY DEF TypeOK, Download
<1>5. session' = [session EXCEPT !.uses = @ - 1] /\ session.uses # 0
  BY DEF PageArrives, Refused
<1>6. session.uses - 1 \in 0..MaxUses
  BY <1>4, <1>5, Bounds
<1>7. /\ session' \in [uses : 0..MaxUses, alive : BOOLEAN] /\ session'.alive = session.alive
      /\ session'.uses = session.uses - 1
  BY <1>4, <1>5, <1>6
<1>8. there' \subseteq Records
  BY <1>2 DEF PageArrives, ToSet
<1>9. TypeOK'
  BY <1>3, <1>4, <1>7, <1>8, Bounds DEF TypeOK, PageArrives
<1> QED
  BY <1>3, <1>4, <1>7, <1>9 DEF CountedByBoth

(* What lies on the page that is taken is read, and after the last page       *)
(* nothing of the source lies further on.                                     *)
LEMMA PageRead ==
    ASSUME TypeOK, ReadSoFar, PageArrives
    PROVE  ReadSoFar'
<1>1. /\ Spent \in Download /\ Spent.page = download.page /\ Spent.rows = download.rows
  BY SpentRow
<1>2. source \in Seq(Records) /\ download.page \in Nat \ {0}
  BY DEF TypeOK, Download
<1>3. /\ download'.pc \in {"page", "done", "failed"}
      /\ download'.pc # "failed" =>
            /\ download'.page = download.page + 1
            /\ download'.rows = download.rows \union PageOf(download.page)
      /\ download'.pc = "done" => PagesOf(Len(source)) <= download.page
  BY <1>1, <1>2, TookRow DEF PageArrives
<1>4. /\ UNCHANGED source /\ ~Ended
      /\ there' = IF download.page = 1 THEN ToSet(source) ELSE there
  BY DEF PageArrives, Ended
<1> DEFINE before == (download.page - 1) * PageSize
           upTo == download.page * PageSize
<1>5. before \in Int /\ upTo \in Int /\ (download.page = 1 => before = 0)
  BY <1>2, Bounds
<1>6. ASSUME NEW k \in DOMAIN source, k <= upTo, source[k] \in there', download'.pc # "failed"
      PROVE  source[k] \in download'.rows
  <2>1. k \in Int /\ k >= 1
    BY <1>2
  <2>2. CASE before < k
    BY <1>3, <1>6, <2>2 DEF PageOf
  <2>3. CASE k <= before
    <3>1. download.page # 1
      BY <1>5, <2>1, <2>3
    <3> QED
      BY <1>3, <1>4, <1>6, <2>3, <3>1 DEF ReadSoFar
  <2> QED
    BY <1>5, <2>1, <2>2, <2>3
<1>7. there' \subseteq ToSet(source')
  BY <1>4 DEF ReadSoFar
<1>8. CASE download'.pc = "failed"
  BY <1>8 DEF ReadSoFar, NeverPartial, Ended
<1>9. CASE download'.pc = "page"
  <2>1. (download'.page - 1) * PageSize = upTo
    BY <1>2, <1>3, <1>9
  <2> QED
    BY <1>4, <1>6, <1>7, <1>9, <2>1 DEF ReadSoFar, NeverPartial
<1>10. CASE download'.pc = "done"
  <2>1. Len(source) \in Nat /\ DOMAIN source = 1..Len(source)
    BY <1>2
  <2>2. PagesOf(Len(source)) \in Nat /\ Len(source) <= PagesOf(Len(source)) * PageSize
    BY <2>1, PagesCover
  <2>3. PagesOf(Len(source)) * PageSize <= upTo
    <3>1. \A a, b, c \in Nat : a <= b => a * c <= b * c
      OBVIOUS
    <3> QED
      BY <1>2, <1>3, <1>10, <2>2, <3>1, Bounds
  <2>4. \A k \in DOMAIN source : k <= upTo
    <3>1. PagesOf(Len(source)) * PageSize \in Int
      BY <2>2, Bounds
    <3> HIDE DEF upTo
    <3> QED
      BY <1>5, <2>1, <2>2, <2>3, <3>1
  <2>5. there' \subseteq download'.rows
    <3> SUFFICES ASSUME NEW r \in there' PROVE r \in download'.rows
      OBVIOUS
    <3>1. PICK k \in DOMAIN source : source[k] = r
      BY <1>4, <1>7 DEF ToSet
    <3> QED
      BY <1>6, <1>10, <2>4, <3>1
  <2> QED
    BY <1>10, <2>5 DEF ReadSoFar, NeverPartial, Ended
<1> QED
  BY <1>3, <1>8, <1>9, <1>10

-----------------------------------------------------------------------------
LEMMA StepInv == TypeOK /\ CountedByBoth /\ [Next]_vars => TypeOK' /\ CountedByBoth'
<1> SUFFICES ASSUME TypeOK, CountedByBoth, [Next]_vars PROVE TypeOK' /\ CountedByBoth'
  OBVIOUS
<1>1. CASE Step
  BY <1>1, LoginStep, ReadyStep, LostStep, PageStep DEF Step
<1>2. CASE ChangeSource \/ TokenAges \/ SessionEnds
  BY <1>2, ChangeSourceStep, TimeStep
<1>3. CASE UNCHANGED vars
  BY <1>3 DEF vars, TypeOK, CountedByBoth
<1> QED
  BY <1>1, <1>2, <1>3 DEF Next

LEMMA StepRead ==
    ASSUME "remove" \notin Changes
    PROVE  TypeOK /\ CountedByBoth /\ ReadSoFar /\ [Next]_vars => ReadSoFar'
<1> SUFFICES ASSUME TypeOK, CountedByBoth, ReadSoFar, [Next]_vars PROVE ReadSoFar'
  OBVIOUS
<1>1. CASE Step
  BY <1>1, LoginStep, ReadyStep, LostStep, PageRead DEF Step
<1>2. CASE ChangeSource \/ TokenAges \/ SessionEnds
  BY <1>2, ChangeSourceRead, TimeStep
<1>3. CASE UNCHANGED vars
  BY <1>3, NothingRead DEF vars
<1> QED
  BY <1>1, <1>2, <1>3 DEF Next

(* The connector keeps its counts within what a session and a request allow.  *)
THEOREM ConnectorTypeCorrect == Spec => []TypeOK
<1> QED
  BY InitInv, StepInv, PTL DEF Spec

(* A session that is alive is never refused for its uses (_ensure_token).     *)
THEOREM ConnectorUsesLast == Spec => []UsesLast
<1>1. TypeOK /\ CountedByBoth => UsesLast
  <2> SUFFICES ASSUME TypeOK, CountedByBoth, download.pc = "send", session.alive
               PROVE  session.uses > 0
    BY DEF UsesLast
  <2>1. download.uses \in Int /\ session.uses \in Int
    BY DEF TypeOK, Download
  <2> QED
    BY <2>1 DEF CountedByBoth
<1> QED
  BY <1>1, InitInv, StepInv, PTL DEF Spec

(* A download that ends well has every record that was in the source all      *)
(* along, when records never leave the source from before its end; then they  *)
(* may, and MCConnectorRemoved shows what is missed.                          *)
THEOREM ConnectorNeverPartial ==
    ASSUME "remove" \notin Changes
    PROVE  Spec => []NeverPartial
<1>1. TypeOK /\ CountedByBoth /\ ReadSoFar /\ [Next]_vars => ReadSoFar'
  BY StepRead
<1>2. ReadSoFar => NeverPartial
  BY DEF ReadSoFar
<1> QED
  BY <1>1, <1>2, InitInv, StepInv, PTL DEF Spec
=============================================================================
