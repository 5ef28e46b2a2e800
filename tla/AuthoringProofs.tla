-------------------------- MODULE AuthoringProofs --------------------------
(* Proofs about Authoring, for every set of configurations and norms and every *)
(* bound. Three paths publish: a draft, a norm, a conversation. Each of them    *)
(* hands over artifacts it checked earlier, in another transaction. That they   *)
(* are still checked rests on codes and texts of rules that only grow (Grows).  *)
(* IInv follows the checked artifacts from where they are checked to where they *)
(* are published; Kept follows an adopted norm the same way.                    *)
EXTENDS Authoring, SequenceTheorems, FiniteSetTheorems, TLAPS

\* Artifacts of rows and codes that exist, and those whose report is valid.
Exist(artifacts) == \A a \in artifacts : a.rule \in DOMAIN rules /\ a.code <= Len(codes)
AllChecked(artifacts) == Exist(artifacts) /\ \A a \in artifacts : Checked(a.code)

TablesInv ==
    /\ rules \in Seq(RuleRow) /\ Len(rules) <= MaxRules
    /\ codes \in Seq(BOOLEAN) /\ Len(codes) <= MaxCodes
    /\ \A r \in DOMAIN rules : rules[r].code <= Len(codes)

VersionsInv ==
    /\ versions \in Seq(Snapshot) /\ versions # <<>> /\ Len(versions) <= MaxVersions
    /\ \A v \in DOMAIN versions : AllChecked(versions[v].rules)

\* A draft, or none.
DraftRow == [revision : 0..MaxRevision, snapshot : Snapshot, base : 0..MaxVersions,
             validated : -1..MaxPast]
DraftInv ==
    /\ draft \in DraftRow /\ draft.base <= Len(versions)
    /\ draft # NoDraft => draft.revision # 0 /\ draft.base # 0
    /\ Exist(draft.snapshot.rules)
    /\ draft.validated # -1 => AllChecked(draft.snapshot.rules)

JobsInv ==
    /\ compiling \in [1..MaxRules -> Job] /\ request \in Job
    /\ request # NoJob => request.rule \in DOMAIN rules

NormsInv ==
    /\ norms \in [Norms -> Norm]
    /\ \A n \in Norms :
          /\ norms[n].running => norms[n].status = "open"
          /\ norms[n].code <= Len(codes) /\ norms[n].text <= Len(rules)
          /\ norms[n].valid /\ n \in Deterministic => Checked(norms[n].code)

SessionRow ==
    [revision : 0..MaxTurns + 1, base : Snapshot, from : [active : Nat, past : Nat], plan : Plan,
     accepted : BOOLEAN, preview : Preview \union {NoPreview},
     preparing : Preview \union {NoPreview}, published : BOOLEAN]
SessionInv ==
    /\ session \in SessionRow
    /\ session # NoSession => session.revision # 0
    /\ ~session.published => session.revision <= MaxTurns
    /\ Exist(session.base.rules)
    /\ Exist(session.preview.kept) /\ Exist(session.preparing.kept)
    /\ New(session.preview) # {} => Checked(session.preview.code)
    /\ session.preview.code <= Len(codes) /\ session.preparing.code = 0

PastInv == past \in 0..MaxPast

IInv == TablesInv /\ VersionsInv /\ DraftInv /\ JobsInv /\ NormsInv /\ SessionInv /\ PastInv

\* Rows of rules keep their place and text, codes what their report said; versions stay.
Grows ==
    /\ Len(rules) <= Len(rules')
    /\ \A r \in DOMAIN rules : rules'[r].text = rules[r].text
    /\ Len(codes) <= Len(codes')
    /\ \A c \in DOMAIN codes : codes'[c] = codes[c]
    /\ Len(versions) <= Len(versions')

-----------------------------------------------------------------------------
\* What growing leaves as it is

(* The assumptions, one fact each.                                            *)
LEMMA Bounds ==
    /\ Start \in Configs /\ Deterministic \subseteq Norms
    /\ MaxRules \in Nat \ {0} /\ MaxCodes \in Nat \ {0} /\ MaxVersions \in Nat \ {0}
    /\ MaxRevision \in Nat \ {0} /\ MaxTurns \in Nat \ {0} /\ MaxPast \in Nat
BY AuthoringAssumption

(* What the tables of rules and codes are.                                    *)
LEMMA TablesFields ==
    ASSUME TablesInv
    PROVE  /\ Len(rules) \in Nat /\ DOMAIN rules = 1..Len(rules)
           /\ Len(codes) \in Nat /\ DOMAIN codes = 1..Len(codes)
           /\ \A r \in DOMAIN rules : rules[r] \in RuleRow
BY LenProperties, ElementOfSeq DEF TablesInv

(* Artifacts that exist go on existing, and checked ones stay checked.          *)
LEMMA StayChecked ==
    ASSUME TablesInv, TablesInv', Grows
    PROVE  /\ \A c \in Nat : c <= Len(codes) /\ Checked(c) => Checked(c)'
           /\ \A S \in SUBSET Artifact : Exist(S) => Exist(S)'
           /\ \A S \in SUBSET Artifact : AllChecked(S) => AllChecked(S)'
<1>1. /\ Len(rules) \in Nat /\ DOMAIN rules = 1..Len(rules)
      /\ Len(codes) \in Nat /\ DOMAIN codes = 1..Len(codes)
  BY TablesFields
<1>2. /\ Len(rules') \in Nat /\ DOMAIN rules' = 1..Len(rules')
      /\ Len(codes') \in Nat /\ DOMAIN codes' = 1..Len(codes')
  BY LenProperties DEF TablesInv
<1>3. \A c \in Nat : c <= Len(codes) /\ Checked(c) => Checked(c)'
  BY <1>1 DEF Checked, Grows
<1>4. \A S \in SUBSET Artifact : Exist(S) => Exist(S)'
  <2> SUFFICES ASSUME NEW S \in SUBSET Artifact, Exist(S), NEW a \in S
               PROVE  a.rule \in DOMAIN rules' /\ a.code <= Len(codes')
    BY DEF Exist
  <2>1. a.rule \in DOMAIN rules /\ a.code <= Len(codes) /\ a.code \in Nat
    BY Bounds DEF Exist, Artifact
  <2> QED
    BY <1>1, <1>2, <2>1 DEF Grows
<1>5. \A S \in SUBSET Artifact : AllChecked(S) => AllChecked(S)'
  <2> SUFFICES ASSUME NEW S \in SUBSET Artifact, AllChecked(S), NEW a \in S
               PROVE  Checked(a.code)'
    BY <1>4 DEF AllChecked
  <2>1. a.code \in Nat /\ a.code <= Len(codes) /\ Checked(a.code)
    BY Bounds DEF Exist, AllChecked, Artifact
  <2> QED
    BY <1>3, <2>1
<1> QED
  BY <1>3, <1>4, <1>5

(* The texts of rows that exist stay.                                           *)
LEMMA TextsStay ==
    ASSUME TablesInv, Grows, NEW ids \in SUBSET DOMAIN rules
    PROVE  Texts(ids)' = Texts(ids)
<1>1. \A r \in ids : rules'[r].text = rules[r].text
  BY DEF Grows
<1> QED
  BY <1>1 DEF Texts

(* Artifacts that exist name rows.                                            *)
LEMMA KeptIds ==
    ASSUME NEW S \in SUBSET Artifact, Exist(S)
    PROVE  {a.rule : a \in S} \subseteq DOMAIN rules
BY DEF Exist

(* What a preview compiles stays, and so does that it was compiled.             *)
LEMMA PreviewStays ==
    ASSUME TablesInv, TablesInv', Grows, NEW p \in Preview \union {NoPreview},
           Exist(p.kept), New(p) # {} => Checked(p.code), p.code <= Len(codes)
    PROVE  Exist(p.kept)' /\ (New(p)' # {} => Checked(p.code)')
<1>1. p.kept \in SUBSET Artifact /\ p.code \in Nat
  BY Bounds DEF Preview, NoPreview
<1>2. New(p)' = New(p)
  BY <1>1, KeptIds, TextsStay DEF New
<1> QED
  BY <1>1, <1>2, StayChecked

-----------------------------------------------------------------------------
\* Rows that are written

(* The active version is one there is, with checked artifacts only.           *)
LEMMA ActiveFields ==
    ASSUME VersionsInv
    PROVE  /\ Len(versions) \in Nat \ {0} /\ DOMAIN versions = 1..Len(versions)
           /\ Active \in Snapshot /\ AllChecked(Active.rules)
           /\ Active.rules \in SUBSET Artifact /\ Active.config \in Configs
           /\ Active.guidance \in SUBSET Norms
<1>1. Len(versions) \in Nat \ {0} /\ DOMAIN versions = 1..Len(versions)
  BY LenProperties, EmptySeq DEF VersionsInv
<1>2. Len(versions) \in DOMAIN versions
  BY <1>1
<1>3. Active \in Snapshot /\ AllChecked(Active.rules)
  BY <1>1, <1>2, ElementOfSeq DEF VersionsInv, Active
<1> QED
  BY <1>1, <1>3 DEF Snapshot

(* What the fields of the draft are.                                          *)
LEMMA DraftFields ==
    ASSUME DraftInv
    PROVE  /\ draft.snapshot \in Snapshot /\ draft.snapshot.rules \in SUBSET Artifact
           /\ draft.snapshot.config \in Configs /\ draft.snapshot.guidance \in SUBSET Norms
           /\ draft.revision \in 0..MaxRevision /\ draft.base \in 0..MaxVersions
           /\ draft.validated \in -1..MaxPast
BY DEF DraftInv, DraftRow, Snapshot

(* A candidate, and what an edit starts from, has artifacts that exist.       *)
LEMMA CandidateFields ==
    ASSUME VersionsInv, DraftInv
    PROVE  /\ Candidate \in Snapshot /\ Exist(Candidate.rules)
           /\ EditBase \in Snapshot /\ Exist(EditBase.rules)
BY ActiveFields, DraftFields DEF DraftInv, Candidate, EditBase, AllChecked

\* A staged draft has the snapshot, no validation and the base of the old draft.
LEMMA StagedFields ==
    ASSUME VersionsInv, DraftInv, CanStage, NEW s \in Snapshot
    PROVE  /\ Staged(s) \in DraftRow /\ Staged(s).snapshot = s /\ Staged(s).validated = -1
           /\ Staged(s).revision # 0 /\ Staged(s).base # 0 /\ Staged(s).base <= Len(versions)
           /\ Staged(s).base = IF draft = NoDraft THEN Len(versions) ELSE draft.base
<1>1. draft.revision + 1 \in 1..MaxRevision
  BY DraftFields, Bounds DEF CanStage
<1>2. (IF draft = NoDraft THEN Len(versions) ELSE draft.base) \in 1..Len(versions)
  BY ActiveFields, DraftFields, Bounds DEF DraftInv, VersionsInv
<1>3. Len(versions) <= MaxVersions /\ Len(versions) \in Nat
  BY ActiveFields DEF VersionsInv
<1>4. (IF draft = NoDraft THEN Len(versions) ELSE draft.base) \in 0..MaxVersions
  BY <1>2, <1>3, Bounds
<1>5. -1 \in -1..MaxPast
  BY Bounds
<1> QED
  BY <1>1, <1>2, <1>3, <1>4, <1>5, Bounds DEF Staged, DraftRow

(* A draft based on the active version, as an edit leaves it.                   *)
LEMMA RebasedFields ==
    ASSUME VersionsInv, DraftInv, CanStage, NEW s \in Snapshot
    PROVE  LET row == [Staged(s) EXCEPT !.base = Len(versions)]
           IN  /\ row \in DraftRow /\ row.snapshot = s /\ row.validated = -1
               /\ row.revision # 0 /\ row.base = Len(versions) /\ row.base # 0
<1>1. Staged(s) \in DraftRow /\ Staged(s).snapshot = s /\ Staged(s).validated = -1 /\ Staged(s).revision # 0
  BY StagedFields
<1>2. Len(versions) \in 0..MaxVersions /\ Len(versions) # 0
  BY ActiveFields, Bounds DEF VersionsInv
<1> QED
  BY <1>1, <1>2 DEF DraftRow

(* The rows after a publication are those of before, with other states.         *)
LEMMA RowsAfterFields ==
    ASSUME NEW table \in Seq(RuleRow), NEW s \in Snapshot, NEW n \in Nat,
           \A r \in DOMAIN table : table[r].code <= n,
           \A a \in s.rules : a.code <= n
    PROVE  /\ RowsAfter(table, s) \in Seq(RuleRow)
           /\ Len(RowsAfter(table, s)) = Len(table)
           /\ DOMAIN RowsAfter(table, s) = DOMAIN table
           /\ \A r \in DOMAIN table : /\ RowsAfter(table, s)[r].text = table[r].text
                                      /\ RowsAfter(table, s)[r].code <= n
<1> DEFINE new(r) == RowsAfter(table, s)[r]
<1>1. Len(table) \in Nat /\ DOMAIN table = 1..Len(table)
  BY LenProperties
<1>2. DOMAIN RowsAfter(table, s) = 1..Len(table)
  BY <1>1 DEF RowsAfter
<1>3. ASSUME NEW r \in DOMAIN table
      PROVE  new(r) \in RuleRow /\ new(r).text = table[r].text /\ new(r).code <= n
  <2>1. table[r] \in RuleRow
    BY <1>1, ElementOfSeq
  <2>2. table[r] = [status |-> table[r].status, code |-> table[r].code, text |-> table[r].text]
    BY <2>1 DEF RuleRow
  <2>3. CASE r \in RulesOf(s)
    <3>1. PICK code : code = CodeIn(s, r)
      OBVIOUS
    <3>2. \E a \in s.rules : a.rule = r
      BY <2>3 DEF RulesOf
    <3>3. code \in 0..MaxCodes /\ code <= n
      BY <3>1, <3>2 DEF CodeIn, Snapshot, Artifact
    <3>4. new(r) = [table[r] EXCEPT !.status = "active", !.code = code]
      BY <2>3, <3>1 DEF RowsAfter
    <3> QED
      BY <2>1, <3>3, <3>4 DEF RuleRow
  <2>4. CASE r \notin RulesOf(s)
    <3>1. new(r) = table[r] \/ new(r) = [table[r] EXCEPT !.status = "retired"]
      BY <2>4 DEF RowsAfter
    <3> QED
      BY <2>1, <3>1 DEF RuleRow
  <2> QED
    BY <2>3, <2>4
<1>4. RowsAfter(table, s) \in Seq(RuleRow) /\ Len(RowsAfter(table, s)) = Len(table)
  <2> DEFINE f == RowsAfter(table, s)
  <2>1. f = [i \in 1..Len(table) |-> f[i]]
    BY <1>1 DEF RowsAfter
  <2>2. \A i \in 1..Len(table) : f[i] \in RuleRow
    BY <1>1, <1>3
  <2>3. f \in [1..Len(table) -> RuleRow]
    BY <2>1, <2>2
  <2> QED
    BY <1>1, <2>3
<1> QED
  BY <1>1, <1>2, <1>3, <1>4

(* Set to sequence and back.                                                    *)
LEMMA Listed ==
    ASSUME NEW S, IsFiniteSet(S)
    PROVE  /\ SetToSeq(S) \in [1..Cardinality(S) -> S] /\ Cardinality(S) \in Nat
           /\ SetToSeq(S) \in Seq(S) /\ Len(SetToSeq(S)) = Cardinality(S)
           /\ \A x \in S : \E k \in DOMAIN SetToSeq(S) : SetToSeq(S)[k] = x
<1> DEFINE n == Cardinality(S)
<1>1. n \in Nat /\ ExistsBijection(1..n, S)
  BY FS_CardinalityType
<1>2. PICK f \in [1..n -> S] : IsInjective(f)
  BY <1>1 DEF ExistsBijection, Bijection, Injection, IsInjective
<1>3. SetToSeq(S) \in [1..n -> S] /\ IsInjective(SetToSeq(S))
  BY <1>2 DEF SetToSeq
<1>4. SetToSeq(S) \in Injection(1..n, S)
  BY <1>3 DEF Injection, IsInjective
<1>5. IsFiniteSet(1..n) /\ Cardinality(1..n) = n
  BY <1>1, FS_Interval
<1>6. SetToSeq(S) \in Surjection(1..n, S)
  BY <1>4, <1>5, FS_Injection
<1>7. \A x \in S : \E k \in 1..n : SetToSeq(S)[k] = x
  BY <1>6 DEF Surjection
<1>8. SetToSeq(S) \in Seq(S) /\ Len(SetToSeq(S)) = n
  BY <1>1, <1>3
<1> QED
  BY <1>1, <1>3, <1>7, <1>8

-----------------------------------------------------------------------------
\* The tables

(* A publication of a table that has grown grows the rows.                      *)
LEMMA PublishGrows ==
    ASSUME IInv, NEW table \in Seq(RuleRow), NEW s \in Snapshot,
           Len(rules) <= Len(table), Len(table) <= MaxRules,
           \A r \in DOMAIN rules : table[r].text = rules[r].text,
           \A r \in DOMAIN table : table[r].code <= Len(codes),
           \A a \in s.rules : a.code <= Len(codes),
           PublishSnapshot(table, s), UNCHANGED codes
    PROVE  TablesInv' /\ Grows /\ Len(rules') = Len(table)
           /\ Len(versions') = Len(versions) + 1 /\ versions'[Len(versions')] = s
           /\ \A v \in DOMAIN versions : versions'[v] = versions[v]
<1>1. Len(codes) \in Nat /\ DOMAIN rules = 1..Len(rules) /\ Len(rules) \in Nat
  BY TablesFields DEF IInv
<1>2. rules' = RowsAfter(table, s)
  BY DEF PublishSnapshot
<1>3. /\ rules' \in Seq(RuleRow) /\ Len(rules') = Len(table) /\ DOMAIN rules' = DOMAIN table
      /\ \A r \in DOMAIN table : rules'[r].text = table[r].text /\ rules'[r].code <= Len(codes)
  BY <1>1, <1>2, RowsAfterFields
<1>4. DOMAIN table = 1..Len(table) /\ Len(table) \in Nat
  BY LenProperties
<1>5. versions' = Append(versions, s) /\ versions \in Seq(Snapshot)
  BY DEF PublishSnapshot, IInv, VersionsInv
<1>6. /\ Len(versions') = Len(versions) + 1 /\ versions'[Len(versions')] = s
      /\ \A v \in DOMAIN versions : versions'[v] = versions[v]
      /\ Len(versions) \in Nat
  BY <1>5
<1>7. TablesInv'
  BY <1>3 DEF TablesInv, IInv
<1>8. Grows
  BY <1>1, <1>3, <1>4, <1>6 DEF Grows
<1> QED
  BY <1>3, <1>6, <1>7, <1>8

(* A created rule is one row more.                                            *)
LEMMA CreateGrows ==
    ASSUME IInv, CreateRule
    PROVE  /\ TablesInv' /\ Grows /\ UNCHANGED codes
           /\ Len(rules) + 1 \in DOMAIN rules' /\ Len(rules) + 1 \in 1..MaxRules
<1> DEFINE row == [status |-> "compiling", code |-> 0, text |-> Len(rules) + 1]
<1>1. /\ Len(codes) \in Nat /\ DOMAIN rules = 1..Len(rules) /\ Len(rules) \in Nat
      /\ \A r \in DOMAIN rules : rules[r] \in RuleRow
  BY TablesFields DEF IInv
<1>2. rules' = Append(rules, row) /\ UNCHANGED <<codes, versions>> /\ Len(rules) < MaxRules
  BY DEF CreateRule
<1>3. row \in RuleRow /\ Len(rules) + 1 \in 1..MaxRules
  BY <1>1, <1>2, Bounds DEF RuleRow
<1>4. rules \in Seq(RuleRow)
  BY DEF IInv, TablesInv
<1>5. /\ rules' \in Seq(RuleRow) /\ Len(rules') = Len(rules) + 1 /\ DOMAIN rules' = 1..Len(rules) + 1
      /\ \A r \in DOMAIN rules : rules'[r] = rules[r]
      /\ rules'[Len(rules) + 1] = row
  BY <1>1, <1>2, <1>3, <1>4
<1>6. \A r \in DOMAIN rules' : rules'[r].code <= Len(codes)
  BY <1>1, <1>5 DEF IInv, TablesInv
<1>7. TablesInv'
  BY <1>2, <1>3, <1>5, <1>6, Bounds DEF IInv, TablesInv
<1>8. Grows
  BY <1>1, <1>2, <1>5 DEF Grows
<1> QED
  BY <1>2, <1>3, <1>5, <1>7, <1>8

(* A new code at the end.                                                       *)
LEMMA CodeAppended ==
    ASSUME IInv, NEW valid \in BOOLEAN, Len(codes) < MaxCodes, codes' = Append(codes, valid)
    PROVE  /\ codes' \in Seq(BOOLEAN) /\ Len(codes') = Len(codes) + 1 /\ Len(codes') \in 1..MaxCodes
           /\ \A c \in DOMAIN codes : codes'[c] = codes[c]
           /\ codes'[Len(codes) + 1] = valid
<1>1. codes \in Seq(BOOLEAN) /\ Len(codes) \in Nat /\ DOMAIN codes = 1..Len(codes)
  BY TablesFields DEF IInv, TablesInv
<1> QED
  BY <1>1, Bounds

(* A compilation that lands adds a code and writes one row.                   *)
LEMMA LandGrows ==
    ASSUME IInv, NEW r \in DOMAIN rules, NEW valid \in BOOLEAN, Len(codes) < MaxCodes,
           Land(r, valid), UNCHANGED versions
    PROVE  TablesInv' /\ Grows /\ Len(codes') = Len(codes) + 1 /\ DOMAIN rules' = DOMAIN rules
<1>1. /\ Len(codes) \in Nat /\ DOMAIN rules = 1..Len(rules) /\ Len(rules) \in Nat
      /\ \A q \in DOMAIN rules : rules[q] \in RuleRow
  BY TablesFields DEF IInv
<1>2. /\ codes' \in Seq(BOOLEAN) /\ Len(codes') = Len(codes) + 1 /\ Len(codes') \in 1..MaxCodes
      /\ \A c \in DOMAIN codes : codes'[c] = codes[c]
  BY CodeAppended DEF Land
<1>0. PICK row : row = [rules[r] EXCEPT !.status = "draft", !.code = Len(codes) + 1]
  OBVIOUS
<1>3. rules' = [rules EXCEPT ![r] = row]
  BY <1>0 DEF Land
<1>4. row \in RuleRow /\ row.text = rules[r].text /\ row.code = Len(codes) + 1
  <2>1. Len(codes) + 1 \in 0..MaxCodes
    BY <1>1, <1>2, Bounds
  <2>2. rules[r] \in RuleRow
    BY <1>1
  <2> QED
    BY <1>0, <2>1, <2>2 DEF RuleRow
<1>5. rules \in Seq(RuleRow)
  BY DEF IInv, TablesInv
<1>6. /\ rules' \in Seq(RuleRow) /\ Len(rules') = Len(rules)
      /\ \A q \in 1..Len(rules) : rules'[q] = IF q = r THEN row ELSE rules[q]
  BY <1>1, <1>3, <1>4, <1>5, ExceptSeq
<1>7. DOMAIN rules' = 1..Len(rules)
  BY <1>1, <1>3
<1>8. \A q \in DOMAIN rules' : rules'[q].code <= Len(codes') /\ rules'[q].text = rules[q].text
  <2>1. \A q \in DOMAIN rules : rules[q].code \in Nat /\ rules[q].code <= Len(codes)
    BY <1>1, Bounds DEF IInv, TablesInv, RuleRow
  <2>2. SUFFICES ASSUME NEW q \in DOMAIN rules
                 PROVE  rules'[q].code <= Len(codes') /\ rules'[q].text = rules[q].text
    BY <1>1, <1>7
  <2>3. CASE q = r
    BY <1>1, <1>2, <1>4, <1>6, <2>3
  <2>4. CASE q # r
    BY <1>1, <1>2, <1>6, <2>1, <2>4
  <2> QED
    BY <2>3, <2>4
<1>9. TablesInv'
  BY <1>1, <1>2, <1>6, <1>8, Bounds DEF IInv, TablesInv
<1>10. Grows
  BY <1>1, <1>2, <1>6, <1>7, <1>8, ActiveFields DEF IInv, Grows
<1> QED
  BY <1>1, <1>2, <1>7, <1>9, <1>10

(* Only a code is added, or nothing is.                                         *)
LEMMA CodeGrows ==
    ASSUME IInv, UNCHANGED <<rules, versions>>,
           UNCHANGED codes \/ (Len(codes) < MaxCodes /\ \E valid \in BOOLEAN : codes' = Append(codes, valid))
    PROVE  TablesInv' /\ Grows
<1>1. /\ Len(codes) \in Nat /\ DOMAIN rules = 1..Len(rules) /\ Len(rules) \in Nat
      /\ \A q \in DOMAIN rules : rules[q] \in RuleRow
  BY TablesFields DEF IInv
<1>2. Len(versions) \in Nat
  BY ActiveFields DEF IInv
<1>3. CASE UNCHANGED codes
  BY <1>1, <1>2, <1>3 DEF IInv, TablesInv, Grows
<1>4. CASE Len(codes) < MaxCodes /\ \E valid \in BOOLEAN : codes' = Append(codes, valid)
  <2>1. /\ codes' \in Seq(BOOLEAN) /\ Len(codes') = Len(codes) + 1 /\ Len(codes') \in 1..MaxCodes
        /\ \A c \in DOMAIN codes : codes'[c] = codes[c]
    BY <1>4, CodeAppended
  <2>2. \A q \in DOMAIN rules : rules[q].code <= Len(codes')
    BY <1>1, <2>1, Bounds DEF IInv, TablesInv, RuleRow
  <2>3. TablesInv'
    BY <1>1, <2>1, <2>2, Bounds DEF IInv, TablesInv
  <2>4. Grows
    BY <1>1, <1>2, <2>1 DEF Grows
  <2> QED
    BY <2>3, <2>4
<1> QED
  BY <1>3, <1>4

-----------------------------------------------------------------------------
\* Publications

\* What is handed over to be published: rows that go on those there are, a snapshot of them
\* whose artifacts are checked.
Handed(table, s) ==
    /\ table \in Seq(RuleRow) /\ s \in Snapshot
    /\ Len(rules) <= Len(table) /\ Len(table) <= MaxRules
    /\ \A r \in DOMAIN rules : table[r].text = rules[r].text
    /\ \A r \in DOMAIN table : table[r].code <= Len(codes)
    /\ \A a \in s.rules : a.rule \in DOMAIN table /\ a.code <= Len(codes) /\ Checked(a.code)

(* What is handed over is published: checked artifacts of rows that exist.    *)
LEMMA HandedPublished ==
    ASSUME IInv, NEW table, NEW s, Handed(table, s), PublishSnapshot(table, s), UNCHANGED codes
    PROVE  /\ TablesInv' /\ Grows /\ VersionsInv' /\ DOMAIN rules' = DOMAIN table
           /\ Len(versions') = Len(versions) + 1 /\ versions'[Len(versions')] = s
<1>1. /\ TablesInv' /\ Grows /\ Len(rules') = Len(table)
      /\ Len(versions') = Len(versions) + 1 /\ versions'[Len(versions')] = s
      /\ \A v \in DOMAIN versions : versions'[v] = versions[v]
  BY PublishGrows DEF Handed
<1>2. DOMAIN rules' = DOMAIN table
  BY <1>1, LenProperties DEF TablesInv, Handed
<1>3. versions' = Append(versions, s) /\ versions \in Seq(Snapshot) /\ s \in Snapshot
      /\ Len(versions) < MaxVersions
  BY DEF PublishSnapshot, IInv, VersionsInv, Handed
<1>4. Len(versions) \in Nat \ {0} /\ DOMAIN versions = 1..Len(versions)
  BY ActiveFields DEF IInv
<1>5. /\ versions' \in Seq(Snapshot) /\ Len(versions') = Len(versions) + 1
      /\ DOMAIN versions' = 1..Len(versions) + 1
  BY <1>3, <1>4
<1>6. ASSUME NEW v \in DOMAIN versions' PROVE AllChecked(versions[v].rules)'
  <2>1. CASE v \in DOMAIN versions
    <3>1. versions'[v] = versions[v] /\ versions[v] \in Snapshot /\ AllChecked(versions[v].rules)
      BY <1>1, <1>4, <2>1, ElementOfSeq DEF IInv, VersionsInv
    <3>2. PICK artifacts \in SUBSET Artifact : artifacts = versions[v].rules
      BY <3>1 DEF Snapshot
    <3>3. AllChecked(artifacts)'
      BY <1>1, <3>1, <3>2, StayChecked DEF IInv
    <3>4. versions'[v].rules = artifacts
      BY <3>1, <3>2
    <3> QED
      BY <3>3, <3>4 DEF AllChecked, Exist
  <2>2. CASE v \notin DOMAIN versions
    <3>1. v = Len(versions') /\ versions'[v] = s
      BY <1>1, <1>4, <1>5, <2>2
    <3>2. \A a \in s.rules : a.rule \in DOMAIN rules' /\ a.code <= Len(codes') /\ Checked(a.code)'
      BY <1>2 DEF Handed, Checked
    <3> QED
      BY <3>1, <3>2 DEF AllChecked, Exist
  <2> QED
    BY <2>1, <2>2
<1>7. versions' # <<>> /\ Len(versions') <= MaxVersions
  BY <1>3, <1>4, <1>5, EmptySeq, Bounds
<1> QED
  BY <1>1, <1>2, <1>5, <1>6, <1>7 DEF VersionsInv

(* A draft that is published was validated, so its artifacts are checked.     *)
LEMMA DraftHanded ==
    ASSUME IInv, Publish
    PROVE  Handed(rules, draft.snapshot) /\ PublishSnapshot(rules, draft.snapshot) /\ UNCHANGED codes
<1>1. draft.validated # -1
  <2>1. past \in 0..MaxPast /\ draft.validated = past
    BY DEF Publish, IInv, PastInv
  <2> QED
    BY <2>1, Bounds
<1>2. AllChecked(draft.snapshot.rules)
  BY <1>1 DEF IInv, DraftInv
<1>3. Len(rules) \in Nat
  BY TablesFields DEF IInv
<1> QED
  BY <1>2, <1>3, DraftFields DEF IInv, TablesInv, AllChecked, Exist, Handed, Publish

(* A norm that is adopted hands over the active version and itself.           *)
LEMMA NormHanded ==
    ASSUME IInv, NEW n \in Norms, AdoptNorm(n)
    PROVE  \E table, s :
               /\ Handed(table, s) /\ PublishSnapshot(table, s) /\ UNCHANGED codes
               /\ Active.rules \subseteq s.rules /\ Active.guidance \subseteq s.guidance
               /\ norms'[n].status = "accepted" /\ norms'[n] \in Norm
               /\ norms'[n].valid = norms[n].valid /\ norms'[n].code = norms[n].code
               /\ norms'[n].running = norms[n].running
               /\ norms' = [norms EXCEPT ![n] = norms'[n]]
               /\ n \notin Deterministic => n \in s.guidance /\ norms'[n].text = norms[n].text
               /\ n \in Deterministic =>
                     /\ norms'[n].text = Len(rules) + 1 /\ Len(rules) + 1 \in RulesOf(s)
                     /\ Len(rules) + 1 \in DOMAIN table /\ table[Len(rules) + 1].text = Len(rules) + 1
<1>1. /\ Active \in Snapshot /\ AllChecked(Active.rules) /\ Active.rules \in SUBSET Artifact
      /\ Active.config \in Configs /\ Active.guidance \in SUBSET Norms
  BY ActiveFields DEF IInv
<1>2. /\ Len(rules) \in Nat /\ DOMAIN rules = 1..Len(rules) /\ Len(codes) \in Nat
      /\ rules \in Seq(RuleRow)
  BY TablesFields DEF IInv, TablesInv
<1>3. PICK old \in Norm : old = norms[n]
  BY DEF IInv, NormsInv
<1>4. UNCHANGED codes /\ norms \in [Norms -> Norm]
  BY DEF AdoptNorm, IInv, NormsInv
<1>5. CASE n \in Deterministic
  <2> DEFINE r == Len(rules) + 1
             row == [status |-> "active", code |-> old.code, text |-> r]
             table == Append(rules, row)
             s == [Active EXCEPT !.rules = @ \union {[rule |-> r, code |-> old.code]}]
  <2>1. /\ Len(rules) < MaxRules /\ PublishSnapshot(table, s) /\ old.valid
        /\ norms' = [norms EXCEPT ![n].status = "accepted", ![n].text = r]
    BY <1>3, <1>5 DEF AdoptNorm
  <2>2. Checked(old.code) /\ old.code <= Len(codes) /\ old.code \in 0..MaxCodes
    BY <1>3, <1>5, <2>1 DEF IInv, NormsInv, Norm
  <2>3. r \in 1..MaxRules
    BY <1>2, <2>1, Bounds
  <2>4. row \in RuleRow
    BY <2>2, <2>3 DEF RuleRow
  <2>5. /\ table \in Seq(RuleRow) /\ Len(table) = r /\ DOMAIN table = 1..r
        /\ \A q \in DOMAIN rules : table[q] = rules[q]
        /\ table[r] = row
    BY <1>2, <2>4
  <2>6. [rule |-> r, code |-> old.code] \in Artifact
    BY <2>2, <2>3 DEF Artifact
  <2>7. s \in Snapshot /\ s.rules = Active.rules \union {[rule |-> r, code |-> old.code]}
        /\ s.guidance = Active.guidance
    BY <1>1, <2>6 DEF Snapshot
  <2>8. \A a \in s.rules : a.rule \in DOMAIN table /\ a.code <= Len(codes) /\ Checked(a.code)
    BY <1>1, <1>2, <2>2, <2>5, <2>7 DEF AllChecked, Exist
  <2>9. \A q \in DOMAIN table : table[q].code <= Len(codes)
    BY <1>2, <2>2, <2>5 DEF IInv, TablesInv
  <2>10. Handed(table, s)
    BY <1>2, <2>3, <2>5, <2>7, <2>8, <2>9, Bounds DEF Handed
  <2>11. r \in RulesOf(s)
    BY <2>7 DEF RulesOf
  <2>12. PICK new : new = [old EXCEPT !.status = "accepted", !.text = r]
    OBVIOUS
  <2>13. norms' = [norms EXCEPT ![n] = new] /\ norms'[n] = new
    BY <1>3, <1>4, <2>1, <2>12
  <2>14. r \in 0..MaxRules
    BY <2>3
  <2>15. new \in Norm /\ new.status = "accepted" /\ new.text = r /\ new.valid = old.valid
         /\ new.code = old.code /\ new.running = old.running
    BY <2>12, <2>14 DEF Norm
  <2>16. norms' = [norms EXCEPT ![n] = norms'[n]]
    BY <2>13
  <2>17. Active.rules \subseteq s.rules /\ Active.guidance \subseteq s.guidance
    BY <2>7
  <2>18. table[r].text = r
    BY <2>5
  <2>19. r \in DOMAIN table
    BY <1>2, <2>5
  <2> HIDE DEF table, s, row
  <2> QED
    BY <1>3, <1>4, <1>5, <2>1, <2>10, <2>11, <2>13, <2>15, <2>16, <2>17, <2>18, <2>19
<1>6. CASE n \notin Deterministic
  <2> DEFINE s == [Active EXCEPT !.guidance = @ \union {n}]
  <2>1. PublishSnapshot(rules, s) /\ norms' = [norms EXCEPT ![n].status = "accepted"]
    BY <1>6 DEF AdoptNorm
  <2>2. s \in Snapshot /\ s.rules = Active.rules /\ s.guidance = Active.guidance \union {n}
    BY <1>1 DEF Snapshot
  <2>3. Handed(rules, s)
    BY <1>1, <1>2, <2>2 DEF IInv, TablesInv, Handed, AllChecked, Exist
  <2>4. PICK new : new = [old EXCEPT !.status = "accepted"]
    OBVIOUS
  <2>5. norms' = [norms EXCEPT ![n] = new] /\ norms'[n] = new
    BY <1>3, <1>4, <2>1, <2>4
  <2>6. new \in Norm /\ new.status = "accepted" /\ new.text = old.text /\ new.valid = old.valid
        /\ new.code = old.code /\ new.running = old.running
    BY <2>4 DEF Norm
  <2> QED
    BY <1>3, <1>4, <1>6, <2>1, <2>2, <2>3, <2>5, <2>6
<1> QED
  BY <1>5, <1>6

(* A conversation publishes its kept artifacts, as their rows have them, and a  *)
(* row for every text of its preview that is new.                               *)
LEMMA SessionHanded ==
    ASSUME IInv, PublishSession
    PROVE  \E table, s :
               /\ Handed(table, s) /\ PublishSnapshot(table, s) /\ UNCHANGED codes
               /\ s.guidance = session.plan.guidance
               /\ \A t \in session.preview.plan.rules \ {0} :
                     \E id \in RulesOf(s) : id \in DOMAIN table /\ table[id].text = t
<1>1. /\ Len(rules) \in Nat /\ DOMAIN rules = 1..Len(rules) /\ Len(codes) \in Nat
      /\ rules \in Seq(RuleRow) /\ Len(rules) <= MaxRules
      /\ \A r \in DOMAIN rules : rules[r] \in RuleRow /\ rules[r].code <= Len(codes)
  BY TablesFields DEF IInv, TablesInv
<1>2. PICK p \in Preview : p = session.preview
  BY DEF PublishSession, IInv, SessionInv, SessionRow
<1>3. /\ p.plan.rules \subseteq 0..MaxRules /\ p.kept \in SUBSET Artifact /\ p.code \in 0..MaxCodes
      /\ Exist(p.kept) /\ (New(p) # {} => Checked(p.code)) /\ p.code <= Len(codes)
  BY <1>2 DEF Preview, Plan, IInv, SessionInv
<1>4. session.plan.config \in Configs /\ session.plan.guidance \in SUBSET Norms
  BY DEF IInv, SessionInv, SessionRow, Plan
<1> DEFINE kept == {ArtifactOf(a.rule) : a \in p.kept}
           fresh == New(p)
           new == SetToSeq(fresh)
           added == [k \in DOMAIN new |->
                       [status |-> "draft", code |-> p.code,
                        text |-> IF new[k] = 0 THEN Len(rules) + k ELSE new[k]]]
           table == rules \o added
           made == {[rule |-> Len(rules) + k, code |-> p.code] : k \in DOMAIN new}
           s == [config |-> session.plan.config, guidance |-> session.plan.guidance,
                 rules |-> kept \union made]
<1>5. /\ Len(rules) + Len(new) <= MaxRules /\ \A a \in kept : Checked(a.code)
      /\ PublishSnapshot(table, s) /\ UNCHANGED codes
  BY <1>2 DEF PublishSession
<1>6. fresh \subseteq 0..MaxRules /\ IsFiniteSet(fresh)
  <2>1. fresh \subseteq 0..MaxRules
    BY <1>3 DEF New
  <2>2. IsFiniteSet(0..MaxRules)
    BY FS_Interval, Bounds
  <2> QED
    BY <2>1, <2>2, FS_Subset
<1>7. /\ new \in [1..Cardinality(fresh) -> fresh] /\ Cardinality(fresh) \in Nat
      /\ Len(new) = Cardinality(fresh)
      /\ \A x \in fresh : \E k \in DOMAIN new : new[k] = x
  BY <1>6, Listed
<1>8. /\ DOMAIN new = 1..Len(new) /\ Len(new) \in Nat
      /\ \A k \in DOMAIN new : new[k] \in fresh /\ new[k] \in 0..MaxRules
  BY <1>6, <1>7
<1>9. \A k \in DOMAIN new : Len(rules) + k \in 1..MaxRules
  BY <1>1, <1>5, <1>8, Bounds
<1> HIDE DEF new, fresh
<1>10. \A k \in DOMAIN new : added[k] \in RuleRow /\ added[k].code = p.code
  BY <1>3, <1>8, <1>9, Bounds DEF RuleRow
<1>11. added \in Seq(RuleRow) /\ Len(added) = Len(new)
  <2>1. added \in [1..Len(new) -> RuleRow]
    BY <1>8, <1>10
  <2> QED
    BY <1>8, <2>1
<1>12. /\ table \in Seq(RuleRow) /\ Len(table) = Len(rules) + Len(new)
       /\ \A i \in 1..Len(rules) + Len(new) :
             table[i] = IF i <= Len(rules) THEN rules[i] ELSE added[i - Len(rules)]
  <2> HIDE DEF added
  <2>1. /\ rules \o added \in Seq(RuleRow) /\ Len(rules \o added) = Len(rules) + Len(added)
        /\ \A i \in 1..Len(rules) + Len(added) :
              (rules \o added)[i] = IF i <= Len(rules) THEN rules[i] ELSE added[i - Len(rules)]
    BY <1>1, <1>11, ConcatProperties, ZenonT(30)
  <2> QED
    BY <1>11, <2>1
<1> HIDE DEF table, added
<1>13. DOMAIN table = 1..Len(rules) + Len(new)
  BY <1>12, LenProperties
<1>14. \A r \in DOMAIN rules : table[r] = rules[r]
  BY <1>1, <1>8, <1>12
<1>15. \A k \in DOMAIN new : Len(rules) + k \in DOMAIN table /\ table[Len(rules) + k] = added[k]
  <2> SUFFICES ASSUME NEW k \in DOMAIN new
               PROVE  Len(rules) + k \in DOMAIN table /\ table[Len(rules) + k] = added[k]
    OBVIOUS
  <2>1. /\ k \in 1..Len(new) /\ Len(rules) + k \in 1..Len(rules) + Len(new)
        /\ ~(Len(rules) + k <= Len(rules)) /\ (Len(rules) + k) - Len(rules) = k
    BY <1>1, <1>8
  <2>2. table[Len(rules) + k] = added[(Len(rules) + k) - Len(rules)]
    BY <1>12, <2>1
  <2> QED
    BY <1>13, <2>1, <2>2
<1>16. \A r \in DOMAIN table : r \in DOMAIN rules \/ \E k \in DOMAIN new : r = Len(rules) + k
  <2> SUFFICES ASSUME NEW r \in DOMAIN table, r \notin DOMAIN rules
               PROVE  \E k \in DOMAIN new : r = Len(rules) + k
    OBVIOUS
  <2>1. r - Len(rules) \in DOMAIN new /\ r = Len(rules) + (r - Len(rules))
    BY <1>1, <1>8, <1>13
  <2> QED
    BY <2>1
<1>17. \A r \in DOMAIN table : table[r].code <= Len(codes)
  BY <1>1, <1>3, <1>10, <1>14, <1>15, <1>16
<1>18. \A a \in kept : a \in Artifact /\ a.rule \in DOMAIN rules /\ a.code <= Len(codes)
  <2> SUFFICES ASSUME NEW b \in p.kept
               PROVE  LET a == ArtifactOf(b.rule)
                      IN  a \in Artifact /\ a.rule \in DOMAIN rules /\ a.code <= Len(codes)
    OBVIOUS
  <2>1. b.rule \in DOMAIN rules /\ b.rule \in 1..MaxRules
    BY <1>3 DEF Exist, Artifact
  <2>2. rules[b.rule].code \in 0..MaxCodes /\ rules[b.rule].code <= Len(codes)
    BY <1>1, <2>1 DEF RuleRow
  <2> QED
    BY <2>1, <2>2 DEF ArtifactOf, Artifact
<1>19. \A a \in made : a \in Artifact /\ a.rule \in DOMAIN table /\ a.code <= Len(codes) /\ Checked(a.code)
  <2> SUFFICES ASSUME NEW k \in DOMAIN new
               PROVE  LET a == [rule |-> Len(rules) + k, code |-> p.code]
                      IN  a \in Artifact /\ a.rule \in DOMAIN table /\ a.code <= Len(codes) /\ Checked(a.code)
    OBVIOUS
  <2>1. fresh # {}
    BY <1>8
  <2>2. Checked(p.code)
    BY <1>3, <2>1 DEF fresh
  <2> QED
    BY <1>3, <1>9, <1>15, <2>2 DEF Artifact
<1>20. DOMAIN rules \subseteq DOMAIN table
  BY <1>1, <1>8, <1>13
<1>21. s \in Snapshot /\ s.guidance = session.plan.guidance /\ s.rules = kept \union made
  BY <1>4, <1>18, <1>19 DEF Snapshot
<1>22. Handed(table, s)
  <2>1. \A a \in s.rules : a.rule \in DOMAIN table /\ a.code <= Len(codes) /\ Checked(a.code)
    BY <1>5, <1>18, <1>19, <1>20, <1>21
  <2>2. Len(rules) <= Len(table) /\ Len(table) <= MaxRules
    BY <1>1, <1>5, <1>8, <1>12, Bounds
  <2> QED
    BY <1>12, <1>14, <1>17, <1>21, <2>1, <2>2 DEF Handed
<1>23. ASSUME NEW t \in p.plan.rules \ {0}
       PROVE  \E id \in RulesOf(s) : id \in DOMAIN table /\ table[id].text = t
  <2>1. CASE t \in fresh
    <3>1. PICK k \in DOMAIN new : new[k] = t
      BY <1>7, <2>1
    <3>2. added[k].text = t
      BY <3>1 DEF added
    <3>3. [rule |-> Len(rules) + k, code |-> p.code] \in s.rules
      BY <1>21
    <3>4. Len(rules) + k \in RulesOf(s)
      BY <3>3 DEF RulesOf
    <3> QED
      BY <1>15, <3>2, <3>4
  <2>2. CASE t \notin fresh
    <3>1. t \in Texts({a.rule : a \in p.kept})
      BY <2>2 DEF fresh, New
    <3>2. PICK b \in p.kept : rules[b.rule].text = t
      BY <3>1 DEF Texts
    <3>3. b.rule \in DOMAIN rules
      BY <1>3 DEF Exist
    <3>4. ArtifactOf(b.rule) \in s.rules /\ ArtifactOf(b.rule).rule = b.rule
      BY <1>21 DEF ArtifactOf
    <3>5. b.rule \in RulesOf(s)
      BY <3>4 DEF RulesOf
    <3> QED
      BY <1>14, <1>20, <3>2, <3>3, <3>5
  <2> QED
    BY <2>1, <2>2
<1> HIDE DEF s
<1> QED
  BY <1>2, <1>5, <1>21, <1>22, <1>23

-----------------------------------------------------------------------------
\* What a step changes

(* The actions that write rules, codes or versions.                           *)
LEMMA TableKinds ==
    ASSUME [Next]_vars
    PROVE  \/ UNCHANGED <<rules, codes, versions>>
           \/ CreateRule \/ EndRequest \/ Publish \/ EndPrepare \/ PublishSession
           \/ \E r \in DOMAIN rules : EndCompile(r)
           \/ \E n \in Norms : EndValidation(n) \/ AdoptNorm(n)
<1>1. CASE DraftNext
  BY <1>1 DEF DraftNext, EditConfig, EditRules, Validate, Discard, ruleVars
<1>2. CASE RulesNext
  BY <1>2 DEF RulesNext, StartCompile, Activate, Retire, ruleVars
<1>3. CASE NormsNext
  BY <1>3 DEF NormsNext, StartValidation, RejectNorm, ruleVars
<1>4. CASE SessionNext
  BY <1>4 DEF SessionNext, StartSession, Review, StartPrepare, Revise, ruleVars
<1>5. CASE Restart \/ RestartWithoutDatabase \/ PastMoves \/ UNCHANGED vars
  BY <1>5 DEF Restart, RestartWithoutDatabase, PastMoves, vars, ruleVars
<1> QED
  BY <1>1, <1>2, <1>3, <1>4, <1>5 DEF Next

(* The actions that write the draft.                                          *)
LEMMA DraftKinds ==
    ASSUME [Next]_vars
    PROVE  \/ UNCHANGED draft
           \/ \E config \in Configs : EditConfig(config)
           \/ \E ids \in SUBSET DOMAIN rules : EditRules(ids)
           \/ Validate \/ Discard \/ Publish \/ CreateRule \/ EndRequest
           \/ \E r \in DOMAIN rules : EndCompile(r) \/ Activate(r) \/ Retire(r)
<1>1. CASE DraftNext
  BY <1>1 DEF DraftNext
<1>2. CASE RulesNext
  BY <1>2 DEF RulesNext, StartCompile
<1>3. CASE NormsNext
  BY <1>3 DEF NormsNext, StartValidation, EndValidation, AdoptNorm, RejectNorm
<1>4. CASE SessionNext
  BY <1>4 DEF SessionNext, StartSession, Review, StartPrepare, EndPrepare, PublishSession, Revise
<1>5. CASE Restart \/ RestartWithoutDatabase \/ PastMoves \/ UNCHANGED vars
  BY <1>5 DEF Restart, RestartWithoutDatabase, PastMoves, vars
<1> QED
  BY <1>1, <1>2, <1>3, <1>4, <1>5 DEF Next

(* The actions that write norms.                                              *)
LEMMA NormKinds ==
    ASSUME [Next]_vars
    PROVE  \/ UNCHANGED norms
           \/ Restart
           \/ \E n \in Norms : StartValidation(n) \/ EndValidation(n) \/ AdoptNorm(n) \/ RejectNorm(n)
<1>1. CASE DraftNext
  BY <1>1 DEF DraftNext, EditConfig, EditRules, Validate, Discard, Publish
<1>2. CASE RulesNext
  BY <1>2 DEF RulesNext, CreateRule, StartCompile, EndRequest, EndCompile, Activate, Retire
<1>3. CASE NormsNext
  BY <1>3 DEF NormsNext
<1>4. CASE SessionNext
  BY <1>4 DEF SessionNext, StartSession, Review, StartPrepare, EndPrepare, PublishSession, Revise
<1>5. CASE Restart \/ RestartWithoutDatabase \/ PastMoves \/ UNCHANGED vars
  BY <1>5 DEF RestartWithoutDatabase, PastMoves, vars
<1> QED
  BY <1>1, <1>2, <1>3, <1>4, <1>5 DEF Next

(* The actions that write the conversation.                                   *)
LEMMA SessionKinds ==
    ASSUME [Next]_vars
    PROVE  \/ UNCHANGED session
           \/ Restart
           \/ StartSession \/ Review \/ StartPrepare \/ EndPrepare \/ PublishSession
           \/ \E plan \in Plans : Revise(plan)
<1>1. CASE DraftNext
  BY <1>1 DEF DraftNext, EditConfig, EditRules, Validate, Discard, Publish
<1>2. CASE RulesNext
  BY <1>2 DEF RulesNext, CreateRule, StartCompile, EndRequest, EndCompile, Activate, Retire
<1>3. CASE NormsNext
  BY <1>3 DEF NormsNext, StartValidation, EndValidation, AdoptNorm, RejectNorm
<1>4. CASE SessionNext
  BY <1>4 DEF SessionNext
<1>5. CASE Restart \/ RestartWithoutDatabase \/ PastMoves \/ UNCHANGED vars
  BY <1>5 DEF RestartWithoutDatabase, PastMoves, vars
<1> QED
  BY <1>1, <1>2, <1>3, <1>4, <1>5 DEF Next

(* Tables grow in every step, and versions stay checked.                        *)
LEMMA TablesStep ==
    ASSUME IInv, [Next]_vars
    PROVE  TablesInv' /\ Grows /\ VersionsInv'
<1>1. ASSUME TablesInv', Grows, UNCHANGED versions PROVE VersionsInv'
  <2>1. \A v \in DOMAIN versions : versions[v] \in Snapshot
    BY LenProperties, ElementOfSeq DEF IInv, VersionsInv
  <2>2. ASSUME NEW v \in DOMAIN versions PROVE AllChecked(versions[v].rules)'
    <3>1. PICK artifacts \in SUBSET Artifact : artifacts = versions[v].rules
      BY <2>1 DEF Snapshot
    <3>2. AllChecked(artifacts)
      BY <3>1 DEF IInv, VersionsInv
    <3>3. AllChecked(artifacts)'
      BY <1>1, <3>2, StayChecked DEF IInv
    <3> QED
      BY <1>1, <3>1, <3>3 DEF AllChecked, Exist
  <2> QED
    BY <1>1, <2>2 DEF IInv, VersionsInv
<1>2. CASE UNCHANGED <<rules, codes, versions>>
  BY <1>1, <1>2, CodeGrows
<1>3. CASE CreateRule
  BY <1>1, <1>3, CreateGrows DEF CreateRule
<1>4. CASE EndRequest
  <2>1. UNCHANGED versions
    BY <1>4 DEF EndRequest
  <2>2. CASE UNCHANGED <<rules, codes, draft>>
    BY <1>1, <2>1, <2>2, CodeGrows
  <2>3. CASE Len(codes) < MaxCodes /\ \E valid \in BOOLEAN : Land(request.rule, valid)
    <3>1. request.rule \in DOMAIN rules
      BY <1>4 DEF EndRequest, IInv, JobsInv
    <3> QED
      BY <1>1, <2>1, <2>3, <3>1, LandGrows
  <2> QED
    BY <1>4, <2>2, <2>3 DEF EndRequest
<1>5. ASSUME NEW r \in DOMAIN rules, EndCompile(r)
      PROVE  TablesInv' /\ Grows /\ VersionsInv'
  <2>1. UNCHANGED versions
    BY <1>5 DEF EndCompile
  <2>2. CASE Len(codes) < MaxCodes /\ \E valid \in BOOLEAN : Land(r, valid)
    BY <1>1, <2>1, <2>2, LandGrows
  <2>3. CASE /\ rules' = IF rules[r].status = "compiling"
                         THEN [rules EXCEPT ![r].status = "draft"] ELSE rules
             /\ UNCHANGED <<codes, draft>>
    <3>1. CASE UNCHANGED rules
      BY <1>1, <2>1, <2>3, <3>1, CodeGrows
    <3>2. CASE rules' = [rules EXCEPT ![r].status = "draft"]
      <4>1. /\ Len(rules) \in Nat /\ DOMAIN rules = 1..Len(rules) /\ rules \in Seq(RuleRow)
            /\ rules[r] \in RuleRow
        BY TablesFields DEF IInv, TablesInv
      <4>2. PICK row : row = [rules[r] EXCEPT !.status = "draft"]
        OBVIOUS
      <4>3. row \in RuleRow /\ row.text = rules[r].text /\ row.code = rules[r].code
        BY <4>1, <4>2 DEF RuleRow
      <4>4. rules' = [rules EXCEPT ![r] = row]
        BY <3>2, <4>1, <4>2
      <4>5. /\ rules' \in Seq(RuleRow) /\ Len(rules') = Len(rules)
            /\ \A q \in 1..Len(rules) : rules'[q] = IF q = r THEN row ELSE rules[q]
        BY <4>1, <4>3, <4>4, ExceptSeq
      <4>6. DOMAIN rules' = DOMAIN rules
        BY <4>4
      <4>7. \A q \in DOMAIN rules : rules'[q].text = rules[q].text /\ rules'[q].code = rules[q].code
        BY <4>1, <4>3, <4>5
      <4>8. TablesInv'
        BY <2>3, <4>5, <4>6, <4>7 DEF IInv, TablesInv
      <4>9. Grows
        BY <2>1, <2>3, <4>1, <4>5, <4>7, TablesFields, ActiveFields DEF IInv, Grows
      <4> QED
        BY <1>1, <2>1, <4>8, <4>9
    <3> QED
      BY <2>3, <3>1, <3>2
  <2> QED
    BY <1>5, <2>2, <2>3 DEF EndCompile
<1>6. ASSUME NEW n \in Norms, EndValidation(n)
      PROVE  TablesInv' /\ Grows /\ VersionsInv'
  BY <1>1, <1>6, CodeGrows DEF EndValidation
<1>7. CASE EndPrepare
  <2>1. UNCHANGED <<rules, versions>> /\
        (UNCHANGED codes \/ (Len(codes) < MaxCodes /\ codes' = Append(codes, TRUE)))
    BY <1>7 DEF EndPrepare
  <2> QED
    BY <1>1, <2>1, CodeGrows
<1>8. CASE Publish
  BY <1>8, DraftHanded, HandedPublished
<1>9. ASSUME NEW n \in Norms, AdoptNorm(n)
      PROVE  TablesInv' /\ Grows /\ VersionsInv'
  BY <1>9, NormHanded, HandedPublished
<1>10. CASE PublishSession
  BY <1>10, SessionHanded, HandedPublished
<1> QED
  BY <1>2, <1>3, <1>4, <1>5, <1>6, <1>7, <1>8, <1>9, <1>10, TableKinds

-----------------------------------------------------------------------------
\* The draft

\* A row of the draft as DraftInv wants it, but for what its artifacts are.
DraftLike(row) ==
    /\ row \in DraftRow /\ row.base <= Len(versions) /\ row.validated = -1
    /\ row.revision # 0 /\ row.base # 0

(* A draft that a step stages is well formed, and its artifacts exist.        *)
LEMMA NewDraft ==
    ASSUME IInv, TablesInv', Grows, VersionsInv', NEW row, DraftLike(row), draft' = row,
           NEW S \in SUBSET Artifact, S = row.snapshot.rules, Exist(S)'
    PROVE  DraftInv'
<1>1. Len(versions) \in Nat /\ Len(versions') \in Nat /\ Len(versions) <= Len(versions')
  BY ActiveFields, LenProperties DEF IInv, VersionsInv, Grows
<1>2. row.base \in Nat
  BY Bounds DEF DraftLike, DraftRow
<1>3. draft'.snapshot.rules = S
  OBVIOUS
<1>4. Exist(draft.snapshot.rules)'
  BY <1>3 DEF Exist
<1>5. draft'.base <= Len(versions')
  BY <1>1, <1>2 DEF DraftLike
<1>6. draft' \in DraftRow /\ draft'.validated = -1 /\ draft'.revision # 0 /\ draft'.base # 0
  BY DEF DraftLike
<1> QED
  BY <1>4, <1>5, <1>6 DEF DraftInv

(* A draft that a step leaves alone stays well formed.                        *)
LEMMA SameDraft ==
    ASSUME IInv, TablesInv', Grows, VersionsInv', UNCHANGED draft
    PROVE  DraftInv'
<1>1. Len(versions) \in Nat /\ Len(versions') \in Nat /\ Len(versions) <= Len(versions')
  BY ActiveFields, LenProperties DEF IInv, VersionsInv, Grows
<1>2. draft.base \in Nat
  BY DraftFields, Bounds DEF IInv
<1>3. PICK S \in SUBSET Artifact : S = draft.snapshot.rules
  BY DraftFields DEF IInv
<1>4. Exist(S)' /\ (AllChecked(S) => AllChecked(S)')
  BY <1>3, StayChecked DEF IInv, DraftInv
<1>5. Exist(draft.snapshot.rules)'
  BY <1>3, <1>4 DEF Exist
<1>6. draft.validated # -1 => AllChecked(draft.snapshot.rules)'
  BY <1>3, <1>4 DEF IInv, DraftInv, AllChecked, Exist
<1>7. draft'.base <= Len(versions')
  BY <1>1, <1>2 DEF IInv, DraftInv
<1> QED
  BY <1>5, <1>6, <1>7 DEF IInv, DraftInv

(* No draft is well formed.                                                   *)
LEMMA NoDraftLeft ==
    ASSUME VersionsInv', draft' = NoDraft
    PROVE  DraftInv'
<1>1. Len(versions') \in Nat
  BY LenProperties DEF VersionsInv
<1>2. NoDraft \in DraftRow /\ NoDraft.base = 0 /\ NoDraft.validated = -1 /\ NoDraft.snapshot.rules = {}
  BY Bounds DEF NoDraft, DraftRow, Snapshot
<1>3. Exist(draft.snapshot.rules)'
  BY <1>2 DEF Exist
<1> QED
  BY <1>1, <1>2, <1>3 DEF DraftInv

(* The artifact of a row exists.                                              *)
LEMMA ArtifactsOfRows ==
    ASSUME TablesInv, NEW r \in DOMAIN rules
    PROVE  ArtifactOf(r) \in Artifact /\ ArtifactOf(r).rule = r /\ ArtifactOf(r).code <= Len(codes)
<1>1. rules[r] \in RuleRow /\ r \in 1..MaxRules
  BY TablesFields, Bounds DEF TablesInv
<1> QED
  BY <1>1 DEF TablesInv, RuleRow, ArtifactOf, Artifact

(* A compilation that lands stages its artifact, when the draft has the rule.   *)
LEMMA LandDraft ==
    ASSUME IInv, NEW r \in DOMAIN rules, NEW valid \in BOOLEAN, Len(codes) < MaxCodes, CanStage,
           Land(r, valid), UNCHANGED versions, TablesInv', Grows, VersionsInv'
    PROVE  DraftInv'
<1>1. CASE draft' = draft
  BY <1>1, SameDraft
<1>2. CASE draft' # draft
  <2> DEFINE code == Len(codes) + 1
             replace(a) == IF a.rule = r THEN [rule |-> r, code |-> code] ELSE a
  <2>1. /\ Len(codes') = Len(codes) + 1 /\ DOMAIN rules' = DOMAIN rules
        /\ Len(codes) \in Nat /\ Len(codes') <= MaxCodes
    BY LandGrows, TablesFields DEF IInv, TablesInv
  <2>2. r \in 1..MaxRules /\ code \in 0..MaxCodes
    BY <2>1, TablesFields, Bounds DEF IInv, TablesInv
  <2>3. draft.snapshot.rules \in SUBSET Artifact /\ Exist(draft.snapshot.rules)
        /\ draft.snapshot \in Snapshot
    BY DraftFields DEF IInv, DraftInv
  <2>4. ASSUME NEW a \in draft.snapshot.rules
        PROVE  replace(a) \in Artifact /\ replace(a).rule \in DOMAIN rules /\ replace(a).code <= code
    <3>1. a \in Artifact /\ a.rule \in DOMAIN rules /\ a.code <= Len(codes) /\ a.code \in Nat
      BY <2>3, Bounds DEF Exist, Artifact
    <3>2. CASE a.rule = r
      BY <2>1, <2>2, <3>2 DEF Artifact
    <3>3. CASE a.rule # r
      BY <2>1, <3>1, <3>3
    <3> QED
      BY <3>2, <3>3
  <2>5. PICK S : S = {replace(a) : a \in draft.snapshot.rules}
    OBVIOUS
  <2>6. PICK s : s = [draft.snapshot EXCEPT !.rules = S]
    OBVIOUS
  <2>7. draft' = Staged(s)
    BY <1>2, <2>5, <2>6 DEF Land
  <2>8. S \in SUBSET Artifact /\ \A a \in S : a.rule \in DOMAIN rules' /\ a.code <= Len(codes')
    BY <2>1, <2>4, <2>5
  <2>9. Exist(S)'
    BY <2>8 DEF Exist
  <2>10. s \in Snapshot /\ s.rules = S
    BY <2>3, <2>6, <2>8 DEF Snapshot
  <2> HIDE DEF code, replace
  <2>11. PICK row : row = Staged(s)
    OBVIOUS
  <2>12. DraftLike(row) /\ row.snapshot = s
    BY <2>10, <2>11, StagedFields DEF IInv, DraftLike
  <2> QED
    BY <2>7, <2>8, <2>9, <2>10, <2>11, <2>12, NewDraft
<1> QED
  BY <1>1, <1>2

\* Every step leaves a draft whose artifacts exist, checked when it is validated.
LEMMA DraftStep ==
    ASSUME IInv, [Next]_vars, TablesInv', Grows, VersionsInv'
    PROVE  DraftInv'
<1>1. /\ Candidate \in Snapshot /\ Exist(Candidate.rules)
      /\ EditBase \in Snapshot /\ Exist(EditBase.rules)
  BY CandidateFields DEF IInv
<1>2. /\ Candidate.rules \in SUBSET Artifact /\ EditBase.rules \in SUBSET Artifact
      /\ Candidate.config \in Configs /\ EditBase.config \in Configs
      /\ Candidate.guidance \in SUBSET Norms /\ EditBase.guidance \in SUBSET Norms
  BY <1>1 DEF Snapshot
<1>3. ASSUME NEW s \in Snapshot, CanStage, Exist(s.rules) \/ Exist(s.rules)',
             draft' \in {Staged(s), [Staged(s) EXCEPT !.base = Len(versions)]}
      PROVE  DraftInv'
  <2>1. PICK row \in {Staged(s), [Staged(s) EXCEPT !.base = Len(versions)]} : draft' = row
    BY <1>3
  <2>2. DraftLike(row) /\ row.snapshot = s
    <3>1. CASE row = Staged(s)
      BY <1>3, <3>1, StagedFields DEF IInv, DraftLike
    <3>2. CASE row = [Staged(s) EXCEPT !.base = Len(versions)]
      <4>1. /\ row \in DraftRow /\ row.snapshot = s /\ row.validated = -1
            /\ row.revision # 0 /\ row.base = Len(versions) /\ row.base # 0
        BY <1>3, <3>2, RebasedFields DEF IInv
      <4>2. Len(versions) \in Nat
        BY ActiveFields DEF IInv
      <4> QED
        BY <4>1, <4>2 DEF DraftLike
    <3> QED
      BY <2>1, <3>1, <3>2
  <2>3. PICK S \in SUBSET Artifact : S = s.rules
    BY DEF Snapshot
  <2>4. Exist(S)'
    BY <1>3, <2>3, StayChecked DEF IInv
  <2> QED
    BY <2>1, <2>2, <2>3, <2>4, NewDraft
<1>4. ASSUME NEW config \in Configs, EditConfig(config)
      PROVE  DraftInv'
  <2> DEFINE s == [EditBase EXCEPT !.config = config]
  <2>1. s \in Snapshot /\ s.rules = EditBase.rules
    BY <1>1 DEF Snapshot
  <2>2. CanStage /\ draft' = [Staged(s) EXCEPT !.base = Len(versions)]
    BY <1>4 DEF EditConfig
  <2> HIDE DEF s
  <2> QED
    BY <1>1, <1>3, <2>1, <2>2
<1>5. ASSUME NEW ids \in SUBSET DOMAIN rules, EditRules(ids)
      PROVE  DraftInv'
  <2> DEFINE S == {ArtifactOf(r) : r \in ids}
             s == [EditBase EXCEPT !.rules = S]
  <2>1. S \in SUBSET Artifact /\ Exist(S)
    BY ArtifactsOfRows DEF IInv, Exist
  <2>2. s \in Snapshot /\ s.rules = S
    BY <1>1, <2>1 DEF Snapshot
  <2>3. CanStage /\ draft' = [Staged(s) EXCEPT !.base = Len(versions)]
    BY <1>5 DEF EditRules
  <2> HIDE DEF s, S
  <2> QED
    BY <1>3, <2>1, <2>2, <2>3
<1>6. CASE Validate
  <2>1. PICK S \in SUBSET Artifact : S = draft.snapshot.rules
    BY DraftFields DEF IInv
  <2>2. AllChecked(S)
    BY <1>6, <2>1 DEF Validate, WellFormed, AllChecked, IInv, DraftInv
  <2>3. AllChecked(S)'
    BY <2>2, StayChecked DEF IInv
  <2>4. draft' = [draft EXCEPT !.validated = past] /\ draft # NoDraft /\ UNCHANGED versions
    BY <1>6 DEF Validate
  <2>5. past \in -1..MaxPast /\ draft \in DraftRow
    BY Bounds DEF IInv, PastInv, DraftInv
  <2>6. draft' \in DraftRow /\ draft'.snapshot = draft.snapshot /\ draft'.base = draft.base
        /\ draft'.revision = draft.revision
    BY <2>4, <2>5 DEF DraftRow
  <2>7. AllChecked(draft.snapshot.rules)' /\ Exist(draft.snapshot.rules)'
    BY <2>1, <2>3, <2>6 DEF AllChecked, Exist
  <2> QED
    BY <2>4, <2>6, <2>7 DEF IInv, DraftInv
<1>7. CASE Discard \/ Publish
  BY <1>7, NoDraftLeft DEF Discard, Publish
<1>8. CASE CreateRule
  <2> DEFINE new == [rule |-> Len(rules) + 1, code |-> 0]
             s == [Candidate EXCEPT !.rules = @ \union {new}]
  <2>1. /\ UNCHANGED codes /\ Len(rules) + 1 \in DOMAIN rules' /\ Len(rules) + 1 \in 1..MaxRules
        /\ Len(codes') \in Nat
    BY <1>8, CreateGrows, LenProperties DEF TablesInv
  <2>2. new \in Artifact /\ new.code <= Len(codes') /\ new.rule \in DOMAIN rules'
    BY <2>1, Bounds DEF Artifact
  <2>3. s \in Snapshot /\ s.rules = Candidate.rules \union {new}
    BY <1>1, <2>2 DEF Snapshot
  <2>4. PICK C \in SUBSET Artifact : C = Candidate.rules
    BY <1>2
  <2>5. Exist(C)'
    BY <1>1, <2>4, StayChecked DEF IInv
  <2>6. PICK S \in SUBSET Artifact : S = C \union {new}
    BY <2>2
  <2>7. Exist(S)'
    BY <2>2, <2>5, <2>6 DEF Exist
  <2>8. CanStage /\ draft' = Staged(s)
    BY <1>8 DEF CreateRule
  <2> HIDE DEF s, new
  <2>9. DraftLike(Staged(s)) /\ Staged(s).snapshot = s
    BY <2>3, <2>8, StagedFields DEF IInv, DraftLike
  <2> QED
    BY <2>3, <2>4, <2>6, <2>7, <2>8, <2>9, NewDraft
<1>9. CASE EndRequest
  <2>1. CASE UNCHANGED draft
    BY <2>1, SameDraft
  <2>2. CASE ~UNCHANGED draft
    <3>1. /\ Len(codes) < MaxCodes /\ CanStage /\ \E valid \in BOOLEAN : Land(request.rule, valid)
          /\ UNCHANGED versions
      BY <1>9, <2>2 DEF EndRequest
    <3>2. request.rule \in DOMAIN rules
      BY <1>9 DEF EndRequest, IInv, JobsInv
    <3> QED
      BY <3>1, <3>2, LandDraft
  <2> QED
    BY <2>1, <2>2
<1>10. ASSUME NEW r \in DOMAIN rules, EndCompile(r)
       PROVE  DraftInv'
  <2>1. CASE UNCHANGED draft
    BY <2>1, SameDraft
  <2>2. CASE ~UNCHANGED draft
    <3>1. /\ Len(codes) < MaxCodes /\ CanStage /\ \E valid \in BOOLEAN : Land(r, valid)
          /\ UNCHANGED versions
      BY <1>10, <2>2 DEF EndCompile
    <3> QED
      BY <3>1, LandDraft
  <2> QED
    BY <2>1, <2>2
<1>11. ASSUME NEW r \in DOMAIN rules, Activate(r)
       PROVE  DraftInv'
  <2> DEFINE S == Without(Candidate, r) \union {ArtifactOf(r)}
             s == [Candidate EXCEPT !.rules = S]
  <2>1. S \in SUBSET Artifact /\ Exist(S)
    BY <1>1, <1>2, ArtifactsOfRows DEF IInv, Exist, Without
  <2>2. s \in Snapshot /\ s.rules = S
    BY <1>1, <2>1 DEF Snapshot
  <2>3. CanStage /\ draft' = Staged(s)
    BY <1>11 DEF Activate
  <2> HIDE DEF s, S
  <2> QED
    BY <1>3, <2>1, <2>2, <2>3
<1>12. ASSUME NEW r \in DOMAIN rules, Retire(r)
       PROVE  DraftInv'
  <2> DEFINE S == Without(Candidate, r)
             s == [Candidate EXCEPT !.rules = S]
  <2>1. S \in SUBSET Artifact /\ Exist(S)
    BY <1>1, <1>2 DEF Exist, Without
  <2>2. s \in Snapshot /\ s.rules = S
    BY <1>1, <2>1 DEF Snapshot
  <2>3. CanStage /\ draft' = Staged(s)
    BY <1>12 DEF Retire
  <2> HIDE DEF s, S
  <2> QED
    BY <1>3, <2>1, <2>2, <2>3
<1>13. CASE UNCHANGED draft
  BY <1>13, SameDraft
<1> QED
  BY <1>4, <1>5, <1>6, <1>7, <1>8, <1>9, <1>10, <1>11, <1>12, <1>13, DraftKinds

-----------------------------------------------------------------------------
\* Compilations

(* The actions that write compilations.                                       *)
LEMMA JobKinds ==
    ASSUME [Next]_vars
    PROVE  \/ UNCHANGED <<compiling, request>>
           \/ CreateRule \/ EndRequest \/ Restart \/ RestartWithoutDatabase
           \/ \E r \in DOMAIN rules : StartCompile(r) \/ EndCompile(r)
<1>1. CASE DraftNext
  BY <1>1 DEF DraftNext, EditConfig, EditRules, Validate, Discard, Publish, ruleVars
<1>2. CASE RulesNext
  BY <1>2 DEF RulesNext, Activate, Retire, ruleVars
<1>3. CASE NormsNext
  BY <1>3 DEF NormsNext, StartValidation, EndValidation, AdoptNorm, RejectNorm, ruleVars
<1>4. CASE SessionNext
  BY <1>4 DEF SessionNext, StartSession, Review, StartPrepare, EndPrepare, PublishSession, Revise, ruleVars
<1>5. CASE Restart \/ RestartWithoutDatabase \/ PastMoves \/ UNCHANGED vars
  BY <1>5 DEF PastMoves, vars, ruleVars
<1> QED
  BY <1>1, <1>2, <1>3, <1>4, <1>5 DEF Next

(* A compilation of a row that exists is a job.                                 *)
LEMMA JobFields ==
    ASSUME NEW row \in DraftRow, NEW r \in 1..MaxRules
    PROVE  [rule |-> r, context |-> ContextOf(row)] \in Job /\ NoJob \in Job
<1>1. ContextOf(row) \in Configs \union {"none", "no_draft"}
  BY DEF ContextOf, DraftRow, Snapshot
<1> QED
  BY <1>1, Bounds DEF Job, NoJob

(* Every compilation is of a rule that exists.                                *)
LEMMA JobsStep ==
    ASSUME IInv, [Next]_vars, TablesInv', Grows, VersionsInv', DraftInv'
    PROVE  JobsInv'
<1>1. /\ DOMAIN rules \subseteq DOMAIN rules' /\ DOMAIN rules \subseteq 1..MaxRules
      /\ DOMAIN rules = 1..Len(rules) /\ Len(rules) \in Nat
  <2>1. DOMAIN rules' = 1..Len(rules') /\ Len(rules') \in Nat
    BY LenProperties DEF TablesInv
  <2> QED
    BY <2>1, TablesFields, Bounds DEF IInv, TablesInv, Grows
<1>2. draft \in DraftRow /\ draft' \in DraftRow
  BY DEF IInv, DraftInv
<1>3. /\ \A r \in 1..MaxRules : [rule |-> r, context |-> ContextOf(draft)] \in Job
      /\ \A r \in 1..MaxRules : [rule |-> r, context |-> ContextOf(draft')] \in Job
      /\ NoJob \in Job
  <2>1. 1 \in 1..MaxRules
    BY Bounds
  <2> QED
    BY <1>2, <2>1, JobFields
<1>4. /\ compiling \in [1..MaxRules -> Job] /\ request \in Job
      /\ request # NoJob => request.rule \in DOMAIN rules
  BY DEF IInv, JobsInv
<1>5. CASE UNCHANGED <<compiling, request>>
  BY <1>1, <1>4, <1>5 DEF JobsInv
<1>6. CASE CreateRule
  <2> DEFINE r == Len(rules) + 1
  <2>1. r \in 1..MaxRules
    BY <1>6, CreateGrows
  <2>2. compiling' = [compiling EXCEPT ![r] = [rule |-> r, context |-> ContextOf(draft')]]
        /\ UNCHANGED request
    BY <1>6 DEF CreateRule
  <2> HIDE DEF r
  <2>3. compiling' \in [1..MaxRules -> Job]
    BY <1>3, <1>4, <2>1, <2>2
  <2> QED
    BY <1>1, <1>4, <2>2, <2>3 DEF JobsInv
<1>7. CASE EndRequest
  BY <1>3, <1>4, <1>7 DEF EndRequest, JobsInv
<1>8. CASE Restart
  <2>1. request' = NoJob /\ compiling' = Resumed
    BY <1>8 DEF Restart
  <2>2. Resumed \in [1..MaxRules -> Job]
    BY <1>3 DEF Resumed
  <2> QED
    BY <1>3, <2>1, <2>2 DEF JobsInv
<1>9. CASE RestartWithoutDatabase
  BY <1>3, <1>9 DEF RestartWithoutDatabase, JobsInv
<1>10. ASSUME NEW r \in DOMAIN rules, StartCompile(r)
       PROVE  JobsInv'
  <2>1. PICK job : job = [rule |-> r, context |-> ContextOf(draft)]
    OBVIOUS
  <2>2. job \in Job /\ job.rule = r
    BY <1>1, <1>3, <2>1
  <2>3. request' = job /\ UNCHANGED <<compiling, rules>>
    BY <1>10, <2>1 DEF StartCompile
  <2> QED
    BY <1>4, <2>2, <2>3 DEF JobsInv
<1>11. ASSUME NEW r \in DOMAIN rules, EndCompile(r)
       PROVE  JobsInv'
  <2>1. compiling' = [compiling EXCEPT ![r] = NoJob] /\ UNCHANGED request
    BY <1>11 DEF EndCompile
  <2>2. compiling' \in [1..MaxRules -> Job]
    BY <1>3, <1>4, <2>1
  <2> QED
    BY <1>1, <1>4, <2>1, <2>2 DEF JobsInv
<1> QED
  BY <1>5, <1>6, <1>7, <1>8, <1>9, <1>10, <1>11, JobKinds

-----------------------------------------------------------------------------
\* Norms

(* A norm as NormsInv wants it, on the codes and rows of after the step.         *)
LEMMA NewNorm ==
    ASSUME IInv, TablesInv, TablesInv', Grows, NEW n \in Norms, NEW norm \in Norm,
           norms' = [norms EXCEPT ![n] = norm],
           norm.running => norm.status = "open",
           norm.code <= Len(codes'), norm.text <= Len(rules'),
           norm.valid /\ n \in Deterministic => Checked(norm.code)'
    PROVE  NormsInv'
<1>1. norms \in [Norms -> Norm] /\ norms' \in [Norms -> Norm]
      /\ \A m \in Norms : norms'[m] = IF m = n THEN norm ELSE norms[m]
  BY DEF IInv, NormsInv
<1>2. ASSUME NEW m \in Norms, m # n
      PROVE  /\ norms[m].running => norms[m].status = "open"
             /\ norms[m].code <= Len(codes') /\ norms[m].text <= Len(rules')
             /\ norms[m].valid /\ m \in Deterministic => Checked(norms[m].code)'
  <2>1. PICK old \in Norm : old = norms[m]
    BY <1>1
  <2>2. /\ old.code \in Nat /\ old.text \in Nat /\ Len(codes) \in Nat /\ Len(rules) \in Nat
        /\ Len(codes') \in Nat /\ Len(rules') \in Nat
    BY <2>1, TablesFields, LenProperties, Bounds, SMTT(30) DEF Norm, TablesInv
  <2>3. old.code <= Len(codes) /\ old.text <= Len(rules)
    BY <2>1 DEF IInv, NormsInv
  <2>4. old.code <= Len(codes') /\ old.text <= Len(rules')
    BY <2>2, <2>3 DEF Grows
  <2>5. old.valid /\ m \in Deterministic => Checked(old.code)
    BY <2>1 DEF IInv, NormsInv
  <2>6. Checked(old.code) => Checked(old.code)'
    BY <2>2, <2>3, StayChecked
  <2>7. old.running => old.status = "open"
    BY <2>1 DEF IInv, NormsInv
  <2>8. PICK code : code = old.code
    OBVIOUS
  <2>9. old.valid /\ m \in Deterministic => Checked(code)'
    BY <2>5, <2>6, <2>8
  <2> QED
    BY <1>1, <1>2, <2>1, <2>4, <2>7, <2>8, <2>9 DEF Checked
<1> QED
  BY <1>1, <1>2 DEF NormsInv, Checked

\* Norms that a step leaves alone, or whose validation a restart ends, stay well formed.
LEMMA SameNorms ==
    ASSUME IInv, TablesInv', Grows,
           UNCHANGED norms \/ norms' = [n \in Norms |-> [norms[n] EXCEPT !.running = FALSE]]
    PROVE  NormsInv'
<1>1. norms \in [Norms -> Norm]
  BY DEF IInv, NormsInv
<1>2. ASSUME NEW n \in Norms
      PROVE  /\ norms'[n] \in Norm
             /\ norms'[n].running => norms'[n].status = "open"
             /\ norms'[n].code <= Len(codes') /\ norms'[n].text <= Len(rules')
             /\ norms'[n].valid /\ n \in Deterministic => Checked(norms[n].code)'
  <2>1. PICK old \in Norm : old = norms[n]
    BY <1>1
  <2>2. PICK new : new = norms'[n]
    OBVIOUS
  <2>3. new = old \/ new = [old EXCEPT !.running = FALSE]
    BY <1>1, <2>1, <2>2
  <2>4. /\ new \in Norm /\ new.code = old.code /\ new.text = old.text /\ new.valid = old.valid
        /\ new.running => old.running /\ new.status = old.status
    BY <2>3 DEF Norm
  <2>5. /\ old.code \in Nat /\ old.text \in Nat /\ Len(codes) \in Nat /\ Len(rules) \in Nat
        /\ Len(codes') \in Nat /\ Len(rules') \in Nat
    BY <2>1, TablesFields, LenProperties, Bounds, SMTT(30) DEF Norm, TablesInv, IInv
  <2>6. old.code <= Len(codes) /\ old.text <= Len(rules) /\ (old.running => old.status = "open")
    BY <2>1 DEF IInv, NormsInv
  <2>7. old.code <= Len(codes') /\ old.text <= Len(rules')
    BY <2>5, <2>6 DEF Grows
  <2>8. old.valid /\ n \in Deterministic => Checked(old.code)
    BY <2>1 DEF IInv, NormsInv
  <2>9. Checked(old.code) => Checked(old.code)'
    BY <2>5, <2>6, StayChecked DEF IInv
  <2>10. PICK code : code = old.code
    OBVIOUS
  <2>11. old.valid /\ n \in Deterministic => Checked(code)'
    BY <2>8, <2>9, <2>10
  <2>12. norms'[n].code = code /\ norms'[n].valid = old.valid
    BY <2>2, <2>4, <2>10
  <2> QED
    BY <2>2, <2>4, <2>6, <2>7, <2>11, <2>12 DEF Checked
<1>3. norms' \in [Norms -> Norm]
  <2>1. CASE UNCHANGED norms
    BY <1>1, <2>1
  <2>2. CASE norms' = [n \in Norms |-> [norms[n] EXCEPT !.running = FALSE]]
    <3>1. ASSUME NEW n \in Norms PROVE [norms[n] EXCEPT !.running = FALSE] \in Norm
      <4>1. PICK old \in Norm : old = norms[n]
        BY <1>1
      <4>2. [old EXCEPT !.running = FALSE] \in Norm
        BY DEF Norm
      <4> QED
        BY <4>1, <4>2
    <3> QED
      BY <2>2, <3>1
  <2> QED
    BY <2>1, <2>2
<1> QED
  BY <1>2, <1>3 DEF NormsInv, Checked

(* A norm that is valid and becomes a rule has a checked code.                *)
LEMMA NormsStep ==
    ASSUME IInv, [Next]_vars, TablesInv', Grows, VersionsInv'
    PROVE  NormsInv'
<1>1. /\ norms \in [Norms -> Norm] /\ NoNorm \in Norm /\ TablesInv
      /\ Len(codes) \in Nat /\ Len(rules) \in Nat /\ Len(codes') \in Nat /\ Len(rules') \in Nat
      /\ Len(codes) <= Len(codes') /\ Len(rules) <= Len(rules')
  <2>1. NoNorm \in Norm
    BY Bounds DEF NoNorm, Norm
  <2>2. Len(codes') \in Nat /\ Len(rules') \in Nat
    BY LenProperties DEF TablesInv
  <2> QED
    BY <2>1, <2>2, TablesFields DEF IInv, NormsInv, Grows
<1>2. CASE UNCHANGED norms
  BY <1>2, SameNorms
<1>3. CASE Restart
  BY <1>3, SameNorms DEF Restart
<1>4. ASSUME NEW n \in Norms, StartValidation(n)
      PROVE  NormsInv'
  <2>1. PICK norm : norm = [NoNorm EXCEPT !.running = TRUE, !.active = Len(versions), !.past = past]
    OBVIOUS
  <2>2. Len(versions) \in 0..MaxVersions /\ past \in 0..MaxPast
    BY ActiveFields, Bounds DEF IInv, VersionsInv, PastInv
  <2>3. norm \in Norm /\ norm.status = "open" /\ norm.code = 0 /\ norm.text = 0 /\ ~norm.valid
    BY <1>1, <2>1, <2>2 DEF NoNorm, Norm
  <2>4. norms' = [norms EXCEPT ![n] = norm]
    BY <1>4, <2>1 DEF StartValidation
  <2>5. norm.code <= Len(codes') /\ norm.text <= Len(rules')
    BY <1>1, <2>3
  <2>6. norm.valid /\ n \in Deterministic => Checked(norm.code)'
    BY <2>3
  <2> QED
    BY <1>1, <2>3, <2>4, <2>5, <2>6, NewNorm
<1>5. ASSUME NEW n \in Norms, EndValidation(n)
      PROVE  NormsInv'
  <2>1. PICK old \in Norm : old = norms[n]
    BY <1>1
  <2>2. /\ old.status = "open" /\ old.code <= Len(codes) /\ old.text <= Len(rules)
        /\ old.valid /\ n \in Deterministic => Checked(old.code)
        /\ old.code \in Nat /\ old.text \in Nat
    BY <1>5, <2>1, Bounds DEF EndValidation, IInv, NormsInv, Norm
  <2>3. old.code <= Len(codes') /\ old.text <= Len(rules')
    BY <1>1, <2>2
  <2>4. CASE n \notin Deterministic /\ norms' = [norms EXCEPT ![n].running = FALSE, ![n].valid = TRUE]
    <3>1. PICK norm : norm = [old EXCEPT !.running = FALSE, !.valid = TRUE]
      OBVIOUS
    <3>2. norm \in Norm /\ ~norm.running /\ norm.code = old.code /\ norm.text = old.text
      BY <3>1 DEF Norm
    <3>3. norms' = [norms EXCEPT ![n] = norm]
      BY <1>1, <2>1, <2>4, <3>1
    <3> QED
      BY <1>1, <2>3, <2>4, <3>2, <3>3, NewNorm
  <2>5. CASE /\ n \in Deterministic /\ Len(codes) < MaxCodes
             /\ codes' = Append(codes, TRUE)
             /\ norms' = [norms EXCEPT ![n].running = FALSE, ![n].valid = TRUE,
                                       ![n].code = Len(codes) + 1]
    <3>1. PICK norm : norm = [old EXCEPT !.running = FALSE, !.valid = TRUE, !.code = Len(codes) + 1]
      OBVIOUS
    <3>2. /\ Len(codes') = Len(codes) + 1 /\ codes'[Len(codes) + 1] = TRUE
          /\ Len(codes) + 1 \in 0..MaxCodes
      BY <1>1, <2>5, CodeAppended, Bounds
    <3>3. norm \in Norm /\ ~norm.running /\ norm.code = Len(codes) + 1 /\ norm.text = old.text
      BY <3>1, <3>2 DEF Norm
    <3>4. norms' = [norms EXCEPT ![n] = norm]
      BY <1>1, <2>1, <2>5, <3>1
    <3>5. Checked(norm.code)'
      BY <1>1, <3>2, <3>3 DEF Checked
    <3>6. norm.code <= Len(codes')
      BY <1>1, <3>2, <3>3
    <3> QED
      BY <1>1, <2>3, <3>3, <3>4, <3>5, <3>6, NewNorm
  <2>6. CASE norms' = [norms EXCEPT ![n].running = FALSE] /\ UNCHANGED codes
    <3>1. PICK norm : norm = [old EXCEPT !.running = FALSE]
      OBVIOUS
    <3>2. /\ norm \in Norm /\ ~norm.running /\ norm.code = old.code /\ norm.text = old.text
          /\ norm.valid = old.valid
      BY <3>1 DEF Norm
    <3>3. norms' = [norms EXCEPT ![n] = norm]
      BY <1>1, <2>1, <2>6, <3>1
    <3>4. norm.valid /\ n \in Deterministic => Checked(norm.code)'
      BY <2>2, <2>6, <3>2 DEF Checked
    <3> QED
      BY <1>1, <2>3, <3>2, <3>3, <3>4, NewNorm
  <2> QED
    BY <1>5, <2>4, <2>5, <2>6 DEF EndValidation
<1>6. ASSUME NEW n \in Norms, AdoptNorm(n)
      PROVE  NormsInv'
  <2>1. PICK table, s :
               /\ Handed(table, s) /\ PublishSnapshot(table, s) /\ UNCHANGED codes
               /\ norms'[n].status = "accepted" /\ norms'[n] \in Norm
               /\ norms'[n].valid = norms[n].valid /\ norms'[n].code = norms[n].code
               /\ norms'[n].running = norms[n].running
               /\ norms' = [norms EXCEPT ![n] = norms'[n]]
               /\ n \notin Deterministic => norms'[n].text = norms[n].text
               /\ n \in Deterministic =>
                     norms'[n].text = Len(rules) + 1 /\ Len(rules) + 1 \in DOMAIN table
    BY <1>6, NormHanded, Zenon
  <2>2. PICK norm \in Norm : norm = norms'[n]
    BY <2>1
  <2>3. DOMAIN rules' = DOMAIN table /\ DOMAIN rules' = 1..Len(rules')
    BY <2>1, HandedPublished, LenProperties DEF TablesInv
  <2>4. PICK old \in Norm : old = norms[n]
    BY <1>1
  <2>5. /\ old.code <= Len(codes) /\ old.text <= Len(rules)
        /\ old.valid /\ n \in Deterministic => Checked(old.code)
        /\ old.code \in Nat /\ old.text \in Nat /\ ~old.running
    BY <1>6, <2>4, Bounds, SMTT(30) DEF AdoptNorm, IInv, NormsInv, Norm
  <2>6. norm.code = old.code /\ norm.valid = old.valid /\ norm.running = old.running
    BY <2>1, <2>2, <2>4
  <2>7. norm.text <= Len(rules')
    <3>1. CASE n \in Deterministic
      BY <1>1, <2>1, <2>2, <2>3, <3>1
    <3>2. CASE n \notin Deterministic
      BY <1>1, <2>1, <2>2, <2>4, <2>5, <3>2
    <3> QED
      BY <3>1, <3>2
  <2>8. norm.valid /\ n \in Deterministic => Checked(norm.code)'
    BY <2>1, <2>5, <2>6 DEF Checked
  <2>9. norm.code <= Len(codes')
    BY <1>1, <2>5, <2>6
  <2>10. norms' = [norms EXCEPT ![n] = norm]
    BY <2>1, <2>2
  <2> QED
    BY <1>1, <2>5, <2>6, <2>7, <2>8, <2>9, <2>10, NewNorm
<1>7. ASSUME NEW n \in Norms, RejectNorm(n)
      PROVE  NormsInv'
  <2>1. PICK old \in Norm : old = norms[n]
    BY <1>1
  <2>2. /\ ~old.running /\ old.code <= Len(codes) /\ old.text <= Len(rules)
        /\ old.valid /\ n \in Deterministic => Checked(old.code)
        /\ UNCHANGED <<codes, rules>>
    BY <1>7, <2>1 DEF RejectNorm, ruleVars, IInv, NormsInv
  <2>3. PICK norm : norm = [old EXCEPT !.status = "rejected"]
    OBVIOUS
  <2>4. /\ norm \in Norm /\ ~norm.running /\ norm.code = old.code /\ norm.text = old.text
        /\ norm.valid = old.valid
    BY <2>2, <2>3 DEF Norm
  <2>5. norms' = [norms EXCEPT ![n] = norm]
    BY <1>7, <2>1, <2>3 DEF RejectNorm
  <2>6. norm.valid /\ n \in Deterministic => Checked(norm.code)'
    BY <2>2, <2>4 DEF Checked
  <2> QED
    BY <1>1, <2>2, <2>4, <2>5, <2>6, NewNorm
<1> QED
  BY <1>2, <1>3, <1>4, <1>5, <1>6, <1>7, NormKinds

-----------------------------------------------------------------------------
\* The conversation

(* A conversation as SessionInv wants it, on the tables of after the step.      *)
SessionLike(row) ==
    /\ row \in SessionRow
    /\ row # NoSession => row.revision # 0
    /\ ~row.published => row.revision <= MaxTurns
    /\ Exist(row.base.rules)
    /\ Exist(row.preview.kept) /\ Exist(row.preparing.kept)
    /\ New(row.preview) # {} => Checked(row.preview.code)
    /\ row.preview.code <= Len(codes) /\ row.preparing.code = 0

(* The two ways to say it agree.                                              *)
LEMMA SessionLikeIs == (SessionInv <=> SessionLike(session))
BY DEF SessionInv, SessionLike

(* What the fields of a conversation are.                                     *)
LEMMA SessionFields ==
    ASSUME NEW row \in SessionRow
    PROVE  /\ row.revision \in 0..MaxTurns + 1 /\ row.base \in Snapshot
           /\ row.base.rules \in SUBSET Artifact /\ row.from \in [active : Nat, past : Nat]
           /\ row.plan \in Plan /\ row.accepted \in BOOLEAN /\ row.published \in BOOLEAN
           /\ row.preview \in Preview \union {NoPreview}
           /\ row.preparing \in Preview \union {NoPreview}
           /\ row.preview.kept \in SUBSET Artifact /\ row.preparing.kept \in SUBSET Artifact
           /\ row.preview.code \in Nat /\ row.preparing.code \in Nat
           /\ row = [revision |-> row.revision, base |-> row.base, from |-> row.from,
                     plan |-> row.plan, accepted |-> row.accepted, preview |-> row.preview,
                     preparing |-> row.preparing, published |-> row.published]
<1>1. /\ row.preview \in Preview \union {NoPreview} /\ row.preparing \in Preview \union {NoPreview}
      /\ row.base \in Snapshot
  BY DEF SessionRow
<1>2. ASSUME NEW p \in Preview \union {NoPreview}
      PROVE  p.kept \in SUBSET Artifact /\ p.code \in Nat
  BY Bounds DEF Preview, NoPreview
<1>3. row.base.rules \in SUBSET Artifact
  BY <1>1 DEF Snapshot
<1> QED
  BY <1>1, <1>2, <1>3 DEF SessionRow

(* What is like a conversation stays so when the tables grow.                   *)
LEMMA SessionLikeStays ==
    ASSUME TablesInv, TablesInv', Grows, NEW row, SessionLike(row)
    PROVE  SessionLike(row)'
<1>1. row \in SessionRow
  BY DEF SessionLike
<1>2. /\ row.base.rules \in SUBSET Artifact /\ row.preparing.kept \in SUBSET Artifact
      /\ row.preview \in Preview \union {NoPreview} /\ row.preview.code \in Nat
  BY <1>1, SessionFields
<1>3. Exist(row.base.rules)' /\ Exist(row.preparing.kept)'
  BY <1>2, StayChecked DEF SessionLike
<1>4. Exist(row.preview.kept)' /\ (New(row.preview)' # {} => Checked(row.preview.code)')
  BY <1>2, PreviewStays DEF SessionLike
<1>5. Len(codes) \in Nat /\ Len(codes') \in Nat /\ Len(codes) <= Len(codes')
  BY TablesFields, LenProperties DEF TablesInv, Grows
<1>6. row.preview.code <= Len(codes')
  BY <1>2, <1>5 DEF SessionLike
<1> QED
  BY <1>3, <1>4, <1>6 DEF SessionLike

(* A conversation that a step leaves like one.                                  *)
LEMMA NewSession ==
    ASSUME TablesInv, TablesInv', Grows, NEW row, SessionLike(row), session' = row
    PROVE  SessionInv'
BY SessionLikeStays DEF SessionLike, SessionInv, Exist, New, Texts, Checked

(* No preview keeps or compiles anything.                                     *)
LEMMA NothingPreviewed ==
    /\ NoPreview \in Preview \union {NoPreview} /\ NoPreview.kept = {} /\ NoPreview.code = 0
    /\ Exist(NoPreview.kept) /\ New(NoPreview) = {}
BY DEF NoPreview, Exist, New

(* What a message asks for is a plan.                                           *)
LEMMA PlansFields ==
    ASSUME IInv, NEW plan \in Plans
    PROVE  plan \in Plan
<1>1. PICK old \in Plan : old = session.plan
  BY DEF IInv, SessionInv, SessionRow
<1>2. Open
  BY DEF Plans
<1>3. CASE \E config \in Configs : plan = [old EXCEPT !.config = config]
  BY <1>3 DEF Plan
<1>4. CASE plan = [old EXCEPT !.rules = @ \union {0}]
  <2>1. old.rules \union {0} \in SUBSET (0..MaxRules)
    BY Bounds DEF Plan
  <2> QED
    BY <1>4, <2>1 DEF Plan
<1>5. CASE \E t \in old.rules : plan = [old EXCEPT !.rules = @ \ {t}]
  BY <1>5 DEF Plan
<1>6. CASE \E n \in old.guidance : plan = [old EXCEPT !.guidance = @ \ {n}]
  BY <1>6 DEF Plan
<1> QED
  BY <1>1, <1>2, <1>3, <1>4, <1>5, <1>6 DEF Plans

\* A conversation keeps artifacts that exist and compiles its new texts to a checked code.
LEMMA SessionStep ==
    ASSUME IInv, [Next]_vars, TablesInv', Grows, VersionsInv'
    PROVE  SessionInv'
<1>1. TablesInv /\ SessionLike(session) /\ session \in SessionRow
  BY SessionLikeIs DEF IInv, SessionInv
<1>2. PICK old : old = session
  OBVIOUS
<1>3. SessionLike(old) /\ old \in SessionRow
  BY <1>1, <1>2
<1>4. ASSUME CanSave PROVE /\ old.revision \in 1..MaxTurns /\ old.revision + 1 \in 1..MaxTurns
                           /\ ~old.published /\ old # NoSession
  BY <1>2, <1>3, <1>4, SessionFields, Bounds, SMTT(30) DEF CanSave, Open, SessionLike
<1>5. CASE UNCHANGED session
  BY <1>1, <1>2, <1>3, <1>5, NewSession
<1>6. CASE Restart
  <2>1. CASE session = NoSession
    BY <1>1, <1>2, <1>3, <1>6, <2>1, NewSession DEF Restart
  <2>2. CASE session # NoSession
    <3>1. PICK row : row = [old EXCEPT !.preparing = NoPreview]
      OBVIOUS
    <3>2. /\ row \in SessionRow /\ row.revision = old.revision /\ row.published = old.published
          /\ row.base = old.base /\ row.preview = old.preview /\ row.preparing = NoPreview
      BY <1>3, <3>1 DEF SessionRow
    <3>3. SessionLike(row)
      BY <1>2, <1>3, <2>2, <3>2, NothingPreviewed DEF SessionLike
    <3>4. session' = row
      BY <1>2, <1>6, <2>2, <3>1 DEF Restart
    <3> QED
      BY <1>1, <3>3, <3>4, NewSession
  <2> QED
    BY <2>1, <2>2
<1>7. CASE StartSession
  <2>1. PICK plan : plan = [config |-> Active.config, rules |-> Texts(RulesOf(Active)),
                            guidance |-> Active.guidance]
    OBVIOUS
  <2>2. /\ Active \in Snapshot /\ AllChecked(Active.rules) /\ Active.config \in Configs
        /\ Active.guidance \in SUBSET Norms
    BY ActiveFields DEF IInv
  <2>3. Texts(RulesOf(Active)) \subseteq 0..MaxRules
    <3>1. \A r \in RulesOf(Active) : r \in DOMAIN rules
      BY <2>2 DEF RulesOf, AllChecked, Exist
    <3>2. \A r \in DOMAIN rules : rules[r].text \in 0..MaxRules
      BY TablesFields DEF RuleRow, IInv
    <3> QED
      BY <3>1, <3>2 DEF Texts
  <2>4. plan \in Plan
    BY <2>1, <2>2, <2>3 DEF Plan
  <2>5. PICK from : from = Fingerprint
    OBVIOUS
  <2>6. from \in [active : Nat, past : Nat]
    BY <2>5, ActiveFields, Bounds DEF Fingerprint, IInv, PastInv
  <2>7. PICK base \in Snapshot : base = Active
    BY <2>2
  <2>8. PICK row : row = [revision |-> 1, base |-> base, from |-> from, plan |-> plan,
                          accepted |-> FALSE, preview |-> NoPreview, preparing |-> NoPreview,
                          published |-> FALSE]
    OBVIOUS
  <2>9. row \in SessionRow
    BY <2>4, <2>6, <2>8, Bounds, NothingPreviewed DEF SessionRow
  <2>10. Len(codes) \in Nat
    BY TablesFields DEF IInv
  <2>11. SessionLike(row)
    <3>1. /\ row.revision = 1 /\ row.base = base /\ row.preview = NoPreview
          /\ row.preparing = NoPreview /\ ~row.published
      BY <2>8
    <3>2. Exist(base.rules)
      BY <2>2, <2>7 DEF AllChecked
    <3>3. 1 <= MaxTurns /\ NoPreview.code <= Len(codes)
      BY <2>10, Bounds, NothingPreviewed
    <3> QED
      BY <2>9, <3>1, <3>2, <3>3, NothingPreviewed DEF SessionLike
  <2>12. session' = row
    BY <1>7, <2>1, <2>5, <2>7, <2>8 DEF StartSession
  <2> QED
    BY <1>1, <2>11, <2>12, NewSession
<1>8. ASSUME CanSave, NEW plan \in Plan, NEW accepted \in BOOLEAN,
             session' = [session EXCEPT !.revision = @ + 1, !.plan = plan, !.accepted = accepted,
                                        !.preview = NoPreview]
      PROVE  SessionInv'
  <2>1. PICK row : row = [old EXCEPT !.revision = @ + 1, !.plan = plan, !.accepted = accepted,
                                     !.preview = NoPreview]
    OBVIOUS
  <2>2. old.revision + 1 \in 0..MaxTurns + 1
    BY <1>4, <1>8, Bounds
  <2>3. /\ row \in SessionRow /\ row.revision = old.revision + 1 /\ row.base = old.base
        /\ row.preview = NoPreview /\ row.preparing = old.preparing
    BY <1>3, <2>1, <2>2, NothingPreviewed DEF SessionRow
  <2>4. row.revision # 0 /\ row.revision <= MaxTurns
    BY <1>4, <1>8, <2>3
  <2>5. Len(codes) \in Nat
    BY TablesFields DEF IInv
  <2>6. SessionLike(row)
    BY <1>3, <2>3, <2>4, <2>5, NothingPreviewed DEF SessionLike
  <2> QED
    BY <1>1, <1>2, <1>8, <2>1, <2>6, NewSession
<1>9. CASE Review
  <2>1. session' = [session EXCEPT !.revision = @ + 1, !.plan = session.plan, !.accepted = TRUE,
                                   !.preview = NoPreview]
    <3>1. PICK row : row = session'
      OBVIOUS
    <3>2. row = [old EXCEPT !.revision = @ + 1, !.accepted = TRUE, !.preview = NoPreview]
      BY <1>2, <1>9, <3>1 DEF Review
    <3>3. row = [old EXCEPT !.revision = @ + 1, !.plan = old.plan, !.accepted = TRUE,
                            !.preview = NoPreview]
      BY <1>3, <3>2 DEF SessionRow
    <3> QED
      BY <1>2, <3>1, <3>3
  <2>2. CanSave
    BY <1>9 DEF Review
  <2>3. PICK plan \in Plan : plan = session.plan
    BY <1>1, SessionFields
  <2> QED
    BY <1>8, <2>1, <2>2, <2>3
<1>10. ASSUME NEW plan \in Plans, Revise(plan)
       PROVE  SessionInv'
  BY <1>8, <1>10, PlansFields DEF Revise
<1>11. CASE StartPrepare
  <2>1. PICK p : p = [revision |-> session.revision, plan |-> session.plan,
                      kept |-> Kept(session.plan), code |-> 0]
    OBVIOUS
  <2>2. CanSave
    BY <1>11 DEF StartPrepare
  <2>3. Kept(session.plan) \in SUBSET Artifact /\ Exist(Kept(session.plan))
    BY <1>1, SessionFields DEF Kept, SessionLike, Exist
  <2>4. p \in Preview /\ p.kept = Kept(session.plan) /\ p.code = 0
    BY <1>1, <1>2, <1>4, <2>1, <2>2, <2>3, SessionFields, Bounds DEF Preview
  <2>5. PICK row : row = [old EXCEPT !.preparing = p]
    OBVIOUS
  <2>6. /\ row \in SessionRow /\ row.revision = old.revision /\ row.base = old.base
        /\ row.preview = old.preview /\ row.preparing = p /\ row.published = old.published
    BY <1>3, <2>4, <2>5 DEF SessionRow
  <2>7. SessionLike(row)
    BY <1>3, <1>4, <2>2, <2>3, <2>4, <2>6 DEF SessionLike
  <2>8. session' = row
    BY <1>2, <1>11, <2>1, <2>5 DEF StartPrepare
  <2> QED
    BY <1>1, <2>7, <2>8, NewSession
<1>12. CASE EndPrepare
  <2>1. CanSave
    BY <1>12 DEF EndPrepare
  <2>2. old.revision + 1 \in 0..MaxTurns + 1
    BY <1>4, <2>1, Bounds
  <2>3. PICK p : p = old.preparing
    OBVIOUS
  <2>4. p \in Preview \union {NoPreview} /\ Exist(p.kept) /\ p.kept \in SUBSET Artifact
    BY <1>3, <2>3, SessionFields DEF SessionLike
  <2>5. ASSUME NEW q \in Preview \union {NoPreview}, q.kept = p.kept, q.plan = p.plan,
               (New(q) # {} => Checked(q.code))', q.code <= Len(codes'),
               session' = [session EXCEPT !.revision = @ + 1, !.preparing = NoPreview, !.preview = q]
        PROVE  SessionInv'
    <3>1. PICK row : row = [old EXCEPT !.revision = @ + 1, !.preparing = NoPreview, !.preview = q]
      OBVIOUS
    <3>2. /\ row \in SessionRow /\ row.revision = old.revision + 1 /\ row.base = old.base
          /\ row.preview = q /\ row.preparing = NoPreview /\ row.published = old.published
      BY <1>3, <2>2, <3>1, NothingPreviewed DEF SessionRow
    <3>3. row.revision # 0 /\ row.revision <= MaxTurns
      BY <1>4, <2>1, <3>2
    <3>4. PICK kept \in SUBSET Artifact : kept = p.kept
      BY <2>4
    <3>5. Exist(kept)'
      BY <1>1, <2>4, <3>4, StayChecked
    <3>6. PICK artifacts \in SUBSET Artifact : artifacts = old.base.rules
      BY <1>3, SessionFields
    <3>7. Exist(artifacts)'
      BY <1>1, <1>3, <3>6, StayChecked DEF SessionLike
    <3>8. Exist(row.base.rules)' /\ Exist(row.preview.kept)' /\ Exist(row.preparing.kept)'
      BY <2>5, <3>2, <3>4, <3>5, <3>6, <3>7, NothingPreviewed DEF Exist
    <3>9. (New(row.preview) # {} => Checked(row.preview.code))' /\ row.preview.code <= Len(codes')
      BY <2>5, <3>2
    <3>10. SessionLike(row)'
      BY <3>2, <3>3, <3>8, <3>9, NothingPreviewed DEF SessionLike
    <3>11. session' = row
      BY <1>2, <2>5, <3>1
    <3> QED
      BY <3>10, <3>11, SessionLikeIs DEF SessionLike, SessionInv
  <2>6. CASE /\ New(p) = {} /\ UNCHANGED codes
             /\ session' = [session EXCEPT !.revision = @ + 1, !.preparing = NoPreview,
                                           !.preview = p]
    <3>1. UNCHANGED rules
      BY <1>12 DEF EndPrepare
    <3>2. New(p)' = {}
      BY <2>6, <3>1 DEF New, Texts
    <3>3. p.code <= Len(codes')
      BY <1>3, <2>3, <2>6, TablesFields DEF SessionLike, IInv
    <3> QED
      BY <2>4, <2>5, <2>6, <3>2, <3>3
  <2>7. CASE /\ Len(codes) < MaxCodes /\ codes' = Append(codes, TRUE)
             /\ session' = [session EXCEPT !.revision = @ + 1, !.preparing = NoPreview,
                                           !.preview = [p EXCEPT !.code = Len(codes) + 1]]
    <3>1. PICK q : q = [p EXCEPT !.code = Len(codes) + 1]
      OBVIOUS
    <3>2. /\ Len(codes') = Len(codes) + 1 /\ codes'[Len(codes) + 1] = TRUE
          /\ Len(codes) + 1 \in 1..MaxCodes /\ Len(codes) \in Nat
      BY <2>7, CodeAppended, TablesFields, Bounds DEF IInv
    <3>3. p \in Preview
      BY <1>2, <1>12, <2>3, <2>4 DEF EndPrepare
    <3>4. q \in Preview /\ q.kept = p.kept /\ q.plan = p.plan /\ q.code = Len(codes) + 1
      BY <3>1, <3>2, <3>3, Bounds DEF Preview
    <3>5. Checked(q.code)' /\ q.code <= Len(codes')
      BY <3>2, <3>4 DEF Checked
    <3> QED
      BY <2>5, <2>7, <3>1, <3>4, <3>5
  <2>8. CASE session' = [session EXCEPT !.preparing = NoPreview]
    <3>1. PICK row : row = [old EXCEPT !.preparing = NoPreview]
      OBVIOUS
    <3>2. /\ row \in SessionRow /\ row.revision = old.revision /\ row.published = old.published
          /\ row.base = old.base /\ row.preview = old.preview /\ row.preparing = NoPreview
      BY <1>3, <3>1 DEF SessionRow
    <3>3. SessionLike(row)
      BY <1>3, <1>4, <2>1, <3>2, NothingPreviewed DEF SessionLike
    <3> QED
      BY <1>1, <1>2, <2>8, <3>1, <3>3, NewSession
  <2> QED
    BY <1>2, <1>12, <2>3, <2>6, <2>7, <2>8 DEF EndPrepare
<1>13. CASE PublishSession
  <2>1. PICK row : row = [old EXCEPT !.revision = @ + 1, !.published = TRUE]
    OBVIOUS
  <2>2. old.revision \in 1..MaxTurns
    BY <1>2, <1>3, <1>13, SessionFields, Bounds DEF PublishSession, Open, SessionLike
  <2>3. old.revision + 1 \in 0..MaxTurns + 1 /\ old.revision + 1 # 0
    BY <2>2, Bounds
  <2>4. /\ row \in SessionRow /\ row.revision = old.revision + 1 /\ row.published
        /\ row.base = old.base /\ row.preview = old.preview /\ row.preparing = old.preparing
    BY <1>3, <2>1, <2>3 DEF SessionRow
  <2>5. SessionLike(row)
    BY <1>3, <2>3, <2>4 DEF SessionLike
  <2>6. session' = row
    BY <1>2, <1>13, <2>1 DEF PublishSession
  <2> QED
    BY <1>1, <2>5, <2>6, NewSession
<1> QED
  BY <1>5, <1>6, <1>7, <1>9, <1>10, <1>11, <1>12, <1>13, SessionKinds

-----------------------------------------------------------------------------
\* The invariant

(* The first state satisfies the invariant.                                   *)
LEMMA InitInv == Init => IInv
<1> SUFFICES ASSUME Init PROVE IInv
  OBVIOUS
<1> DEFINE first == [status |-> "active", code |-> 1, text |-> 1]
           version == [config |-> Start, rules |-> {[rule |-> 1, code |-> 1]}, guidance |-> {}]
<1>1. /\ rules = <<first>> /\ codes = <<TRUE>> /\ versions = <<version>> /\ draft = NoDraft
      /\ compiling = [r \in 1..MaxRules |-> NoJob] /\ request = NoJob
      /\ norms = [n \in Norms |-> NoNorm] /\ session = NoSession /\ past = 0
  BY DEF Init
<1>2. first \in RuleRow /\ first.code = 1
  BY Bounds DEF RuleRow
<1> HIDE DEF first
<1>3. TablesInv
  <2>1. rules \in Seq(RuleRow) /\ Len(rules) = 1 /\ DOMAIN rules = 1..1 /\ rules[1] = first
    BY <1>1, <1>2
  <2>2. codes \in Seq(BOOLEAN) /\ Len(codes) = 1
    BY <1>1
  <2> QED
    BY <1>2, <2>1, <2>2, Bounds DEF TablesInv
<1>4. VersionsInv
  <2>1. [rule |-> 1, code |-> 1] \in Artifact
    BY Bounds DEF Artifact
  <2>2. version \in Snapshot /\ version.rules = {[rule |-> 1, code |-> 1]}
    BY <2>1, Bounds DEF Snapshot
  <2> HIDE DEF version
  <2>3. versions \in Seq(Snapshot) /\ Len(versions) = 1 /\ DOMAIN versions = 1..1 /\ versions[1] = version
    BY <1>1, <2>2
  <2>4. versions # <<>>
    <3>1. Len(<< >>) = 0
      OBVIOUS
    <3> QED
      BY <2>3, <3>1
  <2>5. 1 \in DOMAIN rules /\ Len(codes) = 1 /\ codes[1] = TRUE
    BY <1>1
  <2>6. AllChecked(version.rules)
    BY <2>2, <2>5 DEF AllChecked, Exist, Checked
  <2> QED
    BY <2>3, <2>4, <2>6, Bounds DEF VersionsInv
<1>5. DraftInv
  <2>1. Len(versions) = 1
    BY <1>1
  <2>2. NoDraft \in DraftRow /\ NoDraft.base = 0 /\ NoDraft.validated = -1 /\ NoDraft.snapshot.rules = {}
    BY Bounds DEF NoDraft, DraftRow, Snapshot
  <2> QED
    BY <1>1, <2>1, <2>2 DEF DraftInv, Exist
<1>6. JobsInv
  <2>1. NoJob \in Job
    BY Bounds DEF NoJob, Job
  <2> QED
    BY <1>1, <2>1 DEF JobsInv
<1>7. NormsInv
  <2>1. /\ NoNorm \in Norm /\ ~NoNorm.running /\ ~NoNorm.valid /\ NoNorm.code = 0 /\ NoNorm.text = 0
    BY Bounds DEF NoNorm, Norm
  <2>2. Len(codes) \in Nat /\ Len(rules) \in Nat
    BY <1>3, TablesFields
  <2> QED
    BY <1>1, <2>1, <2>2 DEF NormsInv
<1>8. SessionInv
  <2>1. /\ NoSession.revision = 0 /\ NoSession.base.rules = {} /\ ~NoSession.published
        /\ NoSession.preview = NoPreview /\ NoSession.preparing = NoPreview
    BY DEF NoSession
  <2>2. NoSession \in SessionRow
    BY Bounds, NothingPreviewed DEF NoSession, SessionRow, Snapshot, Plan
  <2>3. Len(codes) \in Nat
    BY <1>3, TablesFields
  <2> QED
    BY <1>1, <2>1, <2>2, <2>3, Bounds, NothingPreviewed DEF SessionInv, Exist
<1>9. PastInv
  BY <1>1, Bounds DEF PastInv
<1> QED
  BY <1>3, <1>4, <1>5, <1>6, <1>7, <1>8, <1>9 DEF IInv

(* The past only moves on, up to its bound.                                   *)
LEMMA PastStep ==
    ASSUME IInv, [Next]_vars
    PROVE  PastInv'
<1>1. CASE DraftNext
  BY <1>1 DEF DraftNext, EditConfig, EditRules, Validate, Discard, Publish, IInv, PastInv
<1>2. CASE RulesNext
  BY <1>2 DEF RulesNext, CreateRule, StartCompile, EndRequest, EndCompile, Activate, Retire, IInv, PastInv
<1>3. CASE NormsNext
  BY <1>3 DEF NormsNext, StartValidation, EndValidation, AdoptNorm, RejectNorm, IInv, PastInv
<1>4. CASE SessionNext
  BY <1>4 DEF SessionNext, StartSession, Review, StartPrepare, EndPrepare, PublishSession, Revise,
              IInv, PastInv
<1>5. CASE Restart \/ RestartWithoutDatabase \/ UNCHANGED vars
  BY <1>5 DEF Restart, RestartWithoutDatabase, vars, IInv, PastInv
<1>6. CASE PastMoves
  BY <1>6, Bounds DEF PastMoves, IInv, PastInv
<1> QED
  BY <1>1, <1>2, <1>3, <1>4, <1>5, <1>6 DEF Next

(* Every step keeps the invariant and lets the tables grow.                   *)
LEMMA StepInv == IInv /\ [Next]_vars => IInv' /\ Grows
<1> SUFFICES ASSUME IInv, [Next]_vars PROVE IInv' /\ Grows
  OBVIOUS
<1>1. TablesInv' /\ Grows /\ VersionsInv'
  BY TablesStep
<1>2. DraftInv'
  BY <1>1, DraftStep
<1>3. JobsInv' /\ NormsInv' /\ SessionInv' /\ PastInv'
  BY <1>1, <1>2, JobsStep, NormsStep, SessionStep, PastStep
<1> QED
  BY <1>1, <1>2, <1>3 DEF IInv

(* The invariant says what the runs check.                                    *)
LEMMA InvTypes ==
    ASSUME IInv
    PROVE  TypeOK /\ PublishedRulesAreChecked
<1>1. ASSUME NEW v \in DOMAIN versions, NEW a \in versions[v].rules
      PROVE  a.rule \in DOMAIN rules /\ a.code \in DOMAIN codes /\ a.code # 0 /\ codes[a.code]
  <2>1. AllChecked(versions[v].rules) /\ versions[v] \in Snapshot
    BY LenProperties, ElementOfSeq DEF IInv, VersionsInv
  <2>2. a.rule \in DOMAIN rules /\ a.code <= Len(codes) /\ Checked(a.code) /\ a.code \in Nat
    BY <2>1, Bounds DEF AllChecked, Exist, Snapshot, Artifact
  <2>3. DOMAIN codes = 1..Len(codes) /\ Len(codes) \in Nat
    BY TablesFields DEF IInv
  <2> QED
    BY <2>2, <2>3 DEF Checked
<1>2. PublishedRulesAreChecked
  BY <1>1 DEF PublishedRulesAreChecked
<1>3. draft = NoDraft \/ (draft \in Draft /\ draft.base <= Len(versions))
  <2>1. CASE draft # NoDraft
    <3>1. /\ draft \in DraftRow /\ draft.base <= Len(versions) /\ draft.revision # 0 /\ draft.base # 0
      BY <2>1 DEF IInv, DraftInv
    <3>2. draft.revision \in 1..MaxRevision /\ draft.base \in 1..MaxVersions
      BY <3>1, Bounds DEF DraftRow
    <3> QED
      BY <3>1, <3>2 DEF DraftRow, Draft
  <2> QED
    BY <2>1
<1>4. session.preview \in Preview \union {NoPreview}
  BY SessionFields DEF IInv, SessionInv
<1>5. TypeOK
  BY <1>1, <1>3, <1>4 DEF IInv, TablesInv, VersionsInv, JobsInv, NormsInv, PastInv, TypeOK
<1> QED
  BY <1>2, <1>5

(* The invariant holds whatever is written in whatever order.                 *)
THEOREM AuthoringInductive == Spec => []IInv
<1>1. Init => IInv
  BY InitInv
<1>2. IInv /\ [Next]_vars => IInv'
  BY StepInv
<1> QED
  BY <1>1, <1>2, PTL DEF Spec

(* The tables hold rows of their kind, whatever is written in whatever order.   *)
THEOREM AuthoringTypeCorrect == Spec => []TypeOK
<1>1. IInv => TypeOK
  BY InvTypes
<1> QED
  BY <1>1, AuthoringInductive, PTL

(* A draft, a norm and a conversation publish only code whose report is valid,  *)
(* with any number of compilations in flight.                                   *)
THEOREM AuthoringPublishesChecked == Spec => []PublishedRulesAreChecked
<1>1. IInv => PublishedRulesAreChecked
  BY InvTypes
<1> QED
  BY <1>1, AuthoringInductive, PTL

-----------------------------------------------------------------------------
\* A preview is of the plan

PreviewInv ==
    /\ session.preview # NoPreview => session.preview.plan = session.plan /\ session.accepted
    /\ session.preparing # NoPreview =>
          /\ session.preparing.revision <= session.revision
          /\ session.preparing.revision = session.revision =>
                session.preparing.plan = session.plan /\ session.accepted

(* Nothing is previewed at first.                                             *)
LEMMA PreviewInit == Init => PreviewInv
<1>1. NoSession.preview = NoPreview /\ NoSession.preparing = NoPreview
  BY DEF NoSession
<1> QED
  BY <1>1 DEF Init, PreviewInv

\* A preparation that ends saves a preview only over the revision it was made for.
LEMMA PreviewStep ==
    ASSUME IInv, PreviewInv, [Next]_vars
    PROVE  PreviewInv'
<1>1. PICK old \in SessionRow : old = session
  BY DEF IInv, SessionInv
<1>2. /\ old.revision \in Nat /\ old.preparing \in Preview \union {NoPreview}
      /\ old.preview \in Preview \union {NoPreview}
      /\ old.preparing # NoPreview => old.preparing.revision \in Nat
  BY SessionFields, Bounds DEF Preview
<1>3. CASE UNCHANGED session
  BY <1>3 DEF PreviewInv
<1>4. CASE Restart
  <2>1. session' = old \/ session' = [old EXCEPT !.preparing = NoPreview]
    BY <1>1, <1>4 DEF Restart
  <2> QED
    BY <1>1, <2>1 DEF PreviewInv, SessionRow
<1>5. CASE StartSession
  BY <1>5 DEF StartSession, PreviewInv
<1>6. ASSUME session'.revision = old.revision + 1, session'.preview = NoPreview,
             session'.preparing = old.preparing
      PROVE  PreviewInv'
  <2>1. old.preparing # NoPreview => old.preparing.revision <= old.revision
    BY <1>1 DEF PreviewInv
  <2> QED
    BY <1>2, <1>6, <2>1 DEF PreviewInv
<1>7. CASE Review
  <2>1. session' = [old EXCEPT !.revision = @ + 1, !.accepted = TRUE, !.preview = NoPreview]
    BY <1>1, <1>7 DEF Review
  <2> QED
    BY <1>6, <2>1 DEF SessionRow
<1>8. ASSUME NEW plan \in Plans, Revise(plan)
      PROVE  PreviewInv'
  <2>1. session' = [old EXCEPT !.revision = @ + 1, !.plan = plan, !.accepted = FALSE,
                               !.preview = NoPreview]
    BY <1>1, <1>8 DEF Revise
  <2> QED
    BY <1>6, <2>1 DEF SessionRow
<1>9. CASE StartPrepare
  <2>1. PICK p : p = [revision |-> session.revision, plan |-> session.plan,
                      kept |-> Kept(session.plan), code |-> 0]
    OBVIOUS
  <2>2. session' = [old EXCEPT !.preparing = p] /\ old.accepted /\ p.revision = old.revision
        /\ p.plan = old.plan
    BY <1>1, <1>9, <2>1 DEF StartPrepare
  <2>3. /\ session'.preparing = p /\ session'.revision = old.revision /\ session'.plan = old.plan
        /\ session'.accepted = old.accepted /\ session'.preview = old.preview
    BY <2>2 DEF SessionRow
  <2> QED
    BY <1>1, <1>2, <2>2, <2>3 DEF PreviewInv
<1>10. CASE EndPrepare
  <2>1. old.preparing # NoPreview
    BY <1>1, <1>10 DEF EndPrepare
  <2>2. ASSUME NEW q, q.plan = old.preparing.plan, SavesOn,
               session' = [old EXCEPT !.revision = @ + 1, !.preparing = NoPreview, !.preview = q]
        PROVE  PreviewInv'
    <3>1. /\ session'.preparing = NoPreview /\ session'.preview = q /\ session'.plan = old.plan
          /\ session'.accepted = old.accepted
      BY <2>2 DEF SessionRow
    <3>2. old.preparing.plan = old.plan /\ old.accepted
      BY <1>1, <2>1, <2>2 DEF PreviewInv, SavesOn
    <3> QED
      BY <2>2, <3>1, <3>2 DEF PreviewInv
  <2>3. PICK p \in Preview : p = old.preparing
    BY <1>2, <2>1
  <2>4. CASE session' = [session EXCEPT !.preparing = NoPreview]
    <3>1. /\ session'.preparing = NoPreview /\ session'.preview = old.preview
          /\ session'.plan = old.plan /\ session'.accepted = old.accepted
      BY <1>1, <2>4 DEF SessionRow
    <3> QED
      BY <1>1, <3>1 DEF PreviewInv
  <2>5. CASE SavesOn /\ session' = [session EXCEPT !.revision = @ + 1, !.preparing = NoPreview,
                                                   !.preview = session.preparing]
    BY <1>1, <2>2, <2>5
  <2>6. CASE SavesOn /\ session' = [session EXCEPT !.revision = @ + 1, !.preparing = NoPreview,
                                  !.preview = [session.preparing EXCEPT !.code = Len(codes) + 1]]
    <3>1. PICK q : q = [p EXCEPT !.code = Len(codes) + 1]
      OBVIOUS
    <3>2. q.plan = p.plan
      BY <3>1 DEF Preview
    <3>3. session' = [old EXCEPT !.revision = @ + 1, !.preparing = NoPreview, !.preview = q]
      BY <1>1, <2>3, <2>6, <3>1
    <3> QED
      BY <2>2, <2>3, <2>6, <3>2, <3>3
  <2> QED
    BY <1>10, <2>4, <2>5, <2>6 DEF EndPrepare
<1>11. CASE PublishSession
  <2>1. session' = [old EXCEPT !.revision = @ + 1, !.published = TRUE]
    BY <1>1, <1>11 DEF PublishSession
  <2>2. /\ session'.preparing = old.preparing /\ session'.preview = old.preview
        /\ session'.plan = old.plan /\ session'.accepted = old.accepted
        /\ session'.revision = old.revision + 1
    BY <2>1 DEF SessionRow
  <2>3. old.preparing # NoPreview => old.preparing.revision <= old.revision
    BY <1>1 DEF PreviewInv
  <2> QED
    BY <1>1, <1>2, <2>2, <2>3 DEF PreviewInv
<1> QED
  BY <1>3, <1>4, <1>5, <1>7, <1>8, <1>9, <1>10, <1>11, SessionKinds

(* What a manager previews is what was said and reviewed last, however long the *)
(* models took and whatever was saved meanwhile.                                *)
THEOREM AuthoringPreview == Spec => []PreviewIsOfThePlan
<1>1. Init => PreviewInv
  BY PreviewInit
<1>2. IInv /\ PreviewInv /\ [Next]_vars => PreviewInv'
  BY PreviewStep
<1>3. PreviewInv => PreviewIsOfThePlan
  BY DEF PreviewInv, PreviewIsOfThePlan
<1> QED
  BY <1>1, <1>2, <1>3, AuthoringInductive, PTL DEF Spec

-----------------------------------------------------------------------------
\* An adopted norm stays

Adopted(n) == norms[n].status = "accepted"

\* A norm in a snapshot and in a plan, or taken out by somebody.
KeptIn(n, snapshot) ==
    IF n \in Deterministic
    THEN norms[n].text \in Texts(RulesOf(snapshot)) \union removed
    ELSE n \in snapshot.guidance \union removed
KeptInPlan(n, plan) ==
    IF n \in Deterministic
    THEN norms[n].text \in plan.rules \union removed
    ELSE n \in plan.guidance \union removed

\* What may still be published on the active version keeps the norm.
KeptEverywhere(n) ==
    /\ n \in Deterministic => norms[n].text # 0
    /\ KeptIn(n, Active)
    /\ draft # NoDraft /\ draft.base = Len(versions) => KeptIn(n, draft.snapshot)
    /\ session # NoSession /\ session.from.active = Len(versions) => KeptInPlan(n, session.plan)

KeptInv ==
    /\ \A n \in Norms : Adopted(n) => KeptEverywhere(n)
    /\ session.from.active <= Len(versions)

(* The actions that publish.                                                  *)
LEMMA VersionKinds ==
    ASSUME [Next]_vars
    PROVE  \/ UNCHANGED versions
           \/ Publish \/ PublishSession \/ \E n \in Norms : AdoptNorm(n)
BY TableKinds DEF CreateRule, EndRequest, EndPrepare, EndCompile, EndValidation

(* What was taken out is remembered.                                          *)
LEMMA RemovedGrows ==
    ASSUME [Next]_vars
    PROVE  removed \subseteq removed'
<1>1. CASE DraftNext
  BY <1>1 DEF DraftNext, EditConfig, EditRules, Validate, Discard, Publish
<1>2. CASE RulesNext
  BY <1>2 DEF RulesNext, CreateRule, StartCompile, EndRequest, EndCompile, Activate, Retire
<1>3. CASE NormsNext
  BY <1>3 DEF NormsNext, StartValidation, EndValidation, AdoptNorm, RejectNorm
<1>4. CASE SessionNext
  BY <1>4 DEF SessionNext, StartSession, Review, StartPrepare, EndPrepare, PublishSession, Revise
<1>5. CASE Restart \/ RestartWithoutDatabase \/ PastMoves \/ UNCHANGED vars
  BY <1>5 DEF Restart, RestartWithoutDatabase, PastMoves, vars
<1> QED
  BY <1>1, <1>2, <1>3, <1>4, <1>5 DEF Next

(* A norm that is adopted after a step was so before, or the step adopts it.    *)
LEMMA AdoptedBefore ==
    ASSUME IInv, [Next]_vars, NEW n \in Norms, Adopted(n)'
    PROVE  AdoptNorm(n) \/ (Adopted(n) /\ norms'[n].text = norms[n].text)
<1>1. PICK old \in Norm : old = norms[n]
  BY DEF IInv, NormsInv
<1>2. norms \in [Norms -> Norm]
  BY DEF IInv, NormsInv
<1>3. CASE UNCHANGED norms
  BY <1>3 DEF Adopted
<1>4. CASE Restart
  <2>1. norms'[n] = [old EXCEPT !.running = FALSE]
    BY <1>1, <1>4 DEF Restart
  <2> QED
    BY <1>1, <2>1 DEF Adopted, Norm
<1>5. ASSUME NEW m \in Norms, m # n,
             StartValidation(m) \/ EndValidation(m) \/ AdoptNorm(m) \/ RejectNorm(m)
      PROVE  norms'[n] = norms[n]
  <2>1. CASE StartValidation(m)
    BY <1>2, <1>5, <2>1 DEF StartValidation
  <2>2. CASE EndValidation(m)
    BY <1>2, <1>5, <2>2 DEF EndValidation
  <2>3. CASE AdoptNorm(m)
    <3>1. PICK new : norms' = [norms EXCEPT ![m] = new]
      BY <2>3, NormHanded
    <3> QED
      BY <1>2, <1>5, <3>1
  <2>4. CASE RejectNorm(m)
    BY <1>2, <1>5, <2>4 DEF RejectNorm
  <2> QED
    BY <1>5, <2>1, <2>2, <2>3, <2>4
<1>6. CASE StartValidation(n)
  <2>1. norms'[n] = [NoNorm EXCEPT !.running = TRUE, !.active = Len(versions), !.past = past]
    BY <1>2, <1>6 DEF StartValidation
  <2>2. norms'[n].status = "open"
    BY <2>1 DEF NoNorm
  <2> QED
    BY <2>2 DEF Adopted
<1>7. CASE EndValidation(n)
  <2>1. old.running /\ old.status = "open"
    BY <1>1, <1>7 DEF EndValidation, IInv, NormsInv
  <2>2. \/ norms' = [norms EXCEPT ![n].running = FALSE, ![n].valid = TRUE]
        \/ norms' = [norms EXCEPT ![n].running = FALSE, ![n].valid = TRUE, ![n].code = Len(codes) + 1]
        \/ norms' = [norms EXCEPT ![n].running = FALSE]
    BY <1>7 DEF EndValidation
  <2>3. \/ norms'[n] = [old EXCEPT !.running = FALSE, !.valid = TRUE]
        \/ norms'[n] = [old EXCEPT !.running = FALSE, !.valid = TRUE, !.code = Len(codes) + 1]
        \/ norms'[n] = [old EXCEPT !.running = FALSE]
    BY <1>1, <1>2, <2>2
  <2>4. norms'[n].status = "open"
    BY <2>1, <2>3 DEF Norm
  <2> QED
    BY <2>4 DEF Adopted
<1>8. CASE RejectNorm(n)
  <2>1. norms'[n] = [old EXCEPT !.status = "rejected"]
    BY <1>1, <1>2, <1>8 DEF RejectNorm
  <2>2. norms'[n].status = "rejected"
    BY <2>1 DEF Norm
  <2> QED
    BY <2>2 DEF Adopted
<1>9. CASE norms'[n] = norms[n]
  BY <1>9 DEF Adopted
<1> QED
  BY <1>3, <1>4, <1>5, <1>6, <1>7, <1>8, <1>9, NormKinds

(* Growing tables take nothing out of a snapshot.                               *)
LEMMA KeptStays ==
    ASSUME IInv, [Next]_vars, NEW n \in Norms, norms'[n].text = norms[n].text,
           NEW s \in Snapshot, Exist(s.rules), KeptIn(n, s), NEW new \in Snapshot,
           RulesOf(s) \subseteq RulesOf(new), s.guidance \subseteq new.guidance
    PROVE  KeptIn(n, new)'
<1>1. removed \subseteq removed' /\ TablesInv /\ Grows
  BY RemovedGrows, StepInv DEF IInv
<1>2. PICK ids \in SUBSET DOMAIN rules : ids = RulesOf(s)
  BY DEF RulesOf, Exist
<1>3. Texts(ids)' = Texts(ids)
  BY <1>1, TextsStay
<1>4. PICK more : more = RulesOf(new)
  OBVIOUS
<1>5. Texts(ids)' \subseteq Texts(more)'
  BY <1>2, <1>4 DEF Texts
<1>6. Texts(RulesOf(s)) \subseteq Texts(more)'
  BY <1>2, <1>3, <1>5
<1>7. CASE n \in Deterministic
  <2>1. norms[n].text \in Texts(RulesOf(s)) \union removed
    BY <1>7 DEF KeptIn
  <2>2. norms'[n].text \in Texts(more)' \union removed'
    BY <1>1, <1>6, <2>1
  <2> QED
    BY <1>4, <1>7, <2>2 DEF KeptIn, RulesOf
<1>8. CASE n \notin Deterministic
  BY <1>1, <1>8 DEF KeptIn
<1> QED
  BY <1>7, <1>8

(* A version published on any of the three paths has every norm adopted before. *)
LEMMA ActiveKept ==
    ASSUME IInv, PreviewInv, KeptInv, [Next]_vars, NEW n \in Norms, Adopted(n)'
    PROVE  KeptIn(n, Active)' /\ (n \in Deterministic => norms'[n].text # 0)
<1>1. IInv' /\ Grows
  BY StepInv
<1>2. PICK s : s = Active
  OBVIOUS
<1>3. s \in Snapshot /\ Exist(s.rules)
  BY <1>2, ActiveFields DEF IInv, AllChecked
<1>4. AdoptNorm(n) \/ (Adopted(n) /\ norms'[n].text = norms[n].text)
  BY AdoptedBefore
<1>5. Adopted(n) => KeptIn(n, s) /\ (n \in Deterministic => norms[n].text # 0)
  BY <1>2 DEF KeptInv, KeptEverywhere
<1>6. ASSUME NEW new, new = versions'[Len(versions')], KeptIn(n, new)'
      PROVE  KeptIn(n, Active)'
  BY <1>6 DEF Active, KeptIn, RulesOf
<1>7. CASE UNCHANGED versions
  <2>1. Adopted(n) /\ norms'[n].text = norms[n].text
    <3>1. ~AdoptNorm(n)
      <4>1. ASSUME AdoptNorm(n) PROVE FALSE
        <5>1. Len(versions') = Len(versions) + 1 /\ Len(versions) \in Nat
          BY <4>1, NormHanded, HandedPublished, ActiveFields DEF IInv
        <5> QED
          BY <1>7, <5>1
      <4> QED
        BY <4>1
    <3> QED
      BY <1>4, <3>1
  <2>2. KeptIn(n, s)'
    BY <1>3, <1>5, <2>1, KeptStays
  <2>3. s = versions'[Len(versions')]
    BY <1>2, <1>7 DEF Active
  <2> QED
    BY <1>5, <1>6, <2>1, <2>2, <2>3
<1>8. CASE Publish
  <2>1. PICK new : new = draft.snapshot
    OBVIOUS
  <2>2. new \in Snapshot /\ Exist(new.rules) /\ versions'[Len(versions')] = new
    BY <1>8, <2>1, DraftHanded, HandedPublished, DraftFields DEF IInv, DraftInv
  <2>3. Adopted(n) /\ norms'[n].text = norms[n].text
    <3>1. UNCHANGED norms
      BY <1>8 DEF Publish
    <3> QED
      BY <3>1 DEF Adopted
  <2>4. KeptIn(n, new)
    BY <1>8, <2>1, <2>3 DEF Publish, KeptInv, KeptEverywhere
  <2>5. KeptIn(n, new)'
    BY <2>2, <2>3, <2>4, KeptStays
  <2> QED
    BY <1>5, <1>6, <2>2, <2>3, <2>5
<1>9. ASSUME NEW m \in Norms, AdoptNorm(m)
      PROVE  KeptIn(n, Active)' /\ (n \in Deterministic => norms'[n].text # 0)
  <2>1. PICK table, new :
               /\ Handed(table, new) /\ PublishSnapshot(table, new) /\ UNCHANGED codes
               /\ s.rules \subseteq new.rules /\ s.guidance \subseteq new.guidance
               /\ m \notin Deterministic => m \in new.guidance
               /\ m \in Deterministic =>
                     /\ norms'[m].text = Len(rules) + 1 /\ Len(rules) + 1 \in RulesOf(new)
                     /\ Len(rules) + 1 \in DOMAIN table /\ table[Len(rules) + 1].text = Len(rules) + 1
    BY <1>2, <1>9, NormHanded, Zenon
  <2>2. versions'[Len(versions')] = new /\ DOMAIN rules' = DOMAIN table
    BY <2>1, HandedPublished
  <2>3. CASE m # n
    <3>1. Adopted(n) /\ norms'[n].text = norms[n].text
      <4>1. \E norm : norms' = [norms EXCEPT ![m] = norm]
        BY <1>9, NormHanded
      <4>2. norms'[n] = norms[n]
        BY <2>3, <4>1 DEF IInv, NormsInv
      <4> QED
        BY <4>2 DEF Adopted
    <3>2. RulesOf(s) \subseteq RulesOf(new) /\ new \in Snapshot
      BY <2>1 DEF RulesOf, Handed
    <3>3. KeptIn(n, new)'
      BY <1>3, <1>5, <2>1, <3>1, <3>2, KeptStays
    <3> QED
      BY <1>5, <1>6, <2>2, <3>1, <3>3
  <2>4. CASE m = n /\ n \in Deterministic
    <3>1. PICK id : id = Len(rules) + 1
      OBVIOUS
    <3>2. id \in RulesOf(new) /\ id \in DOMAIN table /\ table[id].text = id /\ norms'[n].text = id
      BY <2>1, <2>4, <3>1
    <3>3. rules'[id].text = id
      <4>1. rules' = RowsAfter(table, new) /\ table \in Seq(RuleRow) /\ new \in Snapshot
            /\ (\A r \in DOMAIN table : table[r].code <= Len(codes))
            /\ (\A a \in new.rules : a.code <= Len(codes)) /\ Len(codes) \in Nat
        BY <2>1, TablesFields DEF Handed, PublishSnapshot, IInv
      <4> QED
        BY <3>2, <4>1, RowsAfterFields
    <3>4. id # 0
      BY <3>1, TablesFields DEF IInv
    <3>5. norms'[n].text \in Texts(RulesOf(new))'
      BY <3>2, <3>3 DEF Texts, RulesOf
    <3>6. KeptIn(n, new)'
      BY <2>4, <3>5 DEF KeptIn
    <3> QED
      BY <1>6, <2>2, <3>2, <3>4, <3>6
  <2>5. CASE m = n /\ n \notin Deterministic
    <3>1. KeptIn(n, new)'
      BY <2>1, <2>5 DEF KeptIn
    <3> QED
      BY <1>6, <2>2, <2>5, <3>1
  <2> QED
    BY <2>3, <2>4, <2>5
<1>10. CASE PublishSession
  <2>1. PICK table, new :
               /\ Handed(table, new) /\ PublishSnapshot(table, new) /\ UNCHANGED codes
               /\ new.guidance = session.plan.guidance
               /\ \A t \in session.preview.plan.rules \ {0} :
                     \E id \in RulesOf(new) : id \in DOMAIN table /\ table[id].text = t
    BY <1>10, SessionHanded, Zenon
  <2>2. versions'[Len(versions')] = new
    BY <2>1, HandedPublished
  <2>3. Adopted(n) /\ norms'[n].text = norms[n].text
    <3>1. UNCHANGED norms
      BY <1>10 DEF PublishSession
    <3> QED
      BY <3>1 DEF Adopted
  <2>4. session.preview.plan = session.plan /\ KeptInPlan(n, session.plan)
    <3>1. session.preview # NoPreview /\ session # NoSession /\ session.from = Fingerprint
      BY <1>10 DEF PublishSession, Open, OnBase
    <3>2. session.from.active = Len(versions)
      BY <3>1 DEF Fingerprint
    <3> QED
      BY <2>3, <3>1, <3>2 DEF PreviewInv, KeptInv, KeptEverywhere
  <2>5. removed' = removed
    BY <1>10 DEF PublishSession
  <2>6. CASE n \in Deterministic
    <3>1. PICK t : t = norms[n].text
      OBVIOUS
    <3>2. t # 0 /\ t \in session.plan.rules \union removed
      BY <1>5, <2>3, <2>4, <2>6, <3>1 DEF KeptInPlan
    <3>3. CASE t \in removed
      BY <1>5, <1>6, <2>2, <2>3, <2>5, <2>6, <3>1, <3>3 DEF KeptIn
    <3>4. CASE t \notin removed
      <4>1. PICK id \in RulesOf(new) : id \in DOMAIN table /\ table[id].text = t
        BY <2>1, <2>4, <3>2, <3>4
      <4>2. rules'[id].text = t
        <5>1. rules' = RowsAfter(table, new) /\ table \in Seq(RuleRow) /\ new \in Snapshot
              /\ (\A r \in DOMAIN table : table[r].code <= Len(codes))
              /\ (\A a \in new.rules : a.code <= Len(codes)) /\ Len(codes) \in Nat
          BY <2>1, TablesFields DEF Handed, PublishSnapshot, IInv
        <5> QED
          BY <4>1, <5>1, RowsAfterFields
      <4>3. norms'[n].text \in Texts(RulesOf(new))'
        BY <2>3, <3>1, <4>1, <4>2 DEF Texts, RulesOf
      <4>4. KeptIn(n, new)'
        BY <2>6, <4>3 DEF KeptIn
      <4> QED
        BY <1>5, <1>6, <2>2, <2>3, <4>4
    <3> QED
      BY <3>3, <3>4
  <2>7. CASE n \notin Deterministic
    <3>1. n \in new.guidance \union removed'
      BY <2>1, <2>4, <2>5, <2>7 DEF KeptInPlan
    <3>2. KeptIn(n, new)'
      BY <2>7, <3>1 DEF KeptIn
    <3> QED
      BY <1>6, <2>2, <2>7, <3>2
  <2> QED
    BY <2>6, <2>7
<1> QED
  BY <1>7, <1>8, <1>9, <1>10, VersionKinds

(* What a draft on the active version starts from has the norm.                 *)
LEMMA BasesKept ==
    ASSUME IInv, KeptInv, NEW n \in Norms, Adopted(n)
    PROVE  /\ KeptIn(n, EditBase)
           /\ draft = NoDraft \/ draft.base = Len(versions) => KeptIn(n, Candidate)
BY DEF KeptInv, KeptEverywhere, EditBase, Candidate

(* A step adds one version or none, and one when it adopts a norm.               *)
LEMMA VersionsAdded ==
    ASSUME IInv, [Next]_vars
    PROVE  /\ UNCHANGED versions \/ Len(versions') = Len(versions) + 1
           /\ UNCHANGED versions => \A n \in Norms : ~AdoptNorm(n)
           /\ Len(versions) \in Nat
<1>1. ASSUME NEW n \in Norms, AdoptNorm(n) PROVE Len(versions') = Len(versions) + 1
  BY <1>1, NormHanded, HandedPublished
<1>2. CASE Publish
  BY <1>2, DraftHanded, HandedPublished
<1>3. CASE PublishSession
  BY <1>3, SessionHanded, HandedPublished
<1>4. Len(versions) \in Nat
  BY ActiveFields DEF IInv
<1> QED
  BY <1>1, <1>2, <1>3, <1>4, VersionKinds

(* What a person takes out of a snapshot is recorded.                           *)
LEMMA KeptOrRemoved ==
    ASSUME NEW n \in Norms, UNCHANGED <<rules, norms>>, NEW s, KeptIn(n, s), NEW new,
           new.guidance = s.guidance,
           removed \union Texts(RulesOf(s) \ RulesOf(new)) \subseteq removed'
    PROVE  KeptIn(n, new)'
<1>1. CASE n \in Deterministic
  <2>1. PICK t : t = norms[n].text
    OBVIOUS
  <2>2. t \in Texts(RulesOf(s)) \/ t \in removed
    BY <1>1, <2>1 DEF KeptIn
  <2>3. Texts(RulesOf(s)) \subseteq Texts(RulesOf(new)) \union Texts(RulesOf(s) \ RulesOf(new))
    BY DEF Texts
  <2>4. t \in Texts(RulesOf(new)) \union removed'
    BY <2>2, <2>3
  <2>5. Texts(RulesOf(new))' = Texts(RulesOf(new))
    BY DEF Texts, RulesOf
  <2> QED
    BY <1>1, <2>1, <2>4, <2>5 DEF KeptIn
<1>2. CASE n \notin Deterministic
  BY <1>2 DEF KeptIn
<1> QED
  BY <1>1, <1>2

(* A compilation that lands changes the code of a rule in the draft only.       *)
LEMMA LandKeeps ==
    ASSUME IInv, CanStage, NEW r \in DOMAIN rules, NEW valid \in BOOLEAN, Len(codes) < MaxCodes,
           Land(r, valid), UNCHANGED versions
    PROVE  draft' = draft \/
              /\ draft # NoDraft /\ draft'.base = draft.base
              /\ RulesOf(draft.snapshot) \subseteq RulesOf(draft'.snapshot)
              /\ draft'.snapshot.guidance = draft.snapshot.guidance
              /\ draft'.snapshot \in Snapshot
<1>1. CASE draft' = draft
  BY <1>1
<1>2. CASE draft' # draft
  <2> DEFINE code == Len(codes) + 1
             replace(a) == IF a.rule = r THEN [rule |-> r, code |-> code] ELSE a
  <2>1. PICK S : S = {replace(a) : a \in draft.snapshot.rules}
    OBVIOUS
  <2>2. PICK s : s = [draft.snapshot EXCEPT !.rules = S]
    OBVIOUS
  <2>3. draft' = Staged(s) /\ draft # NoDraft
    BY <1>2, <2>1, <2>2 DEF Land
  <2>4. code \in 0..MaxCodes /\ r \in 1..MaxRules
    BY TablesFields, Bounds DEF IInv, TablesInv
  <2>5. draft.snapshot \in Snapshot /\ draft.snapshot.rules \in SUBSET Artifact
    BY DraftFields DEF IInv
  <2>6. S \in SUBSET Artifact
    BY <2>1, <2>4, <2>5 DEF Artifact
  <2>7. s \in Snapshot /\ s.rules = S /\ s.guidance = draft.snapshot.guidance
    BY <2>2, <2>5, <2>6 DEF Snapshot
  <2>8. \A a \in draft.snapshot.rules : replace(a).rule = a.rule /\ replace(a) \in S
    BY <2>1
  <2>9. RulesOf(draft.snapshot) \subseteq RulesOf(s)
    BY <2>7, <2>8 DEF RulesOf
  <2>10. Staged(s).snapshot = s /\ Staged(s).base = draft.base
    BY <2>3, <2>7, StagedFields DEF IInv
  <2> QED
    BY <2>3, <2>7, <2>9, <2>10
<1> QED
  BY <1>1, <1>2

(* A draft on the active version has every norm adopted before.                 *)
LEMMA DraftKept ==
    ASSUME IInv, KeptInv, [Next]_vars, NEW n \in Norms, Adopted(n)',
           draft' # NoDraft, draft'.base = Len(versions')
    PROVE  KeptIn(n, draft.snapshot)'
<1>1. AdoptNorm(n) \/ (Adopted(n) /\ norms'[n].text = norms[n].text)
  BY AdoptedBefore
<1>2. /\ Candidate \in Snapshot /\ Exist(Candidate.rules)
      /\ EditBase \in Snapshot /\ Exist(EditBase.rules)
  BY CandidateFields DEF IInv
<1>3. ASSUME NEW new, draft'.snapshot = new, KeptIn(n, new)'
      PROVE  KeptIn(n, draft.snapshot)'
  BY <1>3 DEF KeptIn, RulesOf
<1>4. ASSUME UNCHANGED norms
      PROVE  Adopted(n) /\ norms'[n].text = norms[n].text
  BY <1>4 DEF Adopted
<1>5. CASE UNCHANGED draft
  <2>1. UNCHANGED versions
    <3>1. draft.base <= Len(versions)
      BY DEF IInv, DraftInv
    <3> QED
      BY <1>5, <3>1, VersionsAdded
  <2>2. Adopted(n) /\ norms'[n].text = norms[n].text
    BY <1>1, <2>1, VersionsAdded
  <2>3. PICK s : s = draft.snapshot
    OBVIOUS
  <2>4. s \in Snapshot /\ Exist(s.rules) /\ KeptIn(n, s)
    BY <1>5, <2>1, <2>2, <2>3, DraftFields DEF IInv, DraftInv, KeptInv, KeptEverywhere
  <2>5. KeptIn(n, s)'
    BY <2>2, <2>4, KeptStays
  <2> QED
    BY <1>3, <1>5, <2>3, <2>5
<1>7. ASSUME NEW new \in Snapshot, CanStage, draft' = Staged(new), UNCHANGED versions
      PROVE  draft'.snapshot = new /\ (draft = NoDraft \/ draft.base = Len(versions))
  BY <1>7, StagedFields DEF IInv
<1>8. ASSUME NEW new \in Snapshot, CanStage, draft' = [Staged(new) EXCEPT !.base = Len(versions)]
      PROVE  draft'.snapshot = new
  BY <1>8, RebasedFields DEF IInv
<1>9. ASSUME NEW config \in Configs, EditConfig(config)
      PROVE  KeptIn(n, draft.snapshot)'
  <2>1. PICK s : s = EditBase
    OBVIOUS
  <2>2. PICK new : new = [s EXCEPT !.config = config]
    OBVIOUS
  <2>3. new \in Snapshot /\ new.rules = s.rules /\ new.guidance = s.guidance
    BY <1>2, <2>1, <2>2 DEF Snapshot
  <2>4. RulesOf(s) \ RulesOf(new) = {}
    BY <2>3 DEF RulesOf
  <2>5. /\ CanStage /\ draft' = [Staged(new) EXCEPT !.base = Len(versions)]
        /\ UNCHANGED <<rules, versions, norms, removed>>
    BY <1>9, <2>1, <2>2 DEF EditConfig, ruleVars
  <2>6. draft'.snapshot = new
    BY <1>8, <2>3, <2>5
  <2>7. removed \union Texts(RulesOf(s) \ RulesOf(new)) \subseteq removed'
    BY <2>4, <2>5 DEF Texts
  <2>8. KeptIn(n, s)
    BY <1>4, <2>1, <2>5, BasesKept
  <2>9. KeptIn(n, new)'
    BY <2>3, <2>5, <2>7, <2>8, KeptOrRemoved
  <2> QED
    BY <1>3, <2>6, <2>9
<1>10. ASSUME NEW ids \in SUBSET DOMAIN rules, EditRules(ids)
       PROVE  KeptIn(n, draft.snapshot)'
  <2>1. PICK s : s = EditBase
    OBVIOUS
  <2>2. PICK S : S = {ArtifactOf(r) : r \in ids}
    OBVIOUS
  <2>3. PICK new : new = [s EXCEPT !.rules = S]
    OBVIOUS
  <2>4. S \in SUBSET Artifact /\ \A r \in ids : ArtifactOf(r) \in S /\ ArtifactOf(r).rule = r
    BY <2>2, ArtifactsOfRows DEF IInv
  <2>5. new \in Snapshot /\ new.rules = S /\ new.guidance = s.guidance
    BY <1>2, <2>1, <2>3, <2>4 DEF Snapshot
  <2>6. ids \subseteq RulesOf(new)
    BY <2>4, <2>5 DEF RulesOf
  <2>7. /\ CanStage /\ draft' = [Staged(new) EXCEPT !.base = Len(versions)]
        /\ UNCHANGED <<rules, versions, norms>> /\ removed' = removed \union Texts(RulesOf(s) \ ids)
    BY <1>10, <2>1, <2>2, <2>3 DEF EditRules, ruleVars
  <2>8. draft'.snapshot = new
    BY <1>8, <2>5, <2>7
  <2>9. removed \union Texts(RulesOf(s) \ RulesOf(new)) \subseteq removed'
    BY <2>6, <2>7 DEF Texts
  <2>10. KeptIn(n, s)
    BY <1>4, <2>1, <2>7, BasesKept
  <2>11. KeptIn(n, new)'
    BY <2>5, <2>7, <2>9, <2>10, KeptOrRemoved
  <2> QED
    BY <1>3, <2>8, <2>11
<1>11. CASE Validate
  <2>1. PICK s : s = draft.snapshot
    OBVIOUS
  <2>2. /\ draft' = [draft EXCEPT !.validated = past] /\ draft # NoDraft
        /\ UNCHANGED <<rules, versions, norms, removed>>
    BY <1>11 DEF Validate, ruleVars
  <2>3. draft'.snapshot = s /\ draft'.base = draft.base
    BY <2>1, <2>2 DEF IInv, DraftInv, DraftRow
  <2>4. KeptIn(n, s)
    BY <1>4, <2>1, <2>2, <2>3 DEF KeptInv, KeptEverywhere
  <2>5. KeptIn(n, s)'
    BY <2>2, <2>4 DEF KeptIn, Texts, RulesOf
  <2> QED
    BY <1>3, <2>3, <2>5
<1>12. CASE Discard \/ Publish
  BY <1>12 DEF Discard, Publish
<1>13. CASE CreateRule
  <2>1. PICK s : s = Candidate
    OBVIOUS
  <2>2. PICK a : a = [rule |-> Len(rules) + 1, code |-> 0]
    OBVIOUS
  <2>3. PICK new : new = [s EXCEPT !.rules = @ \union {a}]
    OBVIOUS
  <2>4. a \in Artifact
    BY <1>13, <2>2, CreateGrows, Bounds DEF Artifact
  <2>5. new \in Snapshot /\ new.rules = s.rules \union {a} /\ new.guidance = s.guidance
    BY <1>2, <2>1, <2>3, <2>4 DEF Snapshot
  <2>6. CanStage /\ draft' = Staged(new) /\ UNCHANGED <<versions, norms>>
    BY <1>13, <2>1, <2>2, <2>3 DEF CreateRule
  <2>7. draft'.snapshot = new /\ (draft = NoDraft \/ draft.base = Len(versions))
    BY <1>7, <2>5, <2>6
  <2>8. Adopted(n) /\ norms'[n].text = norms[n].text /\ KeptIn(n, s)
    BY <1>4, <2>1, <2>6, <2>7, BasesKept
  <2>9. RulesOf(s) \subseteq RulesOf(new)
    BY <2>5 DEF RulesOf
  <2>10. KeptIn(n, new)'
    BY <1>2, <2>1, <2>5, <2>8, <2>9, KeptStays
  <2> QED
    BY <1>3, <2>7, <2>10
<1>14. ASSUME NEW r \in DOMAIN rules, NEW valid \in BOOLEAN, Len(codes) < MaxCodes, CanStage,
              Land(r, valid), UNCHANGED <<versions, norms>>
       PROVE  KeptIn(n, draft.snapshot)'
  <2>1. CASE ~UNCHANGED draft
    <3>1. PICK s : s = draft.snapshot
      OBVIOUS
    <3>2. PICK new : new = draft'.snapshot
      OBVIOUS
    <3>3. /\ draft # NoDraft /\ draft'.base = draft.base
          /\ RulesOf(s) \subseteq RulesOf(new) /\ new.guidance = s.guidance /\ new \in Snapshot
      BY <1>14, <2>1, <3>1, <3>2, LandKeeps
    <3>4. Adopted(n) /\ norms'[n].text = norms[n].text
      BY <1>4, <1>14
    <3>5. s \in Snapshot /\ Exist(s.rules) /\ KeptIn(n, s)
      BY <1>14, <3>1, <3>3, <3>4, DraftFields DEF IInv, DraftInv, KeptInv, KeptEverywhere
    <3>6. KeptIn(n, new)'
      BY <3>3, <3>4, <3>5, KeptStays
    <3> QED
      BY <1>3, <3>2, <3>6
  <2> QED
    BY <1>5, <2>1
<1>15. CASE EndRequest
  <2>1. CASE ~UNCHANGED draft
    <3>1. /\ Len(codes) < MaxCodes /\ CanStage /\ \E valid \in BOOLEAN : Land(request.rule, valid)
          /\ UNCHANGED <<versions, norms>>
      BY <1>15, <2>1 DEF EndRequest
    <3>2. request.rule \in DOMAIN rules
      BY <1>15 DEF EndRequest, IInv, JobsInv
    <3> QED
      BY <1>14, <3>1, <3>2
  <2> QED
    BY <1>5, <2>1
<1>16. ASSUME NEW r \in DOMAIN rules, EndCompile(r)
       PROVE  KeptIn(n, draft.snapshot)'
  <2>1. CASE ~UNCHANGED draft
    <3>1. /\ Len(codes) < MaxCodes /\ CanStage /\ \E valid \in BOOLEAN : Land(r, valid)
          /\ UNCHANGED <<versions, norms>>
      BY <1>16, <2>1 DEF EndCompile
    <3> QED
      BY <1>14, <3>1
  <2> QED
    BY <1>5, <2>1
<1>17. ASSUME NEW r \in DOMAIN rules, NEW S \in SUBSET Artifact, CanStage,
              Without(Candidate, r) \subseteq S,
              draft' = Staged([Candidate EXCEPT !.rules = S]), UNCHANGED <<rules, versions, norms>>,
              removed \union Texts({q \in {r} : q \notin {a.rule : a \in S}}) \subseteq removed'
       PROVE  KeptIn(n, draft.snapshot)'
  <2>1. PICK s : s = Candidate
    OBVIOUS
  <2>2. PICK new : new = [s EXCEPT !.rules = S]
    OBVIOUS
  <2>3. new \in Snapshot /\ new.rules = S /\ new.guidance = s.guidance
    BY <1>2, <1>17, <2>1, <2>2 DEF Snapshot
  <2>4. draft'.snapshot = new /\ (draft = NoDraft \/ draft.base = Len(versions))
    BY <1>7, <1>17, <2>1, <2>2, <2>3
  <2>5. RulesOf(s) \ RulesOf(new) \subseteq {q \in {r} : q \notin {a.rule : a \in S}}
    BY <1>17, <2>1, <2>3 DEF RulesOf, Without
  <2>6. Texts(RulesOf(s) \ RulesOf(new)) \subseteq Texts({q \in {r} : q \notin {a.rule : a \in S}})
    BY <2>5 DEF Texts
  <2>7. KeptIn(n, s)
    BY <1>4, <1>17, <2>1, <2>4, BasesKept
  <2>8. KeptIn(n, new)'
    BY <1>17, <2>3, <2>6, <2>7, KeptOrRemoved
  <2> QED
    BY <1>3, <2>4, <2>8
<1>18. ASSUME NEW r \in DOMAIN rules, Activate(r)
       PROVE  KeptIn(n, draft.snapshot)'
  <2>1. PICK S : S = Without(Candidate, r) \union {ArtifactOf(r)}
    OBVIOUS
  <2>2. S \in SUBSET Artifact /\ r \in {a.rule : a \in S}
    BY <1>2, <2>1, ArtifactsOfRows DEF IInv, Without, Snapshot
  <2>3. /\ CanStage /\ draft' = Staged([Candidate EXCEPT !.rules = S])
        /\ UNCHANGED <<rules, versions, norms, removed>>
    BY <1>18, <2>1 DEF Activate, ruleVars
  <2>4. Texts({q \in {r} : q \notin {a.rule : a \in S}}) = {}
    BY <2>2 DEF Texts
  <2> QED
    BY <1>17, <2>1, <2>2, <2>3, <2>4
<1>19. ASSUME NEW r \in DOMAIN rules, Retire(r)
       PROVE  KeptIn(n, draft.snapshot)'
  <2>1. PICK S : S = Without(Candidate, r)
    OBVIOUS
  <2>2. S \in SUBSET Artifact
    BY <1>2, <2>1 DEF Without, Snapshot
  <2>3. /\ CanStage /\ draft' = Staged([Candidate EXCEPT !.rules = S])
        /\ UNCHANGED <<rules, versions, norms>> /\ removed' = removed \union Texts({r})
    BY <1>19, <2>1 DEF Retire, ruleVars
  <2>4. Texts({q \in {r} : q \notin {a.rule : a \in S}}) \subseteq Texts({r})
    BY DEF Texts
  <2> QED
    BY <1>17, <2>1, <2>2, <2>3, <2>4
<1> QED
  BY <1>5, <1>9, <1>10, <1>11, <1>12, <1>13, <1>15, <1>16, <1>18, <1>19, DraftKinds

(* A conversation that was started on the active version plans every norm       *)
(* adopted before.                                                              *)
LEMMA PlanKept ==
    ASSUME IInv, KeptInv, [Next]_vars
    PROVE  /\ session'.from.active <= Len(versions')
           /\ \A n \in Norms : Adopted(n)' /\ session' # NoSession /\ session'.from.active = Len(versions')
                 => KeptInPlan(n, session.plan)'
<1>1. PICK old \in SessionRow : old = session
  BY DEF IInv, SessionInv
<1>2. /\ old.from.active \in Nat /\ old.from.active <= Len(versions) /\ Len(versions) \in Nat
      /\ UNCHANGED versions \/ Len(versions') = Len(versions) + 1
  BY <1>1, SessionFields, VersionsAdded DEF KeptInv
<1>3. ASSUME session = NoSession => session' = NoSession,
             session'.from = old.from, session'.plan = old.plan
      PROVE  /\ session'.from.active <= Len(versions')
             /\ \A n \in Norms : Adopted(n)' /\ session' # NoSession /\ session'.from.active = Len(versions')
                   => KeptInPlan(n, session.plan)'
  <2>1. session'.from.active <= Len(versions')
    BY <1>2, <1>3
  <2>2. ASSUME NEW n \in Norms, Adopted(n)', session' # NoSession, session'.from.active = Len(versions')
        PROVE  KeptInPlan(n, session.plan)'
    <3>1. UNCHANGED versions /\ session # NoSession
      BY <1>2, <1>3, <2>2
    <3>2. Adopted(n) /\ norms'[n].text = norms[n].text
      BY <2>2, <3>1, AdoptedBefore, VersionsAdded
    <3>3. KeptInPlan(n, session.plan)
      BY <1>1, <1>3, <2>2, <3>1, <3>2 DEF KeptInv, KeptEverywhere
    <3>4. removed \subseteq removed'
      BY RemovedGrows
    <3> QED
      BY <1>1, <1>3, <3>2, <3>3, <3>4 DEF KeptInPlan
  <2> QED
    BY <2>1, <2>2
<1>4. CASE UNCHANGED session
  BY <1>1, <1>3, <1>4
<1>5. CASE Restart
  <2>1. session' = old \/ session' = [old EXCEPT !.preparing = NoPreview]
    BY <1>1, <1>5 DEF Restart
  <2>2. session = NoSession => session' = NoSession
    BY <1>5 DEF Restart
  <2> QED
    BY <1>3, <2>1, <2>2 DEF SessionRow
<1>6. CASE StartSession
  <2>1. PICK s : s = Active
    OBVIOUS
  <2>2. /\ session'.from.active = Len(versions)
        /\ session'.plan = [config |-> s.config, rules |-> Texts(RulesOf(s)), guidance |-> s.guidance]
        /\ UNCHANGED <<rules, versions, norms, removed>>
    BY <1>6, <2>1 DEF StartSession, Fingerprint, ruleVars
  <2>3. ASSUME NEW n \in Norms, Adopted(n)'
        PROVE  KeptInPlan(n, session.plan)'
    <3>1. Adopted(n) /\ KeptIn(n, s)
      BY <2>1, <2>2, <2>3 DEF Adopted, KeptInv, KeptEverywhere
    <3> QED
      BY <2>2, <3>1 DEF KeptIn, KeptInPlan
  <2> QED
    BY <1>2, <2>2, <2>3
<1>7. CASE Review \/ StartPrepare \/ EndPrepare \/ PublishSession
  <2>1. session # NoSession
    BY <1>7 DEF Review, StartPrepare, EndPrepare, PublishSession, CanSave, Open
  <2>2. session'.from = old.from /\ session'.plan = old.plan
    <3>1. CASE Review
      BY <1>1, <3>1 DEF Review, SessionRow
    <3>2. CASE StartPrepare
      BY <1>1, <3>2 DEF StartPrepare, SessionRow
    <3>3. CASE EndPrepare
      BY <1>1, <3>3 DEF EndPrepare, SessionRow
    <3>4. CASE PublishSession
      BY <1>1, <3>4 DEF PublishSession, SessionRow
    <3> QED
      BY <1>7, <3>1, <3>2, <3>3, <3>4
  <2> QED
    BY <1>3, <2>1, <2>2
<1>8. ASSUME NEW plan \in Plans, Revise(plan)
      PROVE  /\ session'.from.active <= Len(versions')
             /\ \A n \in Norms : Adopted(n)' /\ session' # NoSession /\ session'.from.active = Len(versions')
                   => KeptInPlan(n, session.plan)'
  <2>1. /\ session # NoSession /\ UNCHANGED <<versions, norms>>
        /\ session' = [old EXCEPT !.revision = @ + 1, !.plan = plan, !.accepted = FALSE,
                                  !.preview = NoPreview]
        /\ removed' = removed \union (old.plan.rules \ plan.rules)
                              \union (old.plan.guidance \ plan.guidance)
    BY <1>1, <1>8 DEF Revise, CanSave, Open
  <2>2. session'.from = old.from /\ session'.plan = plan
    BY <2>1 DEF SessionRow
  <2>3. ASSUME NEW n \in Norms, Adopted(n)', session'.from.active = Len(versions')
        PROVE  KeptInPlan(n, session.plan)'
    <3>1. Adopted(n) /\ KeptInPlan(n, old.plan)
      BY <1>1, <2>1, <2>2, <2>3 DEF Adopted, KeptInv, KeptEverywhere
    <3> QED
      BY <2>1, <2>2, <3>1 DEF KeptInPlan
  <2> QED
    BY <1>2, <2>1, <2>2, <2>3
<1> QED
  BY <1>4, <1>5, <1>6, <1>7, <1>8, SessionKinds

(* No norm is adopted at first.                                               *)
LEMMA KeptInit == Init => KeptInv
<1> SUFFICES ASSUME Init PROVE KeptInv
  OBVIOUS
<1>1. \A n \in Norms : ~Adopted(n)
  BY DEF Init, NoNorm, Adopted
<1>2. session.from.active = 0 /\ Len(versions) = 1
  BY DEF Init, NoSession
<1> QED
  BY <1>1, <1>2 DEF KeptInv

(* Every step keeps an adopted norm in what may still be published.           *)
LEMMA KeptStep == IInv /\ PreviewInv /\ KeptInv /\ [Next]_vars => KeptInv'
<1> SUFFICES ASSUME IInv, PreviewInv, KeptInv, [Next]_vars PROVE KeptInv'
  OBVIOUS
<1>1. ASSUME NEW n \in Norms, Adopted(n)' PROVE KeptEverywhere(n)'
  BY <1>1, ActiveKept, DraftKept, PlanKept DEF KeptEverywhere
<1> QED
  BY <1>1, PlanKept DEF KeptInv

(* A norm a manager adopted is in force until somebody takes it out: a draft or *)
(* a conversation that started before is not published over it.                 *)
THEOREM AuthoringNormsSurvive == Spec => []NormsSurvive
<1>1. Init => PreviewInv /\ KeptInv
  BY PreviewInit, KeptInit
<1>2. IInv /\ PreviewInv /\ KeptInv /\ [Next]_vars => PreviewInv' /\ KeptInv'
  BY PreviewStep, KeptStep
<1>3. KeptInv => NormsSurvive
  BY DEF KeptInv, KeptEverywhere, KeptIn, Adopted, NormsSurvive
<1> QED
  BY <1>1, <1>2, <1>3, AuthoringInductive, PTL DEF Spec
=============================================================================
