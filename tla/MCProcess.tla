----------------------------- MODULE MCProcess -----------------------------
(* Small instances of Process. One live source the rules of both snapshots     *)
(* read; the second snapshot requires a symbol the first does not declare.     *)
EXTENDS Process, TLC

CONSTANTS ok, bad, s1, part, Pay, Stop, Review

MCHas == [r \in Readings |-> IF r = part THEN {"order"} ELSE {"order", "iban"}]
MCTypesOf == [s \in Snapshots |-> Types]
MCHuman == [s \in Snapshots |-> {Review}]
MCDefault == [s \in Snapshots |-> Pay]
MCEscalation == [s \in Snapshots |-> Review]
MCRequired == [s \in Snapshots |-> IF s = s1 THEN {"order"} ELSE {"order", "iban"}]
MCDeclared == [s \in Snapshots |-> IF s = s1 THEN {"order"} ELSE {"order", "iban"}]
MCReads == [s \in Snapshots |-> Sources]
Symmetry == Permutations(Clients) \union Permutations(Instances)

NoReview == [s \in Snapshots |-> FALSE]
WithReview == [s \in Snapshots |-> TRUE]
MCGood == [s \in Snapshots |-> TRUE]

\* A rule of s1 stops a case when a source is bad; s2 stops it when a source is good.
\* A rule whose source is down leaves the case open, so the engine escalates it.
MCRunRules(s, readings, tables, down, i) ==
    [failed |-> FALSE,
     decision |-> IF down \intersect Sources # {} THEN Review
                  ELSE IF \E name \in Sources : tables[name] = (IF s = s1 THEN bad ELSE ok)
                  THEN Stop ELSE Pay]
=============================================================================
