------------------------------ MODULE MCEngine ------------------------------
(* Instances of Engine for TLC: an invoice process with the default type, two *)
(* rejections and the escalation type.                                       *)
EXTENDS Engine

CONSTANTS pay, reject, hold, escalate, erp, total

MCTypes == {pay, reject, hold, escalate}
\* `reject' and `hold' share a priority: the engine must not rank them.
MCPriority == [t \in MCTypes |-> CASE t = pay -> 0 [] t = escalate -> 1 [] OTHER -> 2]

\* Rules of every type that reads nothing or the ERP, and the ways a rule has no code.
MCRules ==
    [decision : MCTypes, code : {"code"}, reads : {{}, {erp}}]
        \union [decision : {reject}, code : {"needs_data", "compile_failed", "empty"}, reads : {{}}]

\* A text document or a scan, in no doubt or with one doubt: missing, unverified, unconfirmed.
MCDocs ==
    {d \in DocSpace :
        Cardinality(d.missing) + Cardinality(d.unverified) + Cardinality(d.unconfirmed) <= 1}
=============================================================================
