------------------------------- MODULE MCMail -------------------------------
(* Small instances of Mail: two messages with one PDF, the second with a part  *)
(* that may be refused; and one message with two parts, for every fault.       *)
EXTENDS Mail, TLC

CONSTANTS f1, f2

MCParts == <<<<{f1}>>, <<{Invalid, f1}>>>>
MCOneMessage == <<<<{f1}, {f2, Invalid}>>>>
Symmetry == Permutations(Workers)
=============================================================================
