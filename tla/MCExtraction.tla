--------------------------- MODULE MCExtraction ----------------------------
(* Small instances of Extraction: two readings of one page.                    *)
EXTENDS Extraction, TLC

CONSTANTS k1, k2, page, gemini, helmcode

MCChain == <<gemini, helmcode>>
MCOneProvider == <<gemini>>
MCCallOf == [k \in Keys |-> page]
MCOwnStripes == [k \in Keys |-> k]
Symmetry == Permutations(Workers)
=============================================================================
