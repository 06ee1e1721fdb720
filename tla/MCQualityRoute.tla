--------------------------- MODULE MCQualityRoute ---------------------------
(***************************************************************************)
(* QualityRoute with a root request and one of any kind on one session.    *)
(***************************************************************************)
EXTENDS QualityRoute, TLC

CONSTANTS a, b

MCRequest == {a, b}
MCCandidates == [r \in MCRequest |-> IF r = a THEN 1 ELSE 2]
MCKind == [r \in MCRequest |-> IF r = a THEN {Root} ELSE Key]

=============================================================================
