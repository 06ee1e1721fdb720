--------------------------- MODULE MCBodyAdmission ---------------------------
\* Small instances of BodyAdmission for TLC.
EXTENDS BodyAdmission, TLC

Interchangeable == Permutations(Request)
=============================================================================
