--------------------------- MODULE MCDegradedMode ---------------------------
\* Small instances of DegradedMode for TLC.
EXTENDS DegradedMode
=============================================================================
