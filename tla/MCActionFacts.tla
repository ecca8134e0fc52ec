--------------------------- MODULE MCActionFacts ---------------------------
\* The history projection on three-seat streets.
EXTENDS ActionFacts
=============================================================================
