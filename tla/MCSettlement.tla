---------------------------- MODULE MCSettlement ----------------------------
\* Settlement on small tables.
EXTENDS Settlement
=============================================================================
