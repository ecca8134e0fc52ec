---------------------------- MODULE MCDealerRoom ----------------------------
EXTENDS DealerRoom
=============================================================================
