--------------------------- MODULE MCWaitingList ---------------------------
EXTENDS WaitingList
=============================================================================
