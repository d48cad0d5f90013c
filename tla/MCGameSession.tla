--------------------------- MODULE MCGameSession ---------------------------
EXTENDS GameSession
=============================================================================
