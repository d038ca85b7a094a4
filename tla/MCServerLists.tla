--------------------------- MODULE MCServerLists ---------------------------
EXTENDS ServerLists
=============================================================================
