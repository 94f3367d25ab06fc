--------------------------- MODULE MCClientServer ---------------------------
EXTENDS ClientServer
=============================================================================
