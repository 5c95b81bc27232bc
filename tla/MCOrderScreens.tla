--------------------------- MODULE MCOrderScreens ---------------------------
EXTENDS OrderScreens
=============================================================================
