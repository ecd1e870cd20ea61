------------------------- MODULE MCUpdateController -------------------------
EXTENDS UpdateController
=============================================================================
