--------------------------- MODULE MCGroundControl ---------------------------
EXTENDS GroundControl

CONSTANTS tel, rad   \* model values
=============================================================================
