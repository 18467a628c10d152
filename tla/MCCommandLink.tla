--------------------------- MODULE MCCommandLink ---------------------------
EXTENDS CommandLink

CONSTANT tel   \* model value
=============================================================================
