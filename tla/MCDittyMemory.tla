--------------------------- MODULE MCDittyMemory ----------------------------
EXTENDS MCDitty, DittyMemory
=============================================================================
