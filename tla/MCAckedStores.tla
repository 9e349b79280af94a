--------------------------- MODULE MCAckedStores ----------------------------
EXTENDS MCDitty, AckedStores
=============================================================================
