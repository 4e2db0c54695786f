--------------------------- MODULE MCRelaySession ---------------------------
EXTENDS RelaySession

CONSTANTS d1, d2

TwoDials == {d1, d2}
=============================================================================
