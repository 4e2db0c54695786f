-------------------------------- MODULE MCFfi --------------------------------
EXTENDS Ffi

CONSTANTS t1, t2, r

TwoCallers == {t1, t2}
=============================================================================
