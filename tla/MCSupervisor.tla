---------------------------- MODULE MCSupervisor ----------------------------
EXTENDS Supervisor

CONSTANT c1

OneSocket == {c1}
=============================================================================
