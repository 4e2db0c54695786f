------------------------------ MODULE MCNodes -------------------------------
EXTENDS Nodes

CONSTANTS major, other

TwoGroups == {major, other}
=============================================================================
