SPECIFICATION Spec
CONSTANTS
    MaxBlocks = 2
    MaxPayload = 3
INVARIANTS
    DecodedIsSent
CHECK_DEADLOCK FALSE
