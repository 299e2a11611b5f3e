SPECIFICATION Spec
CONSTANTS
    MaxStatements = 3
INVARIANTS
    AddressInvalidates
CHECK_DEADLOCK FALSE
