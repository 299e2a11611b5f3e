SPECIFICATION Spec
CONSTANTS
    MaxStatements = 3
INVARIANTS
    ExportsAreRunnable
CHECK_DEADLOCK FALSE
