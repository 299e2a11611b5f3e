SPECIFICATION Spec
CONSTANTS
    MaxStatements = 3
INVARIANTS
    ProvidersSound
    RefinementSound
    ParserSound
    FormatterSound
    CheckerSound
CHECK_DEADLOCK FALSE
