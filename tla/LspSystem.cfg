SPECIFICATION Spec
CONSTANTS
    Docs = {a, b}
    NoDoc = NoDoc
    Broken = {3}
    Empty = {4}
    MaxReqs = 3
    MaxText = 4
    Edited = {a}
    MaxFlight = 2
    MaxEvents = 3
    MaxRestarts = 1
    MaxFailures = 1
INVARIANTS TypeOK SettledInSync NewestShown OnlyWedgedHangs
