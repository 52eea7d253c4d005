\* A record handled before the restorer has run hides what is persisted.
SPECIFICATION Spec
CONSTANTS
    d1 = d1
    Devices <- OneDevice
    MaxTime = 2
    MaxDrift = 1
    Window = 1
    Range = 3
INVARIANTS
    RestoredIsKnown
