\* One device; clocks run from 0 to 3, and records drift by less than 2.
SPECIFICATION Spec
CONSTANTS
    d1 = d1
    Devices <- OneDevice
    MaxTime = 3
    MaxDrift = 2
    Window = 2
    Range = 3
INVARIANTS
    NoRewindOfStored
    RewindBounded
    ClockKeepsUp
    NoRewindOfFound
    NotAheadOfRecords
PROPERTIES
    LastIsMonotone
