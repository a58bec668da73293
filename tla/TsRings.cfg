SPECIFICATION Spec
CONSTANTS
    Start <- FourStart
    Count <- FourCount
    Trigger <- FourTrigger
    Fused <- FourFused
    Header = 10
    Records = 4
    Width = 1000
    MaxClock = 9
    MaxClockSets = 1
INVARIANTS
    TypeOK
    WritesToErasedUnits
    TriggersNotMissed
    FirstAverageExact
PROPERTIES
    OnlyOldestErased
