SPECIFICATION Spec
CONSTANTS
    Start <- TwoStart
    Count <- TwoCount
    Trigger <- TwoTrigger
    Fused <- TwoTrigger
    Header = 10
    Records = 2
    Width = 1000
    MaxClock = 20
    MaxClockSets = 0
INVARIANTS
    AverageReadsLatest
