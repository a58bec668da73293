SPECIFICATION FairSpec
CONSTANTS
    Length <- Lengths
    Faults = {"overlap", "lost", "late"}
    MaxCommands = 3
    MaxUnits = 8
INVARIANTS
    TypeOK
    TakesOwnAnswer
    AloneReadsItsAnswer
PROPERTIES
    CommandsReturn
