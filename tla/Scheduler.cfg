SPECIFICATION FairSpec
CONSTANTS
    always = always
    hall = hall
    None = None
    Freed = Freed
    Names = {always, hall}
    Statics = {always}
    Faults = {"reset", "overlap", "predefined", "refused"}
    MaxDay = 2
    MaxResets = 2
INVARIANTS
    TypeOK
    
    SunTimesOfToday
PROPERTIES
    StoreImplemented
    BootsUnlessPredefined
