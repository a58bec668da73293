SPECIFICATION FairSpec
CONSTANTS
    anna = anna
    finger0 = finger0
    finger1 = finger1
    None = None
    Names = {anna, finger0}
    Indices = {0}
    FirstPage = {0}
    Actions = {0, 1}
    Schedules = {"ALWAYS", "NEVER"}
    DummyName <- DummyNames
    Faults = {"reset", "lost", "refused", "slow", "overlap"}
    MaxPackets = 2

    
    
PROPERTIES
    RepairedByBegin
    EnrollmentEnds
