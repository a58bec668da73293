SPECIFICATION Spec
CONSTANTS
    anna = anna
    finger0 = finger0
    finger1 = finger1
    None = None
    Names = {anna, finger0, finger1}
    Indices = {0, 1}
    FirstPage = {0}
    Actions = {0, 1}
    Schedules = {"ALWAYS"}
    DummyName <- DummyNames
    Faults = {"reset", "lost", "refused"}
    MaxPackets = 1
INVARIANTS
    TypeOK
    
    NoInheritedAction
