SPECIFICATION Spec
CONSTANTS
    home = home
    office = office
    homeKey = homeKey
    officeKey = officeKey
    Empty = Empty
    Absent = Absent
    Ssids = {home}
    Passwords = {homeKey, officeKey}
    Networks <- OneNetwork
    StartupAttempts = 3
    OperationAttempts = 4
    ReconnectTimeout = 1
    ShutdownApTimeout = 2
    CommonTimeout = 2
    FlashFaults = FALSE
    MaxEvents = 2
INVARIANTS
    FallbackConnectedOnce
