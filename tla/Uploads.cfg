SPECIFICATION Spec
CONSTANTS
    ota_0 = ota_0
    ota_1 = ota_1
    index = index
    style = style
    old = old
    new = new
    None = None
    Slots = {ota_0, ota_1}
    NextUpdate <- OtherSlot
    Paths = {index, style}
    Versions = {old, new}
    MaxChunks = 3
    Faults = {"reset", "network", "flash", "image", "full"}
INVARIANTS
    TypeOK
    AlwaysBootable
    RollbackPossible
    AcknowledgedIsStored
    UnfinishedOnlyAfterReset
PROPERTIES
    ConfirmedHasRun
