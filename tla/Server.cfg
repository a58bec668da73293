SPECIFICATION FairSpec
CONSTANTS
    desktop = desktop
    phone = phone
    heating = heating
    limit = limit
    title = title
    low = low
    high = high
    None = None
    Unset = Unset
    Clients = {desktop, phone}
    Fds = {54, 55}
    QueueSize = 2
    MaxRequests = 2
    Groups = {heating}
    Keys = {limit, title}
    StringKeys = {title}
    SettingValues = {low, high}
INVARIANTS
    TypeOK
    AnswersReachAsker
    AcknowledgedSettingsHold
PROPERTIES
    RequestsEnd
