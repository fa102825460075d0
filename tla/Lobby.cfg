SPECIFICATION FairSpec
CONSTANTS
    h1 = h1
    h2 = h2
    h3 = h3
    h4 = h4
    h5 = h5
    Human <- MCHuman
    Bot = {1, 2, 3}
    Address = {"home", "other"}
    AddressOf <- MCAddressOf
    MaxPerIP = 2
    MaxRooms = 1
    MaxPlayers = 3
    InboxSize = 2
    PersistBuffer = 1
    Scenario <- MCScenario
INVARIANTS TypeOK SlotsMatchConnections NothingLost
PROPERTIES NoPhantomHumans FillerConverges ServerStops
CHECK_DEADLOCK FALSE
