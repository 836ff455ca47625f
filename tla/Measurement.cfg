SPECIFICATION FairSpec
CONSTANTS
    SocketRoom = 2
    Capacity = 3
    MaxSent = 5
INVARIANTS
    ExcessIsInFlight
    ReturnsJoined
PROPERTY RunEnds
